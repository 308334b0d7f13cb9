-------------------------- MODULE InterfacesProof ---------------------------
(***************************************************************************)
(* Theorems about the blocks that join a flowgraph to threads of their own: *)
(* PythonInterfaces (what is handed over is neither lost nor repeated nor   *)
(* disordered, for queues of any size, any number of messages, samples and  *)
(* calls) and VitaRx (packets reach the listener whole, once and in order,  *)
(* for any streams of any packets, cut into reads of any size), for every   *)
(* interleaving of the threads.                                             *)
(***************************************************************************)
EXTENDS PythonInterfaces, VitaRx, SequenceTheorems, WellFoundedInduction, TLAPS

(***************************************************************************)
(* Lemmas about queues.                                                     *)
(***************************************************************************)
\* A queue is its head and its tail.
LEMMA HeadAndTail ==
  ASSUME NEW T, NEW b \in Seq(T), b # <<>>
  PROVE  /\ b = <<Head(b)>> \o Tail(b)
         /\ Head(b) \in T /\ Tail(b) \in Seq(T) /\ <<Head(b)>> \in Seq(T)
         /\ Len(Tail(b)) = Len(b) - 1 /\ Len(b) \in Nat \ {0}
<1>1. Len(b) \in Nat \ {0}
  BY EmptySeq
<1>2. /\ Head(b) \in T /\ Tail(b) \in Seq(T) /\ Len(Tail(b)) = Len(b) - 1
  BY HeadTailProperties
<1>3. SubSeq(b, 1, Len(b)) = <<b[1]>> \o SubSeq(b, 1 + 1, Len(b))
  BY <1>1, SubSeqRecursiveFirst
<1>4. Tail(b) = SubSeq(b, 2, Len(b)) /\ SubSeq(b, 1, Len(b)) = b
  BY TailIsSubSeq, SubSeqFull
<1>5. Head(b) = b[1]
  BY <1>1
<1>6. QED
  BY <1>1, <1>2, <1>3, <1>4, <1>5

\* The head of a queue that moves on leaves the order as it is.
LEMMA MovedHead ==
  ASSUME NEW T, NEW a \in Seq(T), NEW b \in Seq(T), b # <<>>
  PROVE  /\ Append(a, Head(b)) \o Tail(b) = a \o b
         /\ Append(a, Head(b)) \in Seq(T)
<1>1. Append(a, Head(b)) = a \o <<Head(b)>> /\ Append(a, Head(b)) \in Seq(T)
  BY HeadAndTail, AppendIsConcat, AppendProperties
<1>2. (a \o <<Head(b)>>) \o Tail(b) = a \o (<<Head(b)>> \o Tail(b))
  BY HeadAndTail, ConcatAssociative
<1>3. QED
  BY <1>1, <1>2, HeadAndTail

\* What joins a queue joins at the end.
LEMMA AppendedLast ==
  ASSUME NEW T, NEW a \in Seq(T), NEW b \in Seq(T), NEW x \in T
  PROVE  a \o Append(b, x) = Append(a \o b, x)
<1>1. a \o b \in Seq(T)
  BY ConcatProperties
<1>2. Append(b, x) = b \o <<x>> /\ Append(a \o b, x) = (a \o b) \o <<x>>
  BY <1>1, AppendIsConcat
<1>3. QED
  BY <1>2, ConcatAssociative

\* A queue that loses its head.
LEMMA DroppedHead ==
  ASSUME NEW T, NEW a \in Seq(T), NEW b \in Seq(T), b # <<>>
  PROVE  LET s == a \o b
             r == a \o Tail(b)
         IN  /\ s \in Seq(T) /\ r \in Seq(T) /\ Len(s) = Len(r) + 1
             /\ Len(a) \in 0 .. Len(r) /\ s[Len(a) + 1] = Head(b)
             /\ \A i \in 1 .. Len(r) : r[i] = IF i <= Len(a) THEN s[i] ELSE s[i + 1]
<1> DEFINE h == <<Head(b)>>
           t == Tail(b)
           s == a \o b
           r == a \o t
<1>1. /\ b = h \o t /\ h \in Seq(T) /\ t \in Seq(T) /\ h[1] = Head(b) /\ Len(h) = 1
      /\ Len(t) = Len(b) - 1 /\ Len(b) \in Nat \ {0} /\ Len(a) \in Nat
  BY HeadAndTail, LenProperties
<1> HIDE DEF h, t
<1>2. /\ s \in Seq(T) /\ Len(s) = Len(a) + Len(b)
      /\ \A i \in 1 .. Len(a) + Len(b) : s[i] = IF i <= Len(a) THEN a[i] ELSE b[i - Len(a)]
  BY ConcatProperties
<1>3. /\ r \in Seq(T) /\ Len(r) = Len(a) + Len(t)
      /\ \A i \in 1 .. Len(a) + Len(t) : r[i] = IF i <= Len(a) THEN a[i] ELSE t[i - Len(a)]
  BY <1>1, ConcatProperties
<1>4. \A i \in 1 .. Len(t) : t[i] = b[i + 1]
  BY HeadTailProperties DEF t
<1> HIDE DEF s, r
<1>5. s[Len(a) + 1] = Head(b)
  <2>1. s[Len(a) + 1] = b[1]
    <3>1. /\ Len(a) + 1 \in 1 .. Len(a) + Len(b)
          /\ ~(Len(a) + 1 <= Len(a)) /\ (Len(a) + 1) - Len(a) = 1
      BY <1>1
    <3>2. s[Len(a) + 1] = b[(Len(a) + 1) - Len(a)]
      BY <1>2, <3>1
    <3>3. QED
      BY <3>1, <3>2
  <2>2. QED
    BY <1>1, <2>1
<1>6. ASSUME NEW i \in 1 .. Len(r)
      PROVE  r[i] = IF i <= Len(a) THEN s[i] ELSE s[i + 1]
  <2>1. CASE i <= Len(a)
    <3>1. i \in 1 .. Len(a) + Len(b) /\ i \in 1 .. Len(a) + Len(t)
      BY <1>1, <1>3, <2>1
    <3>2. QED
      BY <1>2, <1>3, <2>1, <3>1
  <2>2. CASE i > Len(a)
    <3>1. i - Len(a) \in 1 .. Len(t) /\ (i - Len(a)) + 1 = (i + 1) - Len(a)
      BY <1>1, <1>3, <2>2
    <3>2. r[i] = b[(i + 1) - Len(a)]
      <4>1. i \in 1 .. Len(a) + Len(t) /\ ~(i <= Len(a))
        BY <1>1, <1>3, <2>2
      <4>2. r[i] = t[i - Len(a)]
        BY <1>3, <4>1
      <4>3. t[i - Len(a)] = b[(i - Len(a)) + 1]
        BY <1>4, <3>1
      <4>4. QED
        BY <3>1, <4>2, <4>3
    <3>3. i + 1 \in 1 .. Len(a) + Len(b) /\ ~(i + 1 <= Len(a)) /\ ~(i <= Len(a))
      BY <1>1, <1>3, <2>2
    <3>4. s[i + 1] = b[(i + 1) - Len(a)]
      BY <1>2, <3>3
    <3>5. QED
      BY <3>2, <3>3, <3>4
  <2>3. QED
    BY <1>1, <1>3, <2>1, <2>2
<1>7. QED
  BY <1>1, <1>2, <1>3, <1>5, <1>6 DEF s, r, t

\* The set of what is in a sequence.
LEMMA SetOfSeq ==
  ASSUME NEW T, NEW s \in Seq(T)
  PROVE  /\ ToSet(s) \subseteq T
         /\ \A x : x \in ToSet(s) <=> \E i \in 1 .. Len(s) : s[i] = x
BY LenProperties DEF ToSet

(***************************************************************************)
(* Lemmas about Handed: what each step of a queue does to it.               *)
(***************************************************************************)
LEMMA HandedArrival ==
  ASSUME NEW T, T \subseteq Int, NEW a \in Seq(T), NEW b \in Seq(T), NEW gone, NEW all,
         Handed(a, b, gone, all), NEW x \in T, \A y \in all : y < x
  PROVE  Handed(a, Append(b, x), gone, all \union {x})
<1> DEFINE s == a \o b
           r == a \o Append(b, x)
<1>1. s \in Seq(T) /\ r = Append(s, x) /\ r \in Seq(T)
  BY ConcatProperties, AppendedLast, AppendProperties
<1>2. /\ Len(s) \in Nat /\ Len(r) = Len(s) + 1 /\ r[Len(s) + 1] = x
      /\ \A i \in 1 .. Len(s) : r[i] = s[i]
  BY <1>1, AppendProperties, LenProperties
<1>3. /\ \A i, j \in 1 .. Len(s) : i < j => s[i] < s[j]
      /\ ToSet(s) \union gone = all /\ ToSet(s) \intersect gone = {}
  BY DEF Handed
<1> HIDE DEF s, r
<1>4. \A i \in 1 .. Len(s) : s[i] \in ToSet(s)
  BY <1>1, SetOfSeq
<1>5. ToSet(r) = ToSet(s) \union {x}
  <2>1. \A y : y \in ToSet(r) <=> \E i \in 1 .. Len(r) : r[i] = y
    BY <1>1, SetOfSeq
  <2>2. \A y : y \in ToSet(s) <=> \E i \in 1 .. Len(s) : s[i] = y
    BY <1>1, SetOfSeq
  <2>3. ASSUME NEW y
        PROVE  (\E i \in 1 .. Len(r) : r[i] = y) <=> (\E i \in 1 .. Len(s) : s[i] = y) \/ y = x
    BY <1>2
  <2>4. QED
    BY <2>1, <2>2, <2>3
<1>6. x \notin all
  BY <1>3
<1>7. ASSUME NEW i \in 1 .. Len(r), NEW j \in 1 .. Len(r), i < j
      PROVE  r[i] < r[j]
  <2>1. CASE j = Len(s) + 1
    <3>1. i \in 1 .. Len(s)
      BY <1>2, <1>7, <2>1
    <3>2. s[i] \in all
      BY <1>3, <1>4, <3>1
    <3>3. QED
      BY <1>2, <2>1, <3>1, <3>2
  <2>2. CASE j # Len(s) + 1
    <3>1. i \in 1 .. Len(s) /\ j \in 1 .. Len(s)
      BY <1>2, <1>7, <2>2
    <3>2. QED
      BY <1>2, <1>3, <1>7, <3>1
  <2>3. QED
    BY <2>1, <2>2
<1>8. ToSet(r) \union gone = all \union {x} /\ ToSet(r) \intersect gone = {}
  BY <1>3, <1>5, <1>6
<1>9. QED
  BY <1>7, <1>8 DEF Handed, r

LEMMA HandedOver ==
  ASSUME NEW T, NEW a \in Seq(T), NEW b \in Seq(T), b # <<>>, NEW gone, NEW all,
         Handed(a, b, gone, all)
  PROVE  Handed(Append(a, Head(b)), Tail(b), gone, all)
BY MovedHead DEF Handed

\* What is taken from the head of the queue is older than all that stays in it.
LEMMA HandedAway ==
  ASSUME NEW T, T \subseteq Int, NEW a \in Seq(T), NEW b \in Seq(T), b # <<>>,
         NEW gone, NEW all, Handed(a, b, gone, all)
  PROVE  /\ Handed(a, Tail(b), gone \union {Head(b)}, all)
         /\ Head(b) \in all /\ Head(b) \notin gone
         /\ \A y \in ToSet(Tail(b)) : Head(b) < y
         /\ ToSet(Tail(b)) \subseteq ToSet(b)
<1> DEFINE s == a \o b
           r == a \o Tail(b)
           k == Len(a) + 1
           x == Head(b)
<1>1. /\ s \in Seq(T) /\ r \in Seq(T) /\ Len(s) = Len(r) + 1
      /\ Len(a) \in 0 .. Len(r) /\ s[k] = x
      /\ \A i \in 1 .. Len(r) : r[i] = IF i <= Len(a) THEN s[i] ELSE s[i + 1]
  BY DroppedHead
<1>2. /\ \A i, j \in 1 .. Len(s) : i < j => s[i] < s[j]
      /\ ToSet(s) \union gone = all /\ ToSet(s) \intersect gone = {}
  BY DEF Handed
<1>3. /\ Tail(b) \in Seq(T) /\ Len(Tail(b)) = Len(b) - 1 /\ Len(b) \in Nat \ {0}
      /\ \A i \in 1 .. Len(Tail(b)) : Tail(b)[i] = b[i + 1]
      /\ Len(r) = Len(a) + Len(Tail(b))
      /\ \A i \in 1 .. Len(Tail(b)) : r[Len(a) + i] = Tail(b)[i]
  <2>1. /\ Tail(b) \in Seq(T) /\ Len(Tail(b)) = Len(b) - 1 /\ Len(b) \in Nat \ {0}
        /\ \A i \in 1 .. Len(Tail(b)) : Tail(b)[i] = b[i + 1]
    BY HeadAndTail, HeadTailProperties
  <2>2. /\ Len(r) = Len(a) + Len(Tail(b)) /\ Len(a) \in Nat
        /\ \A i \in 1 .. Len(a) + Len(Tail(b)) :
             r[i] = IF i <= Len(a) THEN a[i] ELSE Tail(b)[i - Len(a)]
    BY <2>1, ConcatProperties, LenProperties
  <2> HIDE DEF r
  <2>3. ASSUME NEW i \in 1 .. Len(Tail(b))
        PROVE  r[Len(a) + i] = Tail(b)[i]
    <3>1. /\ Len(a) + i \in 1 .. Len(a) + Len(Tail(b))
          /\ ~(Len(a) + i <= Len(a)) /\ (Len(a) + i) - Len(a) = i
      BY <2>1, <2>2
    <3>2. QED
      BY <2>2, <3>1
  <2>4. QED
    BY <2>1, <2>2, <2>3
<1> HIDE DEF s, r, x
<1>4. Len(r) \in Nat /\ Len(a) \in Nat /\ k \in 1 .. Len(s)
  BY <1>1, LenProperties
<1>5. /\ \A y : y \in ToSet(r) <=> \E i \in 1 .. Len(r) : r[i] = y
      /\ \A y : y \in ToSet(s) <=> \E i \in 1 .. Len(s) : s[i] = y
  BY <1>1, SetOfSeq
\* The new sequence is the old one but for its element k.
<1>6. ASSUME NEW i \in 1 .. Len(r)
      PROVE  \E j \in 1 .. Len(s) : j # k /\ r[i] = s[j] /\ (i < k => j = i) /\ (i >= k => j = i + 1)
  <2>1. CASE i <= Len(a)
    BY <1>1, <1>4, <2>1
  <2>2. CASE ~(i <= Len(a))
    <3>1. i + 1 \in 1 .. Len(s) /\ i + 1 # k /\ i >= k
      BY <1>1, <1>4, <2>2
    <3>2. r[i] = s[i + 1]
      BY <1>1, <2>2
    <3>3. QED
      BY <1>4, <3>1, <3>2
  <2>3. QED
    BY <2>1, <2>2
<1>7. ASSUME NEW j \in 1 .. Len(s), j # k
      PROVE  \E i \in 1 .. Len(r) : r[i] = s[j]
  <2>1. CASE j < k
    <3>1. j \in 1 .. Len(r) /\ j <= Len(a)
      BY <1>1, <1>4, <2>1
    <3>2. QED
      BY <1>1, <3>1
  <2>2. CASE j > k
    <3>1. j - 1 \in 1 .. Len(r) /\ ~(j - 1 <= Len(a)) /\ (j - 1) + 1 = j
      BY <1>1, <1>4, <2>2
    <3>2. QED
      BY <1>1, <3>1
  <2>3. QED
    BY <1>4, <1>7, <2>1, <2>2
<1>8. \A i \in 1 .. Len(s) : s[i] \in Int
  BY <1>1, <1>5, SetOfSeq
<1>9. ASSUME NEW j \in 1 .. Len(s), j # k
      PROVE  s[j] # x
  <2>1. s[j] < s[k] \/ s[k] < s[j]
    BY <1>2, <1>4, <1>9
  <2>2. s[j] \in Int /\ s[k] \in Int
    BY <1>4, <1>8
  <2>3. QED
    BY <1>1, <2>1, <2>2
<1>10. ToSet(r) = ToSet(s) \ {x} /\ x \in ToSet(s)
  <2>1. \A y \in ToSet(r) : y \in ToSet(s) /\ y # x
    BY <1>5, <1>6, <1>9
  <2>2. \A y \in ToSet(s) : y # x => y \in ToSet(r)
    BY <1>1, <1>5, <1>7
  <2>3. QED
    BY <1>1, <1>4, <1>5, <2>1, <2>2
<1>11. ASSUME NEW i \in 1 .. Len(r), NEW j \in 1 .. Len(r), i < j
       PROVE  r[i] < r[j]
  <2>1. PICK i1 \in 1 .. Len(s) : r[i] = s[i1] /\ (i < k => i1 = i) /\ (i >= k => i1 = i + 1)
    BY <1>6
  <2>2. PICK j1 \in 1 .. Len(s) : r[j] = s[j1] /\ (j < k => j1 = j) /\ (j >= k => j1 = j + 1)
    BY <1>6
  <2>3. i1 < j1
    BY <1>4, <1>11, <2>1, <2>2
  <2>4. QED
    BY <1>2, <2>1, <2>2, <2>3
<1>12. Handed(a, Tail(b), gone \union {x}, all)
  <2>1. /\ ToSet(r) \union (gone \union {x}) = all
        /\ ToSet(r) \intersect (gone \union {x}) = {}
    BY <1>2, <1>10
  <2>2. QED
    BY <1>11, <2>1 DEF Handed, r
<1>13. ASSUME NEW y \in ToSet(Tail(b))
       PROVE  x < y
  <2>1. PICK i \in 1 .. Len(Tail(b)) : Tail(b)[i] = y
    BY <1>3, SetOfSeq
  <2>2. r[Len(a) + i] = y /\ Len(a) + i \in 1 .. Len(r) /\ Len(a) + i >= k
    BY <1>3, <1>4, <2>1
  <2>3. PICK j \in 1 .. Len(s) : y = s[j] /\ j = (Len(a) + i) + 1
    BY <1>6, <2>2
  <2>4. QED
    BY <1>1, <1>2, <1>4, <2>3
<1>14. ToSet(Tail(b)) \subseteq ToSet(b)
  <2>1. ASSUME NEW y \in ToSet(Tail(b))
        PROVE  y \in ToSet(b)
    <3>1. PICK i \in 1 .. Len(Tail(b)) : Tail(b)[i] = y
      BY <1>3, SetOfSeq
    <3>2. i + 1 \in 1 .. Len(b) /\ b[i + 1] = y
      BY <1>3, <3>1
    <3>3. QED
      BY <3>2, SetOfSeq
  <2>2. QED
    BY <2>1
<1>15. QED
  BY <1>2, <1>10, <1>12, <1>13, <1>14 DEF x

\* The oldest element of a queue is its first.
LEMMA RemovedOldest ==
  ASSUME NEW T, NEW q \in Seq(T), q # <<>>
  PROVE  RemoveAt(q, 1) = Tail(q) /\ q[1] = Head(q)
<1>1. SubSeq(q, 1, 0) = <<>>
  BY SubSeqEmpty
<1>2. SubSeq(q, 2, Len(q)) = Tail(q) /\ Tail(q) \in Seq(T)
  BY TailIsSubSeq, HeadAndTail
<1>3. RemoveAt(q, 1) = SubSeq(q, 1, 0) \o SubSeq(q, 2, Len(q))
  BY DEF RemoveAt
<1>4. <<>> \o Tail(q) = Tail(q)
  BY <1>2, ConcatEmptySeq
<1>5. QED
  BY <1>1, <1>2, <1>3, <1>4, HeadAndTail

(***************************************************************************)
(* The inductive invariant: one part for each block, one for the script.    *)
(***************************************************************************)
MsgType ==
  /\ arrived \in 0 .. Messages /\ handler \in {"idle", "put", "full", "raised"}
  /\ msg_queue \in Seq(1 .. Messages) /\ Len(msg_queue) <= QueueSize
  /\ got \in Seq(1 .. Messages) /\ evicted \subseteq 1 .. Messages /\ flushed \subseteq 1 .. Messages

DatType ==
  /\ consumed \in 0 .. Samples /\ work \in [len : 0 .. Samples, i : 0 .. Samples]
  /\ dat_queue \in Seq(0 .. Samples - 1) /\ Len(dat_queue) <= MaxSize
  /\ data \in Seq(0 .. Samples - 1) /\ dropped \subseteq 0 .. Samples - 1

\* A handler at work has a message.
MsgInv ==
  /\ MsgType
  /\ handler # "idle" => arrived >= 1
  /\ MessagesAccounted /\ NewestGetsIn

\* work() stays in its window, and the window in the stream.
DatInv ==
  /\ DatType
  /\ work.i <= work.len /\ consumed + work.len <= Samples
  /\ SamplesInOrder

CallInv ==
  script \in MessageCalls \union DataCalls \union {"idle"} /\ calls \in 0 .. Calls

IInv == MsgInv /\ DatInv /\ CallInv

LEMMA IInvInit == Init => IInv
<1> SUFFICES ASSUME Init PROVE IInv
  OBVIOUS
<1>1. <<>> \o <<>> = <<>> /\ ToSet(<<>>) = {} /\ Len(<<>>) = 0
      /\ <<>> \in Seq(1 .. Messages) /\ <<>> \in Seq(0 .. Samples - 1)
  BY ConcatEmptySeq DEF ToSet
<1>2. Handed(<<>>, <<>>, {}, {})
  BY <1>1 DEF Handed
<1>3. MsgInv
  <2>1. Handled = {} /\ evicted \union flushed = {}
    BY DEF Init, Handled
  <2>2. MessagesAccounted
    BY <1>2, <2>1 DEF Init, MessagesAccounted
  <2>3. QED
    BY <1>1, <2>2, QueueAssumption DEF Init, MsgInv, MsgType, NewestGetsIn
<1>4. DatInv
  <2>1. 0 .. consumed + work.i - 1 = {}
    BY DEF Init, NoWork
  <2>2. SamplesInOrder
    BY <1>2, <2>1 DEF Init, SamplesInOrder
  <2>3. QED
    BY <1>1, <2>2, QueueAssumption DEF Init, DatInv, DatType, NoWork
<1>5. CallInv
  BY QueueAssumption DEF Init, CallInv
<1>6. QED
  BY <1>3, <1>4, <1>5 DEF IInv

\* The parts that a step leaves alone stay true.
LEMMA MsgUnchanged == MsgInv /\ UNCHANGED msgVars => MsgInv'
BY DEF MsgInv, MsgType, MessagesAccounted, NewestGetsIn, Handled, msgVars

LEMMA DatUnchanged == DatInv /\ UNCHANGED datVars => DatInv'
BY DEF DatInv, DatType, SamplesInOrder, datVars

LEMMA CallUnchanged == CallInv /\ UNCHANGED <<script, calls>> => CallInv'
BY DEF CallInv

LEMMA CallEnded == CallInv /\ script' \in {script, "idle"} /\ calls' = calls => CallInv'
BY DEF CallInv

(***************************************************************************)
(* The steps of the message interface.                                      *)
(***************************************************************************)
LEMMA ArriveKeeps ==
  ASSUME MsgInv, Arrive
  PROVE  MsgInv'
<1>1. MsgType' /\ arrived' >= 1
  BY QueueAssumption DEF MsgInv, MsgType, Arrive
<1>2. Handled' = Handled
  BY DEF MsgInv, MsgType, Arrive, Handled
<1>3. MessagesAccounted'
  BY <1>2 DEF MsgInv, MessagesAccounted, Arrive
<1>4. NewestGetsIn'
  <2>1. \A e \in evicted : e \in Handled
    BY DEF MsgInv, MessagesAccounted, Handed
  <2>2. arrived + 1 \notin evicted
    BY <2>1 DEF MsgInv, MsgType, Handled, Arrive
  <2>3. QED
    BY <2>2 DEF MsgInv, NewestGetsIn, Arrive
<1>5. QED
  BY <1>1, <1>3, <1>4 DEF MsgInv

LEMMA PutKeeps ==
  ASSUME MsgInv, Put
  PROVE  MsgInv'
<1>1. MsgType /\ handler = "put" /\ arrived \in 1 .. Messages
  BY DEF MsgInv, MsgType, Put
<1>2. Handled = 1 .. arrived - 1 /\ arrived \notin Handled
  BY <1>1 DEF Handled, MsgType
<1>3. CASE ~Room
  <2>1. UNCHANGED <<arrived, msg_queue, got, evicted, flushed>> /\ handler' = "full"
    BY <1>3 DEF Put
  <2>2. Handled' = Handled
    BY <1>1, <2>1 DEF Handled
  <2>3. QED
    BY <1>1, <2>1, <2>2 DEF MsgInv, MsgType, MessagesAccounted, NewestGetsIn
<1>4. CASE Room
  <2>1. /\ msg_queue' = Append(msg_queue, arrived) /\ handler' = "idle"
        /\ UNCHANGED <<arrived, got, evicted, flushed>>
    BY <1>4 DEF Put
  <2>2. Handled' = Handled \union {arrived}
    BY <1>1, <1>2, <2>1 DEF Handled
  <2>3. msg_queue' \in Seq(1 .. Messages) /\ Len(msg_queue') = Len(msg_queue) + 1
    BY <1>1, <2>1, AppendProperties DEF MsgType
  <2>4. MsgType'
    BY <1>1, <1>4, <2>1, <2>3, QueueAssumption, LenProperties DEF MsgType, Room
  <2>5. MessagesAccounted'
    <3>1. Handed(got, msg_queue, evicted \union flushed, Handled)
      BY DEF MsgInv, MessagesAccounted
    <3>2. \A y \in Handled : y < arrived
      BY <1>1, <1>2
    <3>3. Handed(got, Append(msg_queue, arrived), evicted \union flushed, Handled \union {arrived})
      BY <1>1, <3>1, <3>2, HandedArrival, 1 .. Messages \subseteq Int DEF MsgType
    <3>4. QED
      BY <2>1, <2>2, <3>3 DEF MsgInv, MessagesAccounted
  <2>6. NewestGetsIn'
    <3>1. \A e \in evicted : e \in Handled
      BY DEF MsgInv, MessagesAccounted, Handed
    <3>2. \A e \in evicted : e < arrived
      BY <1>1, <1>2, <3>1
    <3>3. ASSUME NEW m \in ToSet(msg_queue')
          PROVE  m \in ToSet(msg_queue) \/ m = arrived
      <4>1. PICK i \in 1 .. Len(msg_queue') : msg_queue'[i] = m
        BY <2>3, SetOfSeq
      <4>2. CASE i \in 1 .. Len(msg_queue)
        BY <1>1, <2>1, <4>1, <4>2, AppendProperties, SetOfSeq DEF MsgType
      <4>3. CASE i = Len(msg_queue) + 1
        BY <1>1, <2>1, <4>1, <4>3, AppendProperties DEF MsgType
      <4>4. QED
        BY <1>1, <2>3, <4>1, <4>2, <4>3, LenProperties DEF MsgType
    <3>4. QED
      BY <2>1, <3>2, <3>3 DEF MsgInv, NewestGetsIn
  <2>7. QED
    BY <1>1, <2>1, <2>4, <2>5, <2>6 DEF MsgInv
<1>5. QED
  BY <1>3, <1>4

\* A message leaves the head of the queue for another place: to the script, to make
\* room, or flushed.
LEMMA HeadGone ==
  ASSUME MsgInv, msg_queue # <<>>, msg_queue' = Tail(msg_queue),
         UNCHANGED <<arrived, got>>, handler' \in {handler, "put"},
         handler' = handler \/ handler # "idle",
         \/ /\ evicted' = evicted \union {Head(msg_queue)} /\ flushed' = flushed
            /\ handler # "idle"
         \/ evicted' = evicted /\ flushed' = flushed \union {Head(msg_queue)}
  PROVE  MsgInv'
<1> DEFINE x == Head(msg_queue)
           gone == evicted \union flushed
<1>1. MsgType /\ Handed(got, msg_queue, gone, Handled) /\ evicted \intersect flushed = {}
  BY DEF MsgInv, MessagesAccounted
<1>2. /\ Handed(got, Tail(msg_queue), gone \union {x}, Handled)
      /\ x \in Handled /\ x \notin gone
      /\ \A y \in ToSet(Tail(msg_queue)) : x < y
      /\ ToSet(Tail(msg_queue)) \subseteq ToSet(msg_queue)
  BY <1>1, HandedAway, 1 .. Messages \subseteq Int DEF MsgType
<1>3. /\ x \in 1 .. Messages /\ Tail(msg_queue) \in Seq(1 .. Messages)
      /\ Len(Tail(msg_queue)) = Len(msg_queue) - 1 /\ Len(msg_queue) \in Nat
  BY <1>1, HeadAndTail DEF MsgType
<1> HIDE DEF x
<1>4. MsgType'
  <2>1. handler' \in {"idle", "put", "full", "raised"} /\ arrived' \in 0 .. Messages
    BY <1>1 DEF MsgType
  <2>2. evicted' \subseteq 1 .. Messages /\ flushed' \subseteq 1 .. Messages
    BY <1>1, <1>3 DEF MsgType, x
  <2>3. Len(msg_queue') <= QueueSize
    BY <1>1, <1>3, QueueAssumption DEF MsgType
  <2>4. QED
    BY <1>1, <1>3, <2>1, <2>2, <2>3 DEF MsgType
<1>5. Handled' = Handled
  BY DEF Handled
<1>6. evicted' \union flushed' = gone \union {x} /\ evicted' \intersect flushed' = {}
  BY <1>1, <1>2 DEF x
<1>7. MessagesAccounted'
  BY <1>2, <1>5, <1>6 DEF MessagesAccounted
<1>8. NewestGetsIn'
  <2>1. handler # "idle" => x # arrived
    BY <1>1, <1>2 DEF Handled, MsgType
  <2>2. QED
    BY <1>2, <2>1 DEF MsgInv, NewestGetsIn, x
<1>9. QED
  BY <1>4, <1>7, <1>8 DEF MsgInv

LEMMA EvictKeeps ==
  ASSUME MsgInv, Evict
  PROVE  MsgInv'
<1>1. CASE msg_queue = <<>>
  <2>1. /\ UNCHANGED <<arrived, msg_queue, got, evicted, flushed>>
        /\ handler = "full" /\ handler' = "raised"
    BY <1>1 DEF Evict
  <2>2. Handled' = Handled
    BY <2>1 DEF Handled
  <2>3. QED
    BY <2>1, <2>2 DEF MsgInv, MsgType, MessagesAccounted, NewestGetsIn
<1>2. CASE msg_queue # <<>>
  <2>1. RemoveAt(msg_queue, 1) = Tail(msg_queue) /\ msg_queue[1] = Head(msg_queue)
    BY <1>2, RemovedOldest DEF MsgInv, MsgType
  <2>2. /\ msg_queue' = Tail(msg_queue) /\ evicted' = evicted \union {Head(msg_queue)}
        /\ handler = "full" /\ handler' = "put" /\ UNCHANGED <<arrived, got, flushed>>
    BY <1>2, <2>1 DEF Evict, VictimOf, Again
  <2>3. QED
    BY <1>2, <2>2, HeadGone
<1>3. QED
  BY <1>1, <1>2

\* The script takes the oldest message.
LEMMA TakenKeeps ==
  ASSUME MsgInv, msg_queue # <<>>, msg_queue' = Tail(msg_queue),
         got' = Append(got, Head(msg_queue)), UNCHANGED <<arrived, handler, evicted, flushed>>
  PROVE  MsgInv'
<1>1. MsgType /\ Handed(got, msg_queue, evicted \union flushed, Handled)
  BY DEF MsgInv, MessagesAccounted
<1>2. Handed(got', msg_queue', evicted \union flushed, Handled) /\ got' \in Seq(1 .. Messages)
  BY <1>1, HandedOver, MovedHead DEF MsgType
<1>3. /\ Tail(msg_queue) \in Seq(1 .. Messages)
      /\ Len(Tail(msg_queue)) = Len(msg_queue) - 1 /\ Len(msg_queue) \in Nat
      /\ ToSet(Tail(msg_queue)) \subseteq ToSet(msg_queue)
  BY <1>1, HeadAndTail, HandedAway, 1 .. Messages \subseteq Int DEF MsgType
<1>4. MsgType'
  BY <1>1, <1>2, <1>3, QueueAssumption DEF MsgType
<1>5. Handled' = Handled
  BY DEF Handled
<1>6. MessagesAccounted' /\ NewestGetsIn'
  BY <1>2, <1>3, <1>5 DEF MsgInv, MessagesAccounted, NewestGetsIn
<1>7. QED
  BY <1>4, <1>6 DEF MsgInv

(***************************************************************************)
(* The steps of the sink.                                                   *)
(***************************************************************************)
LEMMA WorkCallKeeps ==
  ASSUME DatInv, WorkCall
  PROVE  DatInv'
<1>1. PICK n \in 1 .. Samples - consumed : work' = [len |-> n, i |-> 0]
  BY DEF WorkCall
<1>2. DatType /\ work.i = 0 /\ UNCHANGED <<consumed, dat_queue, data, dropped>>
  BY DEF DatInv, WorkCall, NoWork
<1>3. work'.i = 0 /\ work'.len = n /\ n \in Nat /\ consumed + n <= Samples
  BY <1>1, <1>2, QueueAssumption DEF DatType
<1>4. DatType'
  BY <1>1, <1>2, <1>3, QueueAssumption DEF DatType
<1>5. SamplesInOrder'
  BY <1>2, <1>3 DEF DatInv, SamplesInOrder
<1>6. QED
  BY <1>2, <1>3, <1>4, <1>5 DEF DatInv

LEMMA WorkReturnKeeps ==
  ASSUME DatInv, WorkReturn(work.i), UNCHANGED <<dat_queue, data, dropped>>
  PROVE  DatInv'
<1>1. /\ DatType /\ work.i <= work.len /\ consumed + work.len <= Samples
      /\ work.i \in Nat /\ work.len \in Nat /\ consumed \in Nat
  BY QueueAssumption DEF DatInv, DatType
<1>2. consumed' = consumed + work.i /\ work'.i = 0 /\ work'.len = 0 /\ work' = [len |-> 0, i |-> 0]
  BY DEF WorkReturn, NoWork
<1>3. DatType'
  BY <1>1, <1>2, QueueAssumption DEF DatType
<1>4. consumed' + work'.i - 1 = consumed + work.i - 1
  BY <1>1, <1>2
<1>5. SamplesInOrder'
  BY <1>4 DEF DatInv, SamplesInOrder
<1>6. QED
  BY <1>1, <1>2, <1>3, <1>5, QueueAssumption DEF DatInv

LEMMA WorkPutKeeps ==
  ASSUME DatInv, WorkPut
  PROVE  DatInv'
<1>1. /\ DatType /\ work.i <= work.len /\ consumed + work.len <= Samples
      /\ work.i \in Nat /\ work.len \in Nat /\ consumed \in Nat
      /\ UNCHANGED <<data, dropped>>
  BY QueueAssumption DEF DatInv, DatType, WorkPut
<1>2. CASE work.i = work.len
  BY <1>2, WorkReturnKeeps DEF WorkPut
<1>3. CASE work.i # work.len /\ Len(dat_queue) = MaxSize
  BY <1>3, WorkReturnKeeps DEF WorkPut, QueuedItems
<1>4. CASE work.i # work.len /\ Len(dat_queue) # MaxSize
  <2> DEFINE x == consumed + work.i
             all == 0 .. consumed + work.i - 1
  <2>1. /\ dat_queue' = Append(dat_queue, x) /\ work' = [work EXCEPT !.i = @ + 1]
        /\ consumed' = consumed
    BY <1>4 DEF WorkPut
  <2>2. x \in 0 .. Samples - 1 /\ x \in Nat
    BY <1>1, <1>4, QueueAssumption
  <2>3. work'.i = work.i + 1 /\ work'.len = work.len /\ work' \in [len : 0 .. Samples, i : 0 .. Samples]
        /\ work.i + 1 <= work.len
    <3>1. work.i + 1 <= work.len /\ work.i + 1 \in 0 .. Samples
      BY <1>1, <1>4, QueueAssumption DEF DatType
    <3>2. work \in [len : 0 .. Samples, i : 0 .. Samples]
      BY <1>1 DEF DatType
    <3>3. QED
      BY <2>1, <3>1, <3>2
  <2>4. dat_queue' \in Seq(0 .. Samples - 1) /\ Len(dat_queue') <= MaxSize
    BY <1>1, <1>4, <2>1, <2>2, QueueAssumption, AppendProperties, LenProperties DEF DatType
  <2>5. DatType'
    BY <1>1, <2>1, <2>3, <2>4 DEF DatType
  <2>6. Handed(data, dat_queue, dropped, all)
    BY Zenon DEF DatInv, SamplesInOrder
  <2>7. \A y \in all : y < x
    BY <1>1, <2>2
  <2>8. all \union {x} = 0 .. consumed' + work'.i - 1
    BY <1>1, <2>1, <2>2, <2>3
  <2> HIDE DEF x, all
  <2>9. Handed(data, Append(dat_queue, x), dropped, all \union {x})
    BY <1>1, <2>2, <2>6, <2>7, HandedArrival, 0 .. Samples - 1 \subseteq Int DEF DatType
  <2>10. SamplesInOrder'
    BY <1>1, <2>1, <2>8, <2>9 DEF SamplesInOrder
  <2>11. QED
    BY <1>1, <2>1, <2>3, <2>5, <2>10 DEF DatInv
<1>5. QED
  BY <1>2, <1>3, <1>4

LEMMA GetDataKeeps ==
  ASSUME DatInv, GetData
  PROVE  DatInv'
<1>1. /\ DatType /\ dat_queue # <<>> /\ data' = Append(data, Head(dat_queue))
      /\ dat_queue' = Tail(dat_queue) /\ UNCHANGED <<consumed, work, dropped>>
  BY DEF DatInv, GetData
<1>2. /\ Tail(dat_queue) \in Seq(0 .. Samples - 1)
      /\ Len(Tail(dat_queue)) = Len(dat_queue) - 1 /\ Len(dat_queue) \in Nat
      /\ data' \in Seq(0 .. Samples - 1)
  BY <1>1, HeadAndTail, MovedHead DEF DatType
<1>3. DatType'
  BY <1>1, <1>2, QueueAssumption DEF DatType
<1>4. Handed(data', dat_queue', dropped, 0 .. consumed + work.i - 1)
  BY <1>1, HandedOver DEF DatInv, DatType, SamplesInOrder
<1>5. QED
  BY <1>1, <1>3, <1>4 DEF DatInv, SamplesInOrder

LEMMA FlushDataKeeps ==
  ASSUME DatInv, FlushData
  PROVE  DatInv'
<1>1. CASE dat_queue = <<>>
  BY <1>1, DatUnchanged DEF FlushData, datVars
<1>2. CASE dat_queue # <<>>
  <2>1. /\ DatType /\ dropped' = dropped \union {Head(dat_queue)}
        /\ dat_queue' = Tail(dat_queue) /\ UNCHANGED <<consumed, work, data>>
    BY <1>2 DEF DatInv, FlushData
  <2>2. /\ Tail(dat_queue) \in Seq(0 .. Samples - 1) /\ Head(dat_queue) \in 0 .. Samples - 1
        /\ Len(Tail(dat_queue)) = Len(dat_queue) - 1 /\ Len(dat_queue) \in Nat
    BY <1>2, <2>1, HeadAndTail DEF DatType
  <2>3. DatType'
    <3>1. dropped' \subseteq 0 .. Samples - 1
      BY <2>1, <2>2 DEF DatType
    <3>2. Len(dat_queue') <= MaxSize
      BY <2>1, <2>2, QueueAssumption DEF DatType
    <3>3. QED
      BY <2>1, <2>2, <3>1, <3>2 DEF DatType
  <2>4. Handed(data, dat_queue', dropped', 0 .. consumed + work.i - 1)
    <3> DEFINE T == 0 .. Samples - 1
               all == 0 .. consumed + work.i - 1
    <3>1. Handed(data, dat_queue, dropped, all)
      BY Zenon DEF DatInv, SamplesInOrder
    <3>2. data \in Seq(T) /\ dat_queue \in Seq(T) /\ T \subseteq Int
      BY <2>1 DEF DatType
    <3> HIDE DEF T, all
    <3>3. Handed(data, Tail(dat_queue), dropped \union {Head(dat_queue)}, all)
      BY <1>2, <3>1, <3>2, HandedAway
    <3>4. Handed(data, dat_queue', dropped', all)
      BY <2>1, <3>3
    <3>5. QED
      BY <3>4, Zenon DEF all
  <2>5. QED
    BY <2>1, <2>3, <2>4 DEF DatInv, SamplesInOrder
<1>3. QED
  BY <1>1, <1>2

(***************************************************************************)
(* All steps, and the theorems.                                             *)
(***************************************************************************)
LEMMA IInvStep == IInv /\ [Next]_vars => IInv'
<1> SUFFICES ASSUME MsgInv, DatInv, CallInv, [Next]_vars
             PROVE  MsgInv' /\ DatInv' /\ CallInv'
  BY DEF IInv
<1>1. CASE Arrive
  BY <1>1, ArriveKeeps, DatUnchanged, CallUnchanged DEF Arrive
<1>2. CASE Put
  BY <1>2, PutKeeps, DatUnchanged, CallUnchanged DEF Put
<1>3. CASE Evict
  BY <1>3, EvictKeeps, DatUnchanged, CallUnchanged DEF Evict
<1>4. CASE WorkCall
  BY <1>4, WorkCallKeeps, MsgUnchanged, CallUnchanged DEF WorkCall
<1>5. CASE WorkPut
  BY <1>5, WorkPutKeeps, MsgUnchanged, CallUnchanged DEF WorkPut
<1>6. CASE GetMessage
  <2>1. MsgInv'
    BY <1>6, TakenKeeps DEF GetMessage, SomeMessage
  <2>2. QED
    BY <1>6, <2>1, DatUnchanged, CallEnded DEF GetMessage
<1>7. CASE TimeOut
  BY <1>7, MsgUnchanged, DatUnchanged, CallEnded DEF TimeOut
<1>8. CASE NextMessage
  <2>1. UNCHANGED datVars /\ script' \in {script, "idle"} /\ calls' = calls
    BY <1>8 DEF NextMessage
  <2>2. MsgInv'
    <3>1. CASE msg_queue = <<>>
      BY <1>8, <3>1, MsgUnchanged DEF NextMessage, msgVars
    <3>2. CASE msg_queue # <<>> /\ script = "flush_messages"
      BY <1>8, <3>2, HeadGone DEF NextMessage
    <3>3. CASE msg_queue # <<>> /\ script # "flush_messages"
      BY <1>8, <3>3, TakenKeeps DEF NextMessage
    <3>4. QED
      BY <3>1, <3>2, <3>3
  <2>3. QED
    BY <2>1, <2>2, DatUnchanged, CallEnded
<1>9. CASE GetData
  BY <1>9, GetDataKeeps, MsgUnchanged, CallEnded DEF GetData
<1>10. CASE FlushData
  <2>1. UNCHANGED msgVars /\ script' \in {script, "idle"} /\ calls' = calls
    BY <1>10 DEF FlushData
  <2>2. QED
    BY <1>10, <2>1, FlushDataKeeps, MsgUnchanged, CallEnded
<1>11. ASSUME NEW c \in MessageCalls \union DataCalls, CallOf(c)
       PROVE  MsgInv' /\ DatInv' /\ CallInv'
  <2>1. CallInv'
    BY <1>11, QueueAssumption DEF CallInv, CallOf
  <2>2. QED
    BY <1>11, <2>1, MsgUnchanged, DatUnchanged DEF CallOf
<1>12. CASE UNCHANGED vars
  BY <1>12, MsgUnchanged, DatUnchanged, CallUnchanged DEF vars
<1>13. QED
  BY <1>1, <1>2, <1>3, <1>4, <1>5, <1>6, <1>7, <1>8, <1>9, <1>10, <1>11, <1>12
     DEF Next, Handler, ScriptStep

LEMMA Invariance == Spec => []IInv
BY IInvInit, IInvStep, PTL DEF Spec

\* The queues hold what they may, and never more than their size.
THEOREM TypeCorrect == Spec => []TypeOK
<1>1. IInv => TypeOK
  BY DEF IInv, MsgInv, MsgType, DatInv, DatType, CallInv, TypeOK
<1>2. QED
  BY <1>1, Invariance, PTL

\* No message is lost, repeated or reordered between the handler and the script.
THEOREM MessagesSafe == Spec => []MessagesAccounted
<1>1. IInv => MessagesAccounted
  BY DEF IInv, MsgInv
<1>2. QED
  BY <1>1, Invariance, PTL

\* What makes room is older than what stays.
THEOREM NewestSafe == Spec => []NewestGetsIn
<1>1. IInv => NewestGetsIn
  BY DEF IInv, MsgInv
<1>2. QED
  BY <1>1, Invariance, PTL

\* No sample is lost, repeated or reordered between work() and the script.
THEOREM SamplesSafe == Spec => []SamplesInOrder
<1>1. IInv => SamplesInOrder
  BY DEF IInv, DatInv
<1>2. QED
  BY <1>1, Invariance, PTL

(***************************************************************************)
(* The receiver: a packet and what unpack() makes of its words.             *)
(***************************************************************************)
\* How many words of a packet are read where the parser is.
HeadSize(h) == 1 + One(HasStreamId(h)) + 2 * One(h.c) + One(h.tsi) + 2 * One(h.tsf)
Eats(h, cnt) ==
  /\ cnt \in Nat /\ HeadSize(h) <= cnt /\ cnt < PacketSize(h)
  /\ h.payload > 0 => cnt < HeadSize(h) + h.payload
TrailerNext(h, cnt) == h.payload > 0 /\ TrailerSize(h) = 1 /\ cnt = HeadSize(h) + h.payload
Parsed(state, h, cnt) ==
  \/ state = "GOT_HEADER" /\ cnt = 1
  \/ state = "GOT_STREAM_ID" /\ One(HasStreamId(h)) = 1 /\ cnt = 2
  \/ state = "GOT_C1" /\ One(h.c) = 1 /\ cnt = 2 + One(HasStreamId(h))
  \/ state = "GOT_C2" /\ One(h.c) = 1 /\ cnt = 3 + One(HasStreamId(h))
  \/ state = "GOT_EPOCH" /\ One(h.tsi) = 1 /\ cnt = 2 + One(HasStreamId(h)) + 2 * One(h.c)
  \/ state = "GOT_F1" /\ One(h.tsf) = 1 /\ cnt = HeadSize(h) - 1
  \/ state = "EATTING" /\ Eats(h, cnt)
  \/ state = "GOT_PAYLOAD" /\ TrailerNext(h, cnt)

\* What the next word is, when the fields that are absent are passed over.
Expects(state, h, cnt) ==
  \/ state = "GOT_HEADER" /\ One(HasStreamId(h)) = 1 /\ cnt = 1
  \/ state = "GOT_STREAM_ID" /\ One(h.c) = 1 /\ cnt = 1 + One(HasStreamId(h))
  \/ state = "GOT_C1" /\ One(h.c) = 1 /\ cnt = 2 + One(HasStreamId(h))
  \/ state = "GOT_C2" /\ One(h.tsi) = 1 /\ cnt = 1 + One(HasStreamId(h)) + 2 * One(h.c)
  \/ state = "GOT_EPOCH" /\ One(h.tsf) = 1 /\ cnt = HeadSize(h) - 2
  \/ state = "GOT_F1" /\ One(h.tsf) = 1 /\ cnt = HeadSize(h) - 1
  \/ state = "EATTING" /\ Eats(h, cnt)
  \/ state = "GOT_PAYLOAD" /\ TrailerNext(h, cnt)

LEMMA Ones ==
  ASSUME NEW b \in BOOLEAN
  PROVE  (b /\ One(b) = 1) \/ (~b /\ One(b) = 0)
  BY DEF One

\* The sizes of a packet and of its fields.
LEMMA SizeFacts ==
  ASSUME NEW h \in Shape
  PROVE  \E a, c, t, f, r \in {0, 1}, n, hs, ps \in Nat :
           /\ a = One(HasStreamId(h)) /\ c = One(h.c) /\ t = One(h.tsi) /\ f = One(h.tsf)
           /\ r = TrailerSize(h) /\ n = h.payload /\ hs = HeadSize(h) /\ ps = PacketSize(h)
           /\ hs = 1 + a + 2 * c + t + 2 * f /\ ps = hs + n + r
<1>1. PICK a, c, t, f, r \in {0, 1} :
        /\ a = One(HasStreamId(h)) /\ c = One(h.c) /\ t = One(h.tsi) /\ f = One(h.tsf)
        /\ r = TrailerSize(h)
  BY DEF One, TrailerSize
<1>2. HeadSize(h) = 1 + a + 2 * c + t + 2 * f
  BY <1>1 DEF HeadSize
<1>. PICK hs \in Nat : hs = 1 + a + 2 * c + t + 2 * f
  OBVIOUS
<1>3. h.payload \in Nat
  BY DEF Shape
<1>. PICK n \in Nat : n = h.payload
  BY <1>3
<1>4. PacketSize(h) = 1 + a + 2 * c + t + 2 * f + n + r
  BY <1>1 DEF PacketSize
<1>. PICK ps \in Nat : ps = hs + n + r
  OBVIOUS
<1>5. n = h.payload /\ hs = HeadSize(h) /\ ps = PacketSize(h)
  BY <1>2, <1>4
<1>6. hs = 1 + a + 2 * c + t + 2 * f /\ ps = hs + n + r
  OBVIOUS
<1>7. QED
  BY <1>1, <1>5, <1>6, ZenonT(60)

LEMMA FramedSize ==
  ASSUME NEW h \in Shape, Framed(h)
  PROVE  h.payload > 0 \/ One(h.tsf) = 1
<1>1. h.tsf \in BOOLEAN
  BY DEF Shape
<1>2. (h.tsf /\ One(h.tsf) = 1) \/ (~h.tsf /\ One(h.tsf) = 0)
  BY <1>1, Ones
<1>3. QED
  BY <1>2 DEF Framed

\* Pass() goes over one field after the other.
LEMMA PassSteps ==
  ASSUME NEW h
  PROVE  /\ HasStreamId(h) => Pass("GOT_HEADER", h) = "GOT_HEADER"
         /\ ~HasStreamId(h) => Pass("GOT_HEADER", h) = Pass("GOT_STREAM_ID", h)
         /\ h.c => Pass("GOT_STREAM_ID", h) = "GOT_STREAM_ID"
         /\ ~h.c => Pass("GOT_STREAM_ID", h) = Pass("GOT_C2", h)
         /\ Pass("GOT_C1", h) = "GOT_C1"
         /\ h.tsi => Pass("GOT_C2", h) = "GOT_C2"
         /\ ~h.tsi => Pass("GOT_C2", h) = Pass("GOT_EPOCH", h)
         /\ h.tsf => Pass("GOT_EPOCH", h) = "GOT_EPOCH"
         /\ ~h.tsf => Pass("GOT_EPOCH", h) = "EATTING"
         /\ Pass("GOT_F1", h) = "GOT_F1" /\ Pass("EATTING", h) = "EATTING"
         /\ Pass("GOT_PAYLOAD", h) = "GOT_PAYLOAD"
  BY DEF Pass

LEMMA PassedOver ==
  ASSUME NEW h \in Shape, NEW st, NEW cnt \in Nat, Parsed(st, h, cnt), cnt < PacketSize(h)
  PROVE  Expects(Pass(st, h), h, cnt)
<1>1. PICK a, c, t, f, r \in {0, 1}, n, hs, ps \in Nat :
        /\ a = One(HasStreamId(h)) /\ c = One(h.c) /\ t = One(h.tsi) /\ f = One(h.tsf)
        /\ r = TrailerSize(h) /\ n = h.payload /\ hs = HeadSize(h) /\ ps = PacketSize(h)
        /\ hs = 1 + a + 2 * c + t + 2 * f /\ ps = hs + n + r
  BY SizeFacts
<1>n. hs = 1 + a + 2 * c + t + 2 * f /\ ps = hs + n + r
  BY <1>1
<1>b. /\ (a = 1 /\ HasStreamId(h)) \/ (a = 0 /\ ~HasStreamId(h))
      /\ (c = 1 /\ h.c) \/ (c = 0 /\ ~h.c)
      /\ (t = 1 /\ h.tsi) \/ (t = 0 /\ ~h.tsi)
      /\ (f = 1 /\ h.tsf) \/ (f = 0 /\ ~h.tsf)
  <2>1. HasStreamId(h) \in BOOLEAN /\ h.c \in BOOLEAN /\ h.tsi \in BOOLEAN /\ h.tsf \in BOOLEAN
    BY DEF Shape, HasStreamId
  <2>2. QED
    BY <1>1, <2>1, Ones
<1>2. cnt = 1 + a + 2 * c + t => Expects(Pass("GOT_EPOCH", h), h, cnt)
  <2> SUFFICES ASSUME cnt = 1 + a + 2 * c + t PROVE Expects(Pass("GOT_EPOCH", h), h, cnt)
    OBVIOUS
  <2>1. CASE f = 1 /\ h.tsf
    <3>0. cnt = hs - 2
      BY <1>n, <2>1
    <3>1. One(h.tsf) = 1 /\ cnt = HeadSize(h) - 2
      BY <1>1, <2>1, <3>0
    <3>2. QED
      BY <2>1, <3>1, PassSteps DEF Expects
  <2>2. CASE f = 0 /\ ~h.tsf
    <3>1. Eats(h, cnt)
      BY <1>1, <2>2 DEF Eats
    <3>2. QED
      BY <2>2, <3>1, PassSteps DEF Expects
  <2>3. QED
    BY <1>b, <2>1, <2>2
<1>3. cnt = 1 + a + 2 * c => Expects(Pass("GOT_C2", h), h, cnt)
  <2>1. CASE t = 1 /\ h.tsi
    BY <1>1, <2>1, PassSteps DEF Expects
  <2>2. CASE t = 0 /\ ~h.tsi
    BY <1>2, <2>2, PassSteps
  <2>3. QED
    BY <1>b, <2>1, <2>2
<1>4. cnt = 1 + a => Expects(Pass("GOT_STREAM_ID", h), h, cnt)
  <2>1. CASE c = 1 /\ h.c
    BY <1>1, <2>1, PassSteps DEF Expects
  <2>2. CASE c = 0 /\ ~h.c
    BY <1>3, <2>2, PassSteps
  <2>3. QED
    BY <1>b, <2>1, <2>2
<1>5. cnt = 1 => Expects(Pass("GOT_HEADER", h), h, cnt)
  <2>1. CASE a = 1 /\ HasStreamId(h)
    BY <1>1, <2>1, PassSteps DEF Expects
  <2>2. CASE a = 0 /\ ~HasStreamId(h)
    BY <1>4, <2>2, PassSteps
  <2>3. QED
    BY <1>b, <2>1, <2>2
<1>6. CASE st = "GOT_HEADER" /\ cnt = 1
  BY <1>5, <1>6
<1>7. CASE st = "GOT_STREAM_ID" /\ a = 1 /\ cnt = 2
  BY <1>4, <1>7
<1>8. CASE st = "GOT_C1" /\ One(h.c) = 1 /\ cnt = 2 + One(HasStreamId(h))
  BY <1>8, PassSteps DEF Expects
<1>9. CASE st = "GOT_C2" /\ c = 1 /\ cnt = 3 + a
  BY <1>3, <1>9
<1>10. CASE st = "GOT_EPOCH" /\ t = 1 /\ cnt = 2 + a + 2 * c
  BY <1>2, <1>10
<1>11. CASE st = "GOT_F1" /\ One(h.tsf) = 1 /\ cnt = HeadSize(h) - 1
  BY <1>11, PassSteps DEF Expects
<1>12. CASE st = "EATTING" /\ Eats(h, cnt)
  BY <1>12, PassSteps DEF Expects
<1>13. CASE st = "GOT_PAYLOAD" /\ TrailerNext(h, cnt)
  BY <1>13, PassSteps DEF Expects
<1>14. QED
  BY <1>1, <1>6, <1>7, <1>8, <1>9, <1>10, <1>11, <1>12, <1>13 DEF Parsed

\* What the words of the header lead to.
LEMMA Fields ==
  /\ DOMAIN AfterField = {"GOT_HEADER", "GOT_STREAM_ID", "GOT_C1", "GOT_C2", "GOT_EPOCH"}
  /\ AfterField["GOT_HEADER"] = "GOT_STREAM_ID" /\ AfterField["GOT_STREAM_ID"] = "GOT_C1"
  /\ AfterField["GOT_C1"] = "GOT_C2" /\ AfterField["GOT_C2"] = "GOT_EPOCH"
  /\ AfterField["GOT_EPOCH"] = "GOT_F1"
  BY DEF AfterField

\* Where the parser is, behind a word.
At(state, h, cnt, from) == [state |-> state, h |-> h, cnt |-> cnt, from |-> from]

\* A packet without payload is passed over.
LEMMA NoPayload ==
  ASSUME NEW q, NEW from, Pass(q.state, q.h) = "EATTING",
         PayloadLeft(q.h, q.cnt) \in Int, PayloadLeft(q.h, q.cnt) <= 0
  PROVE  Unpacked(q, from) = BLANK
<1>1. "EATTING" \notin DOMAIN AfterField
  BY Fields
<1>2. QED
  BY <1>1 DEF Unpacked

\* What unpack() makes of a word, by what the parser expects.
Outcome(s, h, cnt, from, p) ==
  /\ s \in DOMAIN AfterField => p = At(AfterField[s], h, cnt + 1, from)
  /\ s = "GOT_F1" /\ cnt + 1 = PacketSize(h) => p = At("DONE", h, cnt + 1, from)
  /\ s = "GOT_F1" /\ cnt + 1 # PacketSize(h) => p = At("EATTING", h, cnt + 1, from)
  /\ s = "EATTING" /\ PayloadLeft(h, cnt) \in Int /\ PayloadLeft(h, cnt) <= 0 => p = BLANK
  /\ s = "EATTING" /\ ~(PayloadLeft(h, cnt) <= 0) /\ PayloadLeft(h, cnt) > 0 =>
       p = At(IF PayloadLeft(h, cnt + 1) > 0 THEN "EATTING"
              ELSE IF TrailerSize(h) > 0 THEN "GOT_PAYLOAD" ELSE "DONE",
              h, cnt + 1, from)
  /\ s = "GOT_PAYLOAD" => p = At("DONE", h, cnt + 1, from)

LEMMA UnpackCases ==
  ASSUME NEW h, NEW cnt \in Nat, NEW q, NEW from, NEW st, NEW s, s = Pass(st, h), NEW p,
         q.state = st, q.h = h, q.cnt = cnt, p = Unpacked(q, from)
  PROVE  Outcome(s, h, cnt, from, p)
<1>1. q.state = st /\ q.h = h /\ q.cnt = cnt
  OBVIOUS
<1>2. s \in DOMAIN AfterField => p = At(AfterField[s], h, cnt + 1, from)
  BY <1>1, Fields DEF Unpacked, At
<1>3. s = "GOT_F1" /\ cnt + 1 = PacketSize(h) => p = At("DONE", h, cnt + 1, from)
  BY <1>1, Fields DEF Unpacked, At
<1>4. s = "GOT_F1" /\ cnt + 1 # PacketSize(h) => p = At("EATTING", h, cnt + 1, from)
  BY <1>1, Fields DEF Unpacked, At
<1>5. s = "EATTING" /\ PayloadLeft(h, cnt) \in Int /\ PayloadLeft(h, cnt) <= 0 => p = BLANK
  <2>. SUFFICES ASSUME s = "EATTING", PayloadLeft(h, cnt) \in Int, PayloadLeft(h, cnt) <= 0
               PROVE  p = BLANK
    OBVIOUS
  <2>1. Unpacked(q, from) = BLANK
    BY <1>1, NoPayload
  <2>2. QED
    BY <2>1
<1>6. s = "EATTING" /\ ~(PayloadLeft(h, cnt) <= 0) /\ PayloadLeft(h, cnt) > 0 =>
        p = At(IF PayloadLeft(h, cnt + 1) > 0 THEN "EATTING"
               ELSE IF TrailerSize(h) > 0 THEN "GOT_PAYLOAD" ELSE "DONE",
               h, cnt + 1, from)
  BY <1>1, Fields DEF Unpacked, At
<1>7. s = "GOT_PAYLOAD" => p = At("DONE", h, cnt + 1, from)
  BY <1>1, Fields DEF Unpacked, At
<1>8. QED
  BY <1>2, <1>3, <1>4, <1>5, <1>6, <1>7 DEF Outcome

\* What unpack() makes of the next word of a packet: it is the last, or the parser goes on.
Ended(h, cnt, from, p) ==
  /\ cnt = PacketSize(h) - 1
  /\ IF Lossless(h) THEN p.state = "DONE" /\ p.from = from ELSE p = BLANK
GoesOn(h, cnt, from, p) ==
  /\ cnt # PacketSize(h) - 1
  /\ p.h = h /\ p.cnt = cnt + 1 /\ p.from = from
  /\ p.state \notin {"BLANK", "DONE"} /\ Parsed(p.state, h, cnt + 1)

LEMMA GoesOnAt ==
  ASSUME NEW h, NEW cnt, NEW from, NEW state, Parsed(state, h, cnt + 1), cnt # PacketSize(h) - 1
  PROVE  GoesOn(h, cnt, from, At(state, h, cnt + 1, from))
<1>1. state \notin {"BLANK", "DONE"}
  BY DEF Parsed
<1>2. QED
  BY <1>1 DEF GoesOn, At

\* Inside a packet there is a word to come.
LEMMA ParsedShort ==
  ASSUME NEW h \in Shape, Framed(h), NEW st, NEW cnt, Parsed(st, h, cnt)
  PROVE  cnt \in Nat \ {0} /\ cnt < PacketSize(h)
<1>1. PICK a, c, t, f, r \in {0, 1}, n, hs, ps \in Nat :
        /\ a = One(HasStreamId(h)) /\ c = One(h.c) /\ t = One(h.tsi) /\ f = One(h.tsf)
        /\ r = TrailerSize(h) /\ n = h.payload /\ hs = HeadSize(h) /\ ps = PacketSize(h)
        /\ hs = 1 + a + 2 * c + t + 2 * f /\ ps = hs + n + r
  BY SizeFacts
<1>n. hs = 1 + a + 2 * c + t + 2 * f /\ ps = hs + n + r
  BY <1>1
<1>2. n > 0 \/ f = 1
  BY <1>1, FramedSize
<1>3. \/ cnt = 1
      \/ a = 1 /\ cnt = 2
      \/ c = 1 /\ cnt = 2 + a
      \/ c = 1 /\ cnt = 3 + a
      \/ t = 1 /\ cnt = 2 + a + 2 * c
      \/ f = 1 /\ cnt = hs - 1
      \/ cnt \in Nat /\ hs <= cnt /\ cnt < ps
      \/ n > 0 /\ r = 1 /\ cnt = hs + n
  BY <1>1 DEF Parsed, Eats, TrailerNext
<1>4. QED
  <2>1. cnt \in Nat \ {0} /\ cnt < ps
    BY <1>n, <1>2, <1>3
  <2>2. QED
    BY <1>1, <2>1

LEMMA ParserStep ==
  ASSUME NEW h \in Shape, Framed(h), NEW st, NEW cnt \in Nat, Parsed(st, h, cnt),
         NEW q, q.state = st, q.h = h, q.cnt = cnt, NEW from, NEW p, p = Unpacked(q, from)
  PROVE  Ended(h, cnt, from, p) \/ GoesOn(h, cnt, from, p)
<1>1. PICK a, c, t, f, r \in {0, 1}, n, hs, ps \in Nat :
        /\ a = One(HasStreamId(h)) /\ c = One(h.c) /\ t = One(h.tsi) /\ f = One(h.tsf)
        /\ r = TrailerSize(h) /\ n = h.payload /\ hs = HeadSize(h) /\ ps = PacketSize(h)
        /\ hs = 1 + a + 2 * c + t + 2 * f /\ ps = hs + n + r
  BY SizeFacts
<1>n. hs = 1 + a + 2 * c + t + 2 * f /\ ps = hs + n + r
  BY <1>1
<1>2. PICK s : s = Pass(st, h) /\ Expects(s, h, cnt)
  BY PassedOver, ParsedShort
<1>u. Outcome(s, h, cnt, from, p)
  BY <1>2, UnpackCases
<1>3. n > 0 \/ f = 1
  BY <1>1, FramedSize
<1>4. Lossless(h) <=> n > 0 \/ r = 0
  BY <1>1 DEF Framed, Lossless
<1>5. ASSUME NEW state, p = At(state, h, cnt + 1, from), Parsed(state, h, cnt + 1), cnt # ps - 1
      PROVE  GoesOn(h, cnt, from, p)
  BY <1>1, <1>5, GoesOnAt
<1>6. ASSUME p = At("DONE", h, cnt + 1, from), cnt = ps - 1, n > 0 \/ r = 0
      PROVE  Ended(h, cnt, from, p)
  <2>1. Lossless(h) /\ cnt = PacketSize(h) - 1
    BY <1>1, <1>4, <1>6
  <2>2. p.state = "DONE" /\ p.from = from
    BY <1>6 DEF At
  <2>3. QED
    BY <2>1, <2>2 DEF Ended
<1>7. CASE s = "GOT_HEADER"
  <2>1. p = At("GOT_STREAM_ID", h, cnt + 1, from)
    BY <1>u, <1>7, Fields DEF Outcome
  <2>2. cnt = 1 /\ a = 1
    BY <1>1, <1>2, <1>7 DEF Expects
  <2>3. cnt # ps - 1
    BY <1>n, <1>3, <2>2
  <2>4. Parsed("GOT_STREAM_ID", h, cnt + 1)
    BY <1>1, <2>2 DEF Parsed
  <2>5. QED
    BY <1>5, <2>1, <2>3, <2>4
<1>8. CASE s = "GOT_STREAM_ID"
  <2>1. p = At("GOT_C1", h, cnt + 1, from)
    BY <1>u, <1>8, Fields DEF Outcome
  <2>2. cnt = 1 + a /\ c = 1
    BY <1>1, <1>2, <1>8 DEF Expects
  <2>3. cnt # ps - 1
    BY <1>n, <1>3, <2>2
  <2>4. Parsed("GOT_C1", h, cnt + 1)
    BY <1>1, <2>2 DEF Parsed
  <2>5. QED
    BY <1>5, <2>1, <2>3, <2>4
<1>9. CASE s = "GOT_C1"
  <2>1. p = At("GOT_C2", h, cnt + 1, from)
    BY <1>u, <1>9, Fields DEF Outcome
  <2>2. cnt = 2 + a /\ c = 1
    BY <1>1, <1>2, <1>9 DEF Expects
  <2>3. cnt # ps - 1
    BY <1>n, <1>3, <2>2
  <2>4. Parsed("GOT_C2", h, cnt + 1)
    BY <1>1, <2>2 DEF Parsed
  <2>5. QED
    BY <1>5, <2>1, <2>3, <2>4
<1>10. CASE s = "GOT_C2"
  <2>1. p = At("GOT_EPOCH", h, cnt + 1, from)
    BY <1>u, <1>10, Fields DEF Outcome
  <2>2. cnt = 1 + a + 2 * c /\ t = 1
    BY <1>1, <1>2, <1>10 DEF Expects
  <2>3. cnt # ps - 1
    BY <1>n, <1>3, <2>2
  <2>4. Parsed("GOT_EPOCH", h, cnt + 1)
    BY <1>1, <2>2 DEF Parsed
  <2>5. QED
    BY <1>5, <2>1, <2>3, <2>4
<1>11. CASE s = "GOT_EPOCH"
  <2>1. p = At("GOT_F1", h, cnt + 1, from)
    BY <1>u, <1>11, Fields DEF Outcome
  <2>2. cnt = hs - 2 /\ f = 1
    BY <1>1, <1>2, <1>11 DEF Expects
  <2>3. cnt # ps - 1
    BY <1>n, <1>3, <2>2
  <2>4. Parsed("GOT_F1", h, cnt + 1)
    BY <1>1, <2>2 DEF Parsed
  <2>5. QED
    BY <1>5, <2>1, <2>3, <2>4
<1>12. CASE s = "GOT_F1"
  <2>2. cnt = hs - 1 /\ f = 1
    BY <1>1, <1>2, <1>12 DEF Expects
  <2>3. CASE cnt + 1 = ps
    <3>1. p = At("DONE", h, cnt + 1, from)
      BY <1>u, <1>1, <1>12, <2>3 DEF Outcome
    <3>2. cnt = ps - 1 /\ r = 0
      BY <1>n, <2>2, <2>3
    <3>3. QED
      BY <1>6, <3>1, <3>2
  <2>4. CASE cnt + 1 # ps
    <3>1. p = At("EATTING", h, cnt + 1, from)
      BY <1>u, <1>1, <1>12, <2>4 DEF Outcome
    <3>2. cnt # ps - 1 /\ hs <= cnt + 1 /\ cnt + 1 < ps /\ (n > 0 => cnt + 1 < hs + n)
      BY <1>n, <2>2, <2>4
    <3>3. Parsed("EATTING", h, cnt + 1)
      BY <1>1, <3>2 DEF Parsed, Eats
    <3>4. QED
      BY <1>5, <3>1, <3>2, <3>3
  <2>5. QED
    BY <2>3, <2>4
<1>13. CASE s = "EATTING"
  <2>1. Eats(h, cnt)
    BY <1>2, <1>13 DEF Expects
  <2>2. cnt >= hs /\ cnt < ps /\ (n > 0 => cnt < hs + n)
    BY <1>1, <2>1 DEF Eats
  <2>3. ASSUME NEW m \in Nat PROVE PayloadLeft(h, m) = (hs + n) - m
    BY <1>1 DEF PayloadLeft
  <2>4. CASE n = 0
    <3>1. PayloadLeft(h, cnt) \in Int /\ PayloadLeft(h, cnt) <= 0
      BY <2>2, <2>3, <2>4
    <3>2. p = BLANK
      BY <1>u, <1>13, <3>1 DEF Outcome
    <3>3. cnt = ps - 1 /\ r # 0
      BY <1>n, <2>2, <2>4
    <3>4. ~ Lossless(h)
      BY <1>4, <2>4, <3>3
    <3>5. QED
      BY <1>1, <3>2, <3>3, <3>4 DEF Ended
  <2>5. CASE n > 0
    <3>1. PayloadLeft(h, cnt) > 0 /\ ~ (PayloadLeft(h, cnt) <= 0)
      BY <2>2, <2>3, <2>5
    <3>2. p = At(IF PayloadLeft(h, cnt + 1) > 0 THEN "EATTING"
                 ELSE IF TrailerSize(h) > 0 THEN "GOT_PAYLOAD" ELSE "DONE", h, cnt + 1, from)
      BY <1>u, <1>13, <3>1 DEF Outcome
    <3>3. PayloadLeft(h, cnt + 1) = (hs + n) - (cnt + 1)
      BY <2>3
    <3>4. CASE PayloadLeft(h, cnt + 1) > 0
      <4>1. p = At("EATTING", h, cnt + 1, from)
        BY <3>2, <3>4
      <4>2. cnt # ps - 1 /\ hs <= cnt + 1 /\ cnt + 1 < ps /\ (n > 0 => cnt + 1 < hs + n)
        BY <1>n, <2>2, <3>3, <3>4
      <4>3. Parsed("EATTING", h, cnt + 1)
        BY <1>1, <4>2 DEF Parsed, Eats
      <4>4. QED
        BY <1>5, <4>1, <4>2, <4>3
    <3>5. CASE ~ (PayloadLeft(h, cnt + 1) > 0) /\ r = 1
      <4>1. TrailerSize(h) > 0
        BY <1>1, <3>5
      <4>2. p = At("GOT_PAYLOAD", h, cnt + 1, from)
        BY <3>2, <3>5, <4>1
      <4>3. cnt # ps - 1 /\ cnt + 1 = hs + n
        BY <1>n, <2>2, <2>5, <3>3, <3>5
      <4>4. Parsed("GOT_PAYLOAD", h, cnt + 1)
        BY <1>1, <2>5, <3>5, <4>3 DEF Parsed, TrailerNext
      <4>5. QED
        BY <1>5, <4>2, <4>3, <4>4
    <3>6. CASE ~ (PayloadLeft(h, cnt + 1) > 0) /\ r = 0
      <4>1. ~ (TrailerSize(h) > 0)
        BY <1>1, <3>6
      <4>2. p = At("DONE", h, cnt + 1, from)
        BY <3>2, <3>6, <4>1
      <4>3. cnt = ps - 1
        BY <1>n, <2>2, <2>5, <3>3, <3>6
      <4>4. QED
        BY <1>6, <2>5, <4>2, <4>3
    <3>7. QED
      BY <1>1, <3>4, <3>5, <3>6
  <2>6. QED
    BY <1>1, <2>4, <2>5
<1>14. CASE s = "GOT_PAYLOAD"
  <2>1. p = At("DONE", h, cnt + 1, from)
    BY <1>u, <1>14 DEF Outcome
  <2>2. TrailerNext(h, cnt)
    BY <1>2, <1>14 DEF Expects
  <2>3. cnt = hs + n /\ r = 1 /\ n > 0
    BY <1>1, <2>2 DEF TrailerNext
  <2>4. cnt = ps - 1
    BY <1>n, <2>3
  <2>5. QED
    BY <1>6, <2>1, <2>3, <2>4
<1>15. QED
  BY <1>2, <1>7, <1>8, <1>9, <1>10, <1>11, <1>12, <1>13, <1>14 DEF Expects

(***************************************************************************)
(* What clients send.                                                       *)
(***************************************************************************)
LEMMA MinInSet ==
  ASSUME NEW S \in SUBSET Nat, S # {}
  PROVE  \E d \in S : \A x \in S : d <= x
<1> DEFINE R == OpToRel(<, Nat)
<1>1. PICK d \in S : \A e \in S : ~(<<e, d>> \in R)
  <2> HIDE DEF R
  <2>1. IsWellFoundedOn(R, Nat)
    BY NatLessThanWellFounded DEF R
  <2>2. QED
    BY <2>1, WFMin
<1>2. \A e \in S : ~(e < d)
  BY <1>1 DEF OpToRel
<1>3. \A x \in S : d <= x
  BY <1>2
<1>4. QED
  BY <1>3

\* The word after a word.
LEMMA NextWord ==
  ASSUME NEW s, Sent(s), NEW j \in 1 .. Len(s)
  PROVE  /\ s[j] \in Word /\ s[j].i \in Nat /\ s[j].h \in Shape /\ s[j].n \in Nat \ {0}
         /\ LastWord(s[j]) /\ j < Len(s) => s[j + 1].i = 0 /\ s[j + 1].n = s[j].n + 1
         /\ ~ LastWord(s[j]) => /\ j < Len(s) /\ s[j + 1].i = s[j].i + 1
                                /\ s[j + 1].h = s[j].h /\ s[j + 1].n = s[j].n
<1>1. s[j] \in Word
  BY DEF Sent
<1>2. s[j].i \in Nat /\ s[j].h \in Shape /\ s[j].n \in Nat \ {0}
  BY <1>1 DEF Word
<1>3. LastWord(s[j]) /\ j < Len(s) => s[j + 1].i = 0 /\ s[j + 1].n = s[j].n + 1
  BY DEF Sent
<1>4. ~ LastWord(s[j]) => j < Len(s) /\ s[j + 1] = [s[j] EXCEPT !.i = @ + 1]
  BY DEF Sent
<1>5. [s[j] EXCEPT !.i = @ + 1] = [i |-> s[j].i + 1, h |-> s[j].h, n |-> s[j].n]
  BY <1>1 DEF Word
<1>6. QED
  BY <1>1, <1>2, <1>3, <1>4, <1>5

\* Packets are numbered in the order of their words.
LEMMA Numbered ==
  ASSUME NEW s, Sent(s), NEW a \in 1 .. Len(s)
  PROVE  \A b \in a .. Len(s) : s[a].n <= s[b].n
<1>0. Len(s) \in Nat
  BY DEF Sent
<1>1. PICK S : S = {b \in a .. Len(s) : ~ (s[a].n <= s[b].n)}
  OBVIOUS
<1>2. SUFFICES ASSUME S # {}
               PROVE  FALSE
  BY <1>1
<1>3. S \in SUBSET Nat
  BY <1>0, <1>1
<1>4. PICK b \in S : \A x \in S : b <= x
  BY <1>2, <1>3, MinInSet
<1>5. b \in a .. Len(s) /\ b \in 1 .. Len(s) /\ ~ (s[a].n <= s[b].n)
  BY <1>0, <1>1
<1>6. s[a].n \in Nat
  BY NextWord
<1>7. b # a
  BY <1>5, <1>6
<1>8. PICK c \in Nat : c = b - 1 /\ c \in a .. Len(s) /\ c \in 1 .. Len(s) /\ c < Len(s) /\ c + 1 = b
  BY <1>0, <1>5, <1>7
<1>9. c \notin S
  BY <1>4, <1>5, <1>8
<1>10. s[a].n <= s[c].n
  BY <1>1, <1>8, <1>9
<1>11. s[c].n \in Nat /\ (s[b].n = s[c].n \/ s[b].n = s[c].n + 1)
  BY <1>8, NextWord
<1>12. QED
  BY <1>5, <1>6, <1>10, <1>11

\* A packet has one last word.
LEMMA LaterPacket ==
  ASSUME NEW s, Sent(s), NEW a \in 1 .. Len(s), NEW b \in 1 .. Len(s), a < b, LastWord(s[a])
  PROVE  s[a].n < s[b].n
<1>0. Len(s) \in Nat
  BY DEF Sent
<1>1. a < Len(s) /\ a + 1 \in 1 .. Len(s) /\ b \in (a + 1) .. Len(s)
  BY <1>0
<1>2. s[a + 1].n = s[a].n + 1 /\ s[a].n \in Nat
  BY <1>1, NextWord
<1>3. s[a + 1].n <= s[b].n /\ s[b].n \in Nat
  BY <1>1, Numbered, NextWord
<1>4. QED
  BY <1>2, <1>3

\* How far a client is read.
Position == [words : Nat, bytes : 0 .. WordBytes - 1]
LEMMA FurtherFacts ==
  ASSUME NEW at \in Position, NEW m \in Nat, m <= WordBytes, NEW L \in Nat
  PROVE  /\ Further(at, m) \in Position
         /\ WordBytes * (L - Further(at, m).words) - Further(at, m).bytes
              = (WordBytes * (L - at.words) - at.bytes) - m
<1>1. /\ at.words \in Nat /\ at.bytes \in 0 .. WordBytes - 1 /\ WordBytes \in Nat \ {0}
      /\ at = [words |-> at.words, bytes |-> at.bytes]
  BY VitaAssumption DEF Position
<1>2. CASE at.bytes + m < WordBytes
  <2>1. Further(at, m) = [words |-> at.words, bytes |-> at.bytes + m]
    BY <1>1, <1>2 DEF Further
  <2>2. at.bytes + m \in 0 .. WordBytes - 1
    BY <1>1, <1>2
  <2>3. PICK x \in Int : x = WordBytes * (L - at.words)
    BY <1>1
  <2>4. x - (at.bytes + m) = (x - at.bytes) - m
    BY <1>1
  <2>5. QED
    BY <1>1, <2>1, <2>2, <2>3, <2>4 DEF Position
<1>3. CASE ~ (at.bytes + m < WordBytes)
  <2>1. Further(at, m) = [words |-> at.words + 1, bytes |-> at.bytes + m - WordBytes]
    BY <1>1, <1>3 DEF Further
  <2>2. (at.bytes + m) - WordBytes \in 0 .. WordBytes - 1
    BY <1>1, <1>3
  <2>3. PICK x \in Int : x = WordBytes * (L - at.words)
    BY <1>1
  <2>4. WordBytes * (L - (at.words + 1)) = x - WordBytes
    BY <1>1, <2>3
  <2>5. (x - WordBytes) - ((at.bytes + m) - WordBytes) = (x - at.bytes) - m
    BY <1>1
  <2>6. QED
    BY <1>1, <2>1, <2>2, <2>3, <2>4, <2>5 DEF Position
<1>4. QED
  BY <1>2, <1>3

\* There is a word where there is a byte.
LEMMA ByteLeft ==
  ASSUME NEW at \in Position, NEW L \in Nat, WordBytes * (L - at.words) - at.bytes > 0
  PROVE  at.words < L
<1>1. at.words \in Nat /\ at.bytes \in Nat /\ WordBytes \in Nat
  BY VitaAssumption DEF Position
<1>2. SUFFICES ASSUME ~ (at.words < L)
               PROVE  FALSE
  OBVIOUS
<1>3. PICK d \in Nat : d = at.words - L /\ L - at.words = -d
  BY <1>1, <1>2
<1>4. PICK x \in Nat : x = WordBytes * d
  BY <1>1
<1>5. WordBytes * (L - at.words) = -x
  BY <1>1, <1>3, <1>4
<1>6. QED
  BY <1>1, <1>5

\* No more is read than was sent.
LEMMA NotBeyond ==
  ASSUME NEW words \in Nat, NEW bytes \in Nat, NEW L \in Nat,
         WordBytes * (L - words) - bytes \in Nat
  PROVE  words <= L
<1>1. WordBytes \in Nat \ {0}
  BY VitaAssumption
<1>2. SUFFICES ASSUME ~ (words <= L)
               PROVE  FALSE
  OBVIOUS
<1>3. PICK d \in Nat : words = L + d + 1 /\ L - words = -(d + 1)
  <2>1. words - L - 1 \in Nat
    BY <1>2
  <2>2. QED
    BY <2>1
<1>4. PICK x \in Nat : x = WordBytes * d
  BY <1>1
<1>5. WordBytes * (L - words) = -(x + WordBytes)
  BY <1>1, <1>3, <1>4
<1>6. QED
  BY <1>1, <1>5

(***************************************************************************)
(* Who may do what.                                                         *)
(***************************************************************************)
\* While nobody calls the block its thread runs only if it was started, and a block that
\* is stopped has none, unless its socket is always on.
OwnerInv ==
  /\ owner \in {"idle", "open", "opened", "close", "join"}
  /\ thread \in {"none", "loop", "io", "data", "fire", "publish", "ended", "aborted"}
  /\ running \in BOOLEAN /\ d_running \in BOOLEAN /\ always_on \in BOOLEAN
  /\ owner \in {"open", "opened"} /\ ~always_on => d_running
  /\ owner = "idle" /\ ~d_running /\ ~always_on => ~running
  /\ owner \in {"idle", "open", "close"} /\ ~running => thread \in {"none", "ended", "aborted"}
  /\ owner = "opened" => thread # "none" /\ listening
  /\ owner = "join" => ~running
  /\ running => thread # "none" /\ listening

\* One client at a time, in the order they connect.
Begun == IF pending # 0 THEN connected - 1 ELSE connected
NetInv ==
  /\ streams \in [Clients -> Streams] /\ connected \in 0 .. MaxClients
  /\ pending \in Clients \union {0} /\ client \in Clients \union {0}
  /\ pending # 0 => pending = connected
  /\ client # 0 => client = Begun
  /\ (pending # 0 \/ client # 0) => listening

\* What is read of each.
ReadInv ==
  /\ taken \in [Clients -> Position]
  /\ \A k \in Clients : Unread(k) \in Nat /\ (k > Begun => taken[k] = Nothing)
  /\ left \in 0 .. MaxRead /\ (client # 0 => left <= Unread(client))
  /\ left > 0 => thread \in {"data", "fire", "publish", "aborted"}
  /\ pack.n \in 0 .. WordBytes - 1

\* Where the thread is and what it has.
TaskInv ==
  /\ thread \in {"data", "fire", "publish"} => client # 0
  /\ packet.state # "DONE" <=> thread \notin {"fire", "publish", "aborted"}

LEMMA OwnerKept ==
  ASSUME OwnerInv, RxNext
  PROVE  OwnerInv'
<1>1. CASE Connect
  BY <1>1 DEF OwnerInv, Connect, ownerVars
<1>2. CASE Loop
  BY <1>2 DEF OwnerInv, Loop, ownerVars
<1>3. CASE Accept
  BY <1>3 DEF OwnerInv, Accept, ownerVars
<1>4. CASE Read
  BY <1>4 DEF OwnerInv, Read, ownerVars
<1>5. CASE RxTimeOut
  BY <1>5 DEF OwnerInv, RxTimeOut, ownerVars
<1>6. CASE ProcessBytes
  <2>1. thread = "data" /\ thread' \in {"data", "fire"} /\ UNCHANGED ownerVars
    BY <1>6 DEF ProcessBytes
  <2>2. QED
    BY <2>1 DEF OwnerInv, ownerVars
<1>7. CASE EndOfData
  BY <1>7 DEF OwnerInv, EndOfData, ownerVars
<1>8. CASE Fire
  <2>1. thread = "fire" /\ thread' \in {"aborted", "publish", "data"} /\ UNCHANGED ownerVars
    BY <1>8 DEF Fire
  <2>2. QED
    BY <2>1 DEF OwnerInv, ownerVars
<1>9. CASE Publish
  BY <1>9 DEF OwnerInv, Publish, ownerVars
<1>10. CASE Disconnect
  BY <1>10 DEF OwnerInv, Disconnect, ownerVars
<1>11. CASE start
  BY <1>11 DEF OwnerInv, start
<1>12. CASE stop
  BY <1>12 DEF OwnerInv, stop, Closes
<1>13. CASE OpenBackend
  BY <1>13 DEF OwnerInv, OpenBackend
<1>14. CASE SetRunning
  BY <1>14 DEF OwnerInv, SetRunning
<1>15. CASE CloseBackend
  BY <1>15 DEF OwnerInv, CloseBackend
<1>16. CASE CloseSocket
  BY <1>16 DEF OwnerInv, CloseSocket
<1>17. CASE Destroy
  BY <1>17 DEF OwnerInv, Destroy
<1>18. QED
  BY <1>1, <1>2, <1>3, <1>4, <1>5, <1>6, <1>7, <1>8, <1>9, <1>10, <1>11, <1>12, <1>13, <1>14,
     <1>15, <1>16, <1>17 DEF RxNext, RxTask, OwnerStep

StreamLength == \A k \in Clients : Sent(streams[k]) /\ Len(streams[k]) \in Nat
LEMMA StreamsSent ==
  ASSUME NetInv
  PROVE  StreamLength
<1>1. \A k \in Clients : Sent(streams[k])
  BY VitaAssumption DEF NetInv
<1>2. QED
  BY <1>1 DEF StreamLength, Sent

\* What stays as it is.
LEMMA NetSame ==
  ASSUME NetInv, UNCHANGED <<streams, connected, pending, client, listening>>
  PROVE  NetInv'
  BY DEF NetInv, Begun

LEMMA ReadSame ==
  ASSUME ReadInv, UNCHANGED <<streams, connected, pending, client, taken, left, pack, thread>>
  PROVE  ReadInv'
  BY DEF ReadInv, Begun, Unread

\* The thread goes on while readBuf is empty.
LEMMA ReadTask ==
  ASSUME ReadInv, UNCHANGED <<streams, connected, pending, client, taken, left, pack>>,
         left = 0 \/ thread' \in {"data", "fire", "publish", "aborted"}
  PROVE  ReadInv'
  BY DEF ReadInv, Begun, Unread

\* Who is next: clients of whom something was read are not.
LEMMA ReadNet ==
  ASSUME ReadInv, UNCHANGED <<streams, taken, left, pack>>,
         \A k \in Clients : k > Begun' => k > Begun,
         client' # 0 => left = 0 \/ client' = client,
         client' \in Clients \union {0},
         left = 0 \/ thread' \in {"data", "fire", "publish", "aborted"}
  PROVE  ReadInv'
<1>1. \A k \in Clients : Unread(k)' = Unread(k) /\ Unread(k) \in Nat
  BY DEF ReadInv, Unread
<1>2. \A k \in Clients : k > Begun' => taken'[k] = Nothing
  BY DEF ReadInv
<1>3. client' # 0 => left' <= Unread(client)'
  <2>. SUFFICES ASSUME client' # 0
                PROVE  left' <= Unread(client)'
    OBVIOUS
  <2>1. PICK k \in Clients : k = client'
    OBVIOUS
  <2>2. Unread(k)' = Unread(k) /\ Unread(k) \in Nat
    BY <1>1
  <2>3. left <= Unread(k)
    BY <2>1, <2>2 DEF ReadInv
  <2>4. Unread(client)' = Unread(k)'
    BY <2>1 DEF Unread
  <2>5. QED
    BY <2>2, <2>3, <2>4
<1>4. QED
  BY <1>1, <1>2, <1>3 DEF ReadInv

ClientInv == NetInv /\ ReadInv /\ TaskInv

LEMMA ConnectClient ==
  ASSUME ClientInv, Connect
  PROVE  ClientInv'
<1>1. NetInv'
  <2>1. connected + 1 \in Clients /\ connected + 1 \in 0 .. MaxClients
    BY VitaAssumption DEF ClientInv, NetInv, Connect, Clients
  <2>2. client # 0 => client = connected
    BY DEF ClientInv, NetInv, Begun, Connect
  <2>3. (connected + 1) - 1 = connected
    BY DEF ClientInv, NetInv
  <2>4. QED
    BY <2>1, <2>2, <2>3 DEF ClientInv, NetInv, Begun, Connect, rxVars, ownerVars
<1>2. Begun' = Begun
  BY VitaAssumption DEF ClientInv, NetInv, Begun, Connect
<1>3. ReadInv'
  BY <1>1, <1>2, ReadNet DEF ClientInv, NetInv, ReadInv, Connect, rxVars
<1>4. TaskInv'
  BY DEF ClientInv, TaskInv, Connect, rxVars
<1>5. QED
  BY <1>1, <1>3, <1>4 DEF ClientInv

LEMMA AcceptClient ==
  ASSUME ClientInv, Accept
  PROVE  ClientInv'
<1>1. left = 0
  BY DEF ClientInv, ReadInv, Accept
<1>2. client' = connected /\ Begun' = connected /\ pending' = 0 /\ connected \in Clients
  BY DEF ClientInv, NetInv, Begun, Accept, Accepted
<1>3. NetInv'
  BY <1>2 DEF ClientInv, NetInv, Accept, Accepted, ownerVars
<1>4. \A k \in Clients : k > Begun' => k > Begun
  BY <1>2, VitaAssumption DEF ClientInv, NetInv, Begun, Clients
<1>5. ReadInv'
  BY <1>1, <1>2, <1>4, ReadNet DEF ClientInv, Accept
<1>6. TaskInv'
  BY <1>2 DEF ClientInv, TaskInv, Accept
<1>7. QED
  BY <1>3, <1>5, <1>6 DEF ClientInv

LEMMA ReadClient ==
  ASSUME ClientInv, Read
  PROVE  ClientInv'
<1>1. NetInv'
  BY NetSame DEF ClientInv, Read, netVars, ownerVars
<1>2. PICK n \in 1 .. MaxRead : n <= Unread(client) /\ left' = n
  BY DEF Read, Available
<1>3. Unread(client)' = Unread(client)
  BY DEF Read, netVars, Unread
<1>4. \A k \in Clients : Unread(k)' = Unread(k)
  BY DEF Read, netVars, Unread
<1>5. n \in 0 .. MaxRead
  BY VitaAssumption
<1>6. ReadInv'
  BY <1>2, <1>3, <1>4, <1>5 DEF ClientInv, ReadInv, Begun, Read, netVars
<1>7. TaskInv'
  BY DEF ClientInv, TaskInv, Read
<1>8. QED
  BY <1>1, <1>6, <1>7 DEF ClientInv

LEMMA LeaveClient ==
  ASSUME ClientInv, UNCHANGED <<streams, connected, taken, left, pack>>,
         client' = 0, pending' = pending \/ pending' = 0, listening' = listening \/ pending' = 0,
         left = 0
  PROVE  NetInv' /\ ReadInv'
<1>1. \A k \in Clients : k > Begun' => k > Begun
  BY VitaAssumption DEF ClientInv, NetInv, Begun, Clients
<1>2. NetInv'
  BY DEF ClientInv, NetInv
<1>3. ReadInv'
  BY <1>1, ReadNet DEF ClientInv
<1>4. QED
  BY <1>2, <1>3

LEMMA DisconnectClient ==
  ASSUME ClientInv, Disconnect
  PROVE  ClientInv'
<1>1. left = 0
  BY DEF ClientInv, ReadInv, Disconnect
<1>2. NetInv' /\ ReadInv'
  BY <1>1, LeaveClient DEF Disconnect, Leave, netVars, ownerVars
<1>3. TaskInv'
  BY DEF ClientInv, TaskInv, Disconnect
<1>4. QED
  BY <1>2, <1>3 DEF ClientInv

LEMMA CloseClient ==
  ASSUME ClientInv, CloseSocket
  PROVE  ClientInv'
<1>1. left = 0
  BY DEF ClientInv, ReadInv, CloseSocket
<1>2. NetInv' /\ ReadInv'
  BY <1>1, LeaveClient DEF CloseSocket, Leave
<1>3. TaskInv'
  BY DEF ClientInv, TaskInv, CloseSocket, BLANK
<1>4. QED
  BY <1>2, <1>3 DEF ClientInv

\* The bytes of readBuf up to the end of a word.
LEMMA BytesMore ==
  ASSUME ReadInv, left > 0
  PROVE  /\ MoreBytes \in Nat \ {0} /\ MoreBytes <= left /\ MoreBytes <= WordBytes - pack.n
         /\ MoreBytes <= WordBytes /\ AddBytes.n = pack.n + MoreBytes
         /\ AddBytes.n \in Nat /\ (AddBytes.n < WordBytes => MoreBytes = left)
<1>1. left \in Nat /\ pack.n \in 0 .. WordBytes - 1 /\ WordBytes \in Nat \ {0}
  BY VitaAssumption DEF ReadInv
<1>2. MoreBytes \in Nat \ {0} /\ MoreBytes <= left /\ MoreBytes <= WordBytes - pack.n
  BY <1>1 DEF MoreBytes
<1>3. pack.n + MoreBytes < WordBytes => MoreBytes = left
  BY <1>1 DEF MoreBytes
<1>4. AddBytes.n = pack.n + MoreBytes
  BY DEF AddBytes
<1>5. QED
  BY <1>1, <1>2, <1>3, <1>4

LEMMA ProcessRead ==
  ASSUME ClientInv, ProcessBytes
  PROVE  ReadInv'
<1>1. /\ client \in Clients /\ left \in Nat \ {0} /\ thread' \in {"data", "fire"}
      /\ taken' = [taken EXCEPT ![client] = Further(@, MoreBytes)] /\ left' = left - MoreBytes
      /\ UNCHANGED <<streams, connected, pending, client>>
  BY DEF ClientInv, NetInv, TaskInv, ReadInv, ProcessBytes, netVars
<1>2. PICK k \in Clients : k = client
  BY <1>1
<1>3. PICK m \in Nat \ {0} : m = MoreBytes /\ m <= left /\ m <= WordBytes
  BY <1>1, BytesMore DEF ClientInv
<1>4. StreamLength
  BY StreamsSent DEF ClientInv
<1>5. PICK L \in Nat : L = Len(streams[k])
  BY <1>4 DEF StreamLength
<1>6. PICK at \in Position : at = taken[k]
  BY DEF ClientInv, ReadInv
<1>7. taken \in [Clients -> Position]
  BY DEF ClientInv, ReadInv
<1>8. /\ Further(at, m) \in Position
      /\ WordBytes * (L - Further(at, m).words) - Further(at, m).bytes
           = (WordBytes * (L - at.words) - at.bytes) - m
  BY <1>3, FurtherFacts
<1>9. taken' = [taken EXCEPT ![k] = Further(at, m)]
  BY <1>1, <1>2, <1>3, <1>6
<1>10. taken' \in [Clients -> Position] /\ taken'[k] = Further(at, m)
       /\ \A j \in Clients : j # k => taken'[j] = taken[j]
  BY <1>7, <1>8, <1>9
<1>11. Unread(k) = WordBytes * (L - at.words) - at.bytes
  BY <1>5, <1>6 DEF Unread
<1>12. Unread(k)' = WordBytes * (L - Further(at, m).words) - Further(at, m).bytes
  BY <1>1, <1>5, <1>10 DEF Unread
<1>13. Unread(k)' = Unread(k) - m
  BY <1>8, <1>11, <1>12
<1>14. left <= Unread(k) /\ Unread(k) \in Nat /\ left \in 0 .. MaxRead
  <2>1. client # 0
    BY <1>1 DEF Clients
  <2>2. QED
    BY <1>1, <1>2, <2>1 DEF ClientInv, ReadInv
<1>15. /\ Unread(k)' \in Nat /\ left - m <= Unread(k)' /\ left - m \in 0 .. MaxRead
  BY <1>1, <1>3, <1>13, <1>14, VitaAssumption
<1>16. \A j \in Clients : Unread(j)' \in Nat
  <2>1. \A j \in Clients : j # k => Unread(j)' = Unread(j)
    BY <1>1, <1>10 DEF Unread
  <2>2. QED
    BY <1>15, <2>1 DEF ClientInv, ReadInv
<1>17. \A j \in Clients : j > Begun' => taken'[j] = Nothing
  <2>1. Begun' = Begun /\ k = Begun
    BY <1>1, <1>2 DEF ClientInv, NetInv, Begun, Clients
  <2>2. \A j \in Clients : j > Begun => j # k
    BY <2>1 DEF Clients
  <2>3. QED
    BY <1>10, <2>1, <2>2 DEF ClientInv, ReadInv
<1>18. pack'.n \in 0 .. WordBytes - 1
  <2>1. CASE AddBytes.n < WordBytes
    BY <1>1, <2>1, BytesMore, VitaAssumption DEF ClientInv, ProcessBytes
  <2>2. CASE ~ (AddBytes.n < WordBytes)
    BY <2>2, VitaAssumption DEF ProcessBytes, NoBytes
  <2>3. QED
    BY <2>1, <2>2
<1>19. left' \in 0 .. MaxRead /\ left' <= Unread(client)'
  <2>1. Unread(client)' = Unread(k)' /\ left' = left - m
    BY <1>1, <1>2, <1>3 DEF Unread
  <2>2. QED
    BY <1>15, <2>1
<1>20. QED
  BY <1>1, <1>10, <1>16, <1>17, <1>18, <1>19 DEF ReadInv

LEMMA ProcessClient ==
  ASSUME ClientInv, ProcessBytes
  PROVE  ClientInv'
<1>1. NetInv'
  BY NetSame DEF ClientInv, ProcessBytes, netVars, ownerVars
<1>2. ReadInv'
  BY ProcessRead
<1>3. TaskInv'
  <2>1. thread' \in {"data", "fire"} /\ (thread' = "fire" <=> packet'.state = "DONE")
    BY DEF ClientInv, TaskInv, ProcessBytes
  <2>2. client' = client /\ client # 0
    BY DEF ClientInv, TaskInv, ProcessBytes
  <2>3. QED
    BY <2>1, <2>2 DEF TaskInv
<1>4. QED
  BY <1>1, <1>2, <1>3 DEF ClientInv

LEMMA FireClient ==
  ASSUME ClientInv, Fire
  PROVE  ClientInv'
<1>1. NetInv'
  BY NetSame DEF ClientInv, Fire, netVars, ownerVars
<1>2. thread' \in {"data", "publish", "aborted"} /\ UNCHANGED <<netVars, client, taken, left, pack>>
  BY DEF Fire
<1>3. ReadInv'
  BY <1>2, ReadTask DEF ClientInv, netVars
<1>4. TaskInv'
  <2>1. packet.state = "DONE" /\ BLANK.state # "DONE"
    BY DEF ClientInv, TaskInv, Fire, BLANK
  <2>2. client # 0 /\ client' = client
    BY DEF ClientInv, TaskInv, Fire
  <2>3. \/ thread' \in {"publish", "aborted"} /\ packet' = packet
        \/ thread' = "data" /\ packet' = BLANK
    BY DEF Fire, Reset
  <2>4. QED
    BY <2>1, <2>2, <2>3 DEF TaskInv
<1>5. QED
  BY <1>1, <1>3, <1>4 DEF ClientInv

LEMMA PublishClient ==
  ASSUME ClientInv, Publish
  PROVE  ClientInv'
<1>1. NetInv'
  BY NetSame DEF ClientInv, Publish, netVars, ownerVars
<1>2. thread' = "data" /\ UNCHANGED <<netVars, client, taken, left, pack>> /\ packet' = BLANK
  BY DEF Publish, Reset
<1>3. ReadInv'
  BY <1>2, ReadTask DEF ClientInv, netVars
<1>4. TaskInv'
  BY <1>2 DEF ClientInv, TaskInv, Publish, BLANK
<1>5. QED
  BY <1>1, <1>3, <1>4 DEF ClientInv

\* Steps between two reads.
LEMMA TurnClient ==
  ASSUME ClientInv, UNCHANGED <<netVars, rxVars>>, listening' = listening,
         thread' \in {"loop", "io", "ended"}, left = 0,
         thread \notin {"fire", "publish", "aborted"}
  PROVE  ClientInv'
<1>1. NetInv'
  BY NetSame DEF ClientInv, netVars, rxVars
<1>2. ReadInv'
  BY ReadTask DEF ClientInv, netVars, rxVars
<1>3. TaskInv'
  BY DEF ClientInv, TaskInv, rxVars
<1>4. QED
  BY <1>1, <1>2, <1>3 DEF ClientInv

\* Calls of the block that leave the thread alone.
LEMMA CallClient ==
  ASSUME ClientInv, UNCHANGED <<netVars, rxVars, thread, listening>>
  PROVE  ClientInv'
<1>1. NetInv'
  BY NetSame DEF ClientInv, netVars, rxVars
<1>2. ReadInv'
  BY ReadSame DEF ClientInv, netVars, rxVars
<1>3. TaskInv'
  BY DEF ClientInv, TaskInv, rxVars
<1>4. QED
  BY <1>1, <1>2, <1>3 DEF ClientInv

LEMMA OpenClient ==
  ASSUME OwnerInv, ClientInv, Alive, OpenBackend
  PROVE  ClientInv'
<1>1. thread \in {"none", "ended"} /\ UNCHANGED <<netVars, rxVars>>
  BY DEF OwnerInv, Alive, OpenBackend
<1>2. NetInv'
  BY <1>1 DEF ClientInv, NetInv, Begun, OpenBackend, netVars, rxVars
<1>3. left = 0
  BY <1>1 DEF ClientInv, ReadInv
<1>4. ReadInv'
  BY <1>1, <1>3, ReadTask DEF ClientInv, netVars, rxVars
<1>5. thread' \in {"loop", "none", "ended"}
  BY <1>1 DEF OpenBackend
<1>6. TaskInv'
  BY <1>1, <1>5 DEF ClientInv, TaskInv, rxVars
<1>7. QED
  BY <1>2, <1>4, <1>6 DEF ClientInv

LEMMA ClientKept ==
  ASSUME OwnerInv, ClientInv, RxNext
  PROVE  ClientInv'
<1>0. left > 0 => thread \in {"data", "fire", "publish", "aborted"}
  BY DEF ClientInv, ReadInv
<1>a. left \in Nat
  BY VitaAssumption DEF ClientInv, ReadInv
<1>1. CASE Connect
  BY <1>1, ConnectClient
<1>2. CASE Loop
  BY <1>0, <1>a, <1>2, TurnClient DEF Loop, ownerVars
<1>3. CASE Accept
  BY <1>3, AcceptClient
<1>4. CASE Read
  BY <1>4, ReadClient
<1>5. CASE RxTimeOut
  BY <1>0, <1>a, <1>5, TurnClient DEF RxTimeOut, ownerVars
<1>6. CASE ProcessBytes
  BY <1>6, ProcessClient
<1>7. CASE EndOfData
  BY <1>7, TurnClient DEF EndOfData, ownerVars
<1>8. CASE Fire
  BY <1>8, FireClient
<1>9. CASE Publish
  BY <1>9, PublishClient
<1>10. CASE Disconnect
  BY <1>10, DisconnectClient
<1>11. CASE start
  BY <1>11, CallClient DEF start
<1>12. CASE stop
  BY <1>12, CallClient DEF stop
<1>13. CASE OpenBackend
  BY <1>13, OpenClient DEF RxNext
<1>14. CASE SetRunning
  BY <1>14, CallClient DEF SetRunning
<1>15. CASE CloseBackend
  BY <1>15, CallClient DEF CloseBackend
<1>16. CASE CloseSocket
  BY <1>16, CloseClient
<1>17. CASE Destroy
  BY <1>17, CallClient DEF Destroy
<1>18. QED
  BY <1>1, <1>2, <1>3, <1>4, <1>5, <1>6, <1>7, <1>8, <1>9, <1>10, <1>11, <1>12, <1>13, <1>14,
     <1>15, <1>16, <1>17 DEF RxNext, RxTask, OwnerStep

(***************************************************************************)
(* The parser is where the stream is.                                       *)
(***************************************************************************)
\* It is at a client's next word: between packets, inside one, or behind its last word.
Between(k) ==
  taken[k].words < Len(streams[k]) => streams[k][taken[k].words + 1].i = 0
Inside ==
  /\ client # 0 /\ taken[client].words < Len(streams[client])
  /\ packet.cnt = ThisWord.i /\ packet.h = ThisWord.h /\ packet.from = <<client, ThisWord.n>>
  /\ Parsed(packet.state, packet.h, packet.cnt)
Complete ==
  /\ client # 0 /\ thread # "aborted" /\ pack.n = 0
  /\ taken[client].words \in Ends(client)
  /\ packet.from = <<client, streams[client][taken[client].words].n>>

FramedInv == \A k \in 1 .. connected : \A j \in 1 .. Len(streams[k]) : Framed(streams[k][j].h)
PackInv ==
  /\ client = 0 => pack.n = 0
  /\ client # 0 => pack.n = taken[client].bytes /\ (pack.n > 0 => pack.ok)
PacketInv ==
  /\ packet.state = "BLANK" => packet = BLANK /\ (client # 0 => Between(client))
  /\ packet.state \notin {"BLANK", "DONE"} => Inside
  /\ packet.state = "DONE" => Complete
ParserInv == FramedInv /\ PackInv /\ PacketInv

\* What a word leads to, from the packet it belongs to.
Follows(w, from, p) ==
  \/ LastWord(w) /\ Lossless(w.h) /\ p.state = "DONE" /\ p.from = from
  \/ LastWord(w) /\ ~Lossless(w.h) /\ p = BLANK
  \/ /\ ~LastWord(w) /\ p.state \notin {"BLANK", "DONE"}
     /\ p.cnt = w.i + 1 /\ p.h = w.h /\ p.from = from /\ Parsed(p.state, w.h, w.i + 1)

LEMMA WordParsed ==
  ASSUME ClientInv, ParserInv, ProcessBytes, ~ (AddBytes.n < WordBytes)
  PROVE  \E k \in Clients, j \in Nat \ {0} :
           /\ k = client /\ taken[k].words = j - 1 /\ j \in 1 .. Len(streams[k])
           /\ taken'[k] = [words |-> j, bytes |-> 0]
           /\ \A i \in Clients : i # k => taken'[i] = taken[i]
           /\ Follows(streams[k][j], <<k, streams[k][j].n>>, packet')
<1>1. /\ client \in Clients /\ client # 0 /\ left \in Nat \ {0} /\ left <= Unread(client)
      /\ thread = "data" /\ packet.state # "DONE"
  BY VitaAssumption DEF ClientInv, NetInv, TaskInv, ReadInv, ProcessBytes, Clients
<1>2. PICK k \in Clients : k = client
  BY <1>1
<1>3. PICK s : s = streams[k] /\ Sent(s) /\ Len(s) \in Nat
  BY StreamsSent DEF ClientInv, StreamLength
<1>4. PICK at \in Position : at = taken[k] /\ at.words \in Nat /\ at.bytes \in 0 .. WordBytes - 1
  BY DEF ClientInv, ReadInv, Position
<1>5. at.words < Len(s)
  <2>1. WordBytes * (Len(s) - at.words) - at.bytes = Unread(k)
    BY <1>3, <1>4 DEF Unread
  <2>2. Unread(k) > 0
    BY <1>1, <1>2 DEF ClientInv, ReadInv
  <2>3. QED
    BY <1>3, <2>1, <2>2, ByteLeft
<1>6. PICK j \in Nat \ {0} : j = at.words + 1 /\ at.words = j - 1 /\ j \in 1 .. Len(s)
  BY <1>3, <1>4, <1>5
<1>7. pack.n = at.bytes /\ (pack.n > 0 => pack.ok) /\ pack.n \in 0 .. WordBytes - 1
  BY <1>1, <1>2, <1>4 DEF ParserInv, PackInv, ClientInv, ReadInv
<1>8. AddBytes.ok
  <2>1. pack.n = 0 \/ pack.ok
    BY <1>7, VitaAssumption
  <2>2. QED
    BY <1>2, <1>4, <1>7, <2>1 DEF AddBytes
<1>9. PICK m \in Nat \ {0} : m = MoreBytes /\ at.bytes + m = WordBytes
  <2>1. PICK m \in Nat \ {0} : m = MoreBytes /\ m <= WordBytes - pack.n /\ AddBytes.n = pack.n + m
    BY <1>1, BytesMore DEF ClientInv
  <2>2. at.bytes + m = WordBytes
    BY <1>4, <1>7, <2>1, VitaAssumption
  <2>3. QED
    BY <2>1, <2>2
<1>10. Further(at, m) = [words |-> j, bytes |-> 0]
  <2>1. at.bytes + m - WordBytes = 0 /\ ~ (at.bytes + m < WordBytes)
    BY <1>4, <1>9, VitaAssumption
  <2>2. QED
    BY <1>6, <2>1 DEF Further
<1>11. taken'[k] = [words |-> j, bytes |-> 0] /\ \A i \in Clients : i # k => taken'[i] = taken[i]
  <2>1. taken' = [taken EXCEPT ![k] = Further(at, m)] /\ taken \in [Clients -> Position]
    BY <1>2, <1>4, <1>9 DEF ProcessBytes, ClientInv, ReadInv
  <2>2. QED
    BY <1>10, <2>1
<1>12. ThisWord = s[j]
  BY <1>2, <1>3, <1>4, <1>6 DEF ThisWord
<1>13. PICK w \in Word : w = s[j] /\ w.i \in Nat /\ w.h \in Shape
  BY <1>3, <1>6, NextWord
<1>14. PICK from : from = <<k, w.n>>
  OBVIOUS
<1>15. Framed(w.h)
  <2>1. k \in 1 .. connected
    BY <1>1, <1>2 DEF ClientInv, NetInv, Begun, Clients
  <2>2. QED
    BY <1>3, <1>6, <1>13, <2>1 DEF ParserInv, FramedInv
<1>16. Unpack(AddBytes.ok)
  BY DEF ProcessBytes
<1>17. Follows(w, from, packet')
  <2>1. CASE packet.state = "BLANK"
    <3>1. w.i = 0
      BY <1>1, <1>2, <1>3, <1>4, <1>5, <1>6, <1>13, <2>1 DEF ParserInv, PacketInv, Between
    <3>2. packet' = Header(w.h, from)
      BY <1>2, <1>8, <1>12, <1>13, <1>14, <1>16, <2>1, <3>1 DEF Unpack
    <3>3. Parsed("GOT_HEADER", w.h, 1)
      BY DEF Parsed
    <3>4. 1 < PacketSize(w.h) /\ PacketSize(w.h) \in Nat
      BY <1>13, <1>15, <3>3, ParsedShort, SizeFacts
    <3>5. ~ LastWord(w)
      BY <3>1, <3>4 DEF LastWord
    <3>6. QED
      BY <3>1, <3>2, <3>3, <3>5 DEF Follows, Header
  <2>2. CASE packet.state # "BLANK"
    <3>1. /\ packet.cnt = w.i /\ packet.h = w.h /\ packet.from = from
          /\ Parsed(packet.state, w.h, w.i)
      BY <1>1, <1>2, <1>12, <1>13, <1>14, <2>2 DEF ParserInv, PacketInv, Inside
    <3>2. packet' = Unpacked(packet, from)
      BY <1>2, <1>8, <1>12, <1>13, <1>14, <1>16, <2>2, <3>1 DEF Unpack, From
    <3>3. Ended(w.h, w.i, from, packet') \/ GoesOn(w.h, w.i, from, packet')
      BY <1>13, <1>15, <3>1, <3>2, ParserStep
    <3>4. CASE Ended(w.h, w.i, from, packet')
      BY <3>4 DEF Ended, Follows, LastWord
    <3>5. CASE GoesOn(w.h, w.i, from, packet')
      BY <3>5 DEF GoesOn, Follows, LastWord
    <3>6. QED
      BY <3>3, <3>4, <3>5
  <2>3. QED
    BY <2>1, <2>2
<1>18. QED
  BY <1>2, <1>3, <1>4, <1>6, <1>11, <1>13, <1>14, <1>17

\* What stays as it is.
LEMMA ParserSame ==
  ASSUME ParserInv, UNCHANGED <<streams, connected, client, taken, pack, packet>>,
         packet.state = "DONE" => thread' # "aborted"
  PROVE  ParserInv'
<1>1. Ends(client)' = Ends(client)
  BY DEF Ends
<1>2. Complete /\ packet.state = "DONE" => Complete'
  BY <1>1 DEF Complete
<1>3. Inside => Inside'
  BY DEF Inside, ThisWord
<1>4. QED
  BY <1>2, <1>3 DEF ParserInv, FramedInv, PackInv, PacketInv, Between

\* Bytes that do not complete a word.
LEMMA BytesParsed ==
  ASSUME ClientInv, ParserInv, ProcessBytes, AddBytes.n < WordBytes
  PROVE  /\ \A k \in Clients : taken'[k].words = taken[k].words
         /\ ParserInv'
<1>1. /\ client \in Clients /\ client # 0 /\ left > 0 /\ UNCHANGED <<streams, connected, client>>
      /\ thread = "data" /\ packet.state # "DONE" /\ pack' = AddBytes /\ UNCHANGED <<packet, thread>>
  BY VitaAssumption DEF ClientInv, NetInv, TaskInv, ReadInv, ProcessBytes, Clients, netVars
<1>2. PICK k \in Clients : k = client
  BY <1>1
<1>3. PICK at \in Position : at = taken[k] /\ at.words \in Nat /\ at.bytes \in 0 .. WordBytes - 1
  BY DEF ClientInv, ReadInv, Position
<1>4. pack.n = at.bytes /\ (pack.n > 0 => pack.ok) /\ pack.n \in 0 .. WordBytes - 1
  BY <1>1, <1>2, <1>3 DEF ParserInv, PackInv, ClientInv, ReadInv
<1>5. PICK m \in Nat \ {0} : m = MoreBytes /\ AddBytes.n = pack.n + m
  BY <1>1, BytesMore DEF ClientInv
<1>6. AddBytes.ok
  <2>1. pack.n = 0 \/ pack.ok
    BY <1>4, VitaAssumption
  <2>2. QED
    BY <1>2, <1>3, <1>4, <2>1 DEF AddBytes
<1>7. Further(at, m) = [words |-> at.words, bytes |-> at.bytes + m]
  BY <1>3, <1>4, <1>5 DEF Further, Position
<1>8. /\ taken'[k] = [words |-> at.words, bytes |-> at.bytes + m]
      /\ \A i \in Clients : i # k => taken'[i] = taken[i]
  <2>1. taken' = [taken EXCEPT ![k] = Further(at, m)] /\ taken \in [Clients -> Position]
    BY <1>2, <1>3, <1>5 DEF ProcessBytes, ClientInv, ReadInv
  <2>2. QED
    BY <1>7, <2>1
<1>9. \A i \in Clients : taken'[i].words = taken[i].words
  BY <1>3, <1>8
<1>10. PackInv'
  BY <1>1, <1>2, <1>3, <1>4, <1>5, <1>6, <1>8 DEF PackInv
<1>11. Between(client) => Between(client)'
  BY <1>1, <1>2, <1>9 DEF Between
<1>12. Inside => Inside'
  BY <1>1, <1>2, <1>9 DEF Inside, ThisWord
<1>13. PacketInv'
  BY <1>1, <1>11, <1>12 DEF ParserInv, PacketInv
<1>14. FramedInv'
  BY <1>1 DEF ParserInv, FramedInv
<1>15. QED
  BY <1>9, <1>10, <1>13, <1>14 DEF ParserInv

\* A word that is complete.
LEMMA WordStays ==
  ASSUME ClientInv, ParserInv, ProcessBytes, ~ (AddBytes.n < WordBytes)
  PROVE  ParserInv'
<1>1. PICK k \in Clients, j \in Nat \ {0} :
        /\ k = client /\ taken[k].words = j - 1 /\ j \in 1 .. Len(streams[k])
        /\ taken'[k] = [words |-> j, bytes |-> 0]
        /\ \A i \in Clients : i # k => taken'[i] = taken[i]
        /\ Follows(streams[k][j], <<k, streams[k][j].n>>, packet')
  BY WordParsed
<1>2. PICK s : s = streams[k] /\ Sent(s) /\ Len(s) \in Nat
  BY StreamsSent DEF ClientInv, StreamLength
<1>3. /\ client # 0 /\ UNCHANGED <<streams, connected, client>> /\ pack' = NoBytes
      /\ thread' = (IF packet'.state = "DONE" THEN "fire" ELSE "data")
  BY DEF ClientInv, TaskInv, ProcessBytes, netVars
<1>4. PackInv'
  BY <1>1, <1>3 DEF PackInv, NoBytes
<1>5. FramedInv'
  BY <1>3 DEF ParserInv, FramedInv
<1>6. PICK w \in Word : w = s[j] /\ w.i \in Nat /\ w.n \in Nat
  BY <1>1, <1>2, NextWord
<1>7. taken'[k].words = j /\ taken'[k].bytes = 0
  BY <1>1
<1>8. CASE LastWord(w) /\ Lossless(w.h) /\ packet'.state = "DONE" /\ packet'.from = <<k, w.n>>
  <2>1. j \in Ends(k)'
    BY <1>1, <1>2, <1>3, <1>6, <1>7, <1>8 DEF Ends
  <2>2. Ends(client)' = Ends(k)'
    BY <1>1, <1>3 DEF Ends
  <2>3. Complete'
    BY <1>1, <1>2, <1>3, <1>6, <1>7, <1>8, <2>1, <2>2 DEF Complete, NoBytes
  <2>4. QED
    BY <1>4, <1>5, <1>8, <2>3 DEF ParserInv, PacketInv
<1>9. CASE LastWord(w) /\ packet' = BLANK
  <2>1. Between(k)'
    BY <1>1, <1>2, <1>3, <1>6, <1>7, <1>9, NextWord DEF Between
  <2>2. Between(client)' = Between(k)'
    BY <1>1, <1>3 DEF Between
  <2>3. packet'.state = "BLANK"
    BY <1>9 DEF BLANK
  <2>4. QED
    BY <1>4, <1>5, <1>9, <2>1, <2>2, <2>3 DEF ParserInv, PacketInv
<1>10. CASE /\ ~LastWord(w) /\ packet'.state \notin {"BLANK", "DONE"} /\ packet'.cnt = w.i + 1
            /\ packet'.h = w.h /\ packet'.from = <<k, w.n>> /\ Parsed(packet'.state, w.h, w.i + 1)
  <2>1. /\ j < Len(s) /\ s[j + 1].i = w.i + 1 /\ s[j + 1].h = w.h /\ s[j + 1].n = w.n
    BY <1>1, <1>2, <1>6, <1>10, NextWord
  <2>2. ThisWord' = s[j + 1]
    BY <1>1, <1>2, <1>3, <1>7 DEF ThisWord
  <2>3. taken'[client'].words < Len(streams'[client']) /\ client' = k /\ client' # 0
    BY <1>1, <1>2, <1>3, <1>7, <2>1
  <2>4. Inside'
    BY <1>10, <2>1, <2>2, <2>3 DEF Inside
  <2>5. QED
    BY <1>4, <1>5, <1>10, <2>4 DEF ParserInv, PacketInv
<1>11. QED
  BY <1>1, <1>2, <1>6, <1>8, <1>9, <1>10 DEF Follows

\* Behind a packet that was handed over.
LEMMA ResetStays ==
  ASSUME ClientInv, ParserInv, packet.state = "DONE", packet' = BLANK,
         UNCHANGED <<streams, connected, client, taken, pack>>
  PROVE  ParserInv'
<1>1. Complete
  BY DEF ParserInv, PacketInv
<1>2. PICK k \in Clients : k = client
  BY <1>1 DEF ClientInv, NetInv, Complete
<1>3. PICK s : s = streams[k] /\ Sent(s) /\ Len(s) \in Nat
  BY StreamsSent DEF ClientInv, StreamLength
<1>4. PICK j \in Nat \ {0} : j = taken[k].words /\ LastWord(s[j])
  <2>1. taken[k].words \in 1 .. taken[k].words /\ LastWord(s[taken[k].words])
    BY <1>1, <1>2, <1>3 DEF Complete, Ends
  <2>2. taken[k].words \in Nat
    BY DEF ClientInv, ReadInv, Position
  <2>3. QED
    BY <2>1, <2>2
<1>5. Between(client)'
  <2>1. SUFFICES ASSUME j < Len(s) PROVE s[j + 1].i = 0
    BY <1>2, <1>3, <1>4 DEF Between
  <2>2. j \in 1 .. Len(s)
    BY <1>3, <2>1
  <2>3. QED
    BY <1>3, <1>4, <2>1, <2>2, NextWord
<1>6. packet'.state = "BLANK"
  BY DEF BLANK
<1>7. PacketInv'
  BY <1>5, <1>6 DEF PacketInv
<1>8. FramedInv' /\ PackInv'
  BY DEF ParserInv, FramedInv, PackInv
<1>9. QED
  BY <1>7, <1>8 DEF ParserInv

\* A connection that ends between two packets.
LEMMA LeaveStays ==
  ASSUME ClientInv, ParserInv, packet.state # "DONE", Leave, ~ spoiled',
         UNCHANGED <<streams, connected, taken, pack>>, packet' \in {packet, BLANK}
  PROVE  ParserInv'
<1>1. client' = 0 /\ (client # 0 => AtPacket(client))
  BY DEF Leave
<1>2. pack.n = 0
  BY <1>1 DEF ParserInv, PackInv, AtPacket
<1>3. ~ Inside
  <2>. SUFFICES ASSUME Inside
                PROVE  FALSE
    OBVIOUS
  <2>1. PICK k \in Clients : k = client
    BY DEF ClientInv, NetInv, Inside
  <2>2. PICK s : s = streams[k] /\ Sent(s) /\ Len(s) \in Nat
    BY StreamsSent DEF ClientInv, StreamLength
  <2>3. PICK j \in 1 .. Len(s) : j = taken[k].words + 1 /\ taken[k].words < Len(s)
    <3>1. taken[k].words \in Nat
      BY DEF ClientInv, ReadInv, Position
    <3>2. QED
      BY <2>1, <2>2, <3>1 DEF Inside
  <2>4. s[j].i = 0
    BY <1>1, <2>1, <2>2, <2>3 DEF AtPacket, Inside
  <2>5. s[j] = ThisWord
    BY <2>1, <2>2, <2>3 DEF ThisWord
  <2>6. Parsed(packet.state, s[j].h, 0)
    BY <2>4, <2>5 DEF Inside
  <2>7. s[j].h \in Shape
    BY <2>2, NextWord
  <2>8. k \in 1 .. connected
    BY <1>1, <2>1 DEF ClientInv, NetInv, Begun, Clients, Inside
  <2>9. Framed(s[j].h)
    BY <2>2, <2>3, <2>8 DEF ParserInv, FramedInv
  <2>10. QED
    BY <2>6, <2>7, <2>9, ParsedShort
<1>4. packet = BLANK
  BY <1>3 DEF ParserInv, PacketInv
<1>5. packet' = BLANK /\ packet'.state = "BLANK"
  BY <1>4 DEF BLANK
<1>6. PacketInv'
  BY <1>1, <1>5 DEF PacketInv
<1>7. PackInv'
  BY <1>1, <1>2 DEF PackInv
<1>8. FramedInv'
  BY DEF ParserInv, FramedInv
<1>9. QED
  BY <1>6, <1>7, <1>8 DEF ParserInv

LEMMA ConnectParser ==
  ASSUME ClientInv, ParserInv, Connect, ~ spoiled'
  PROVE  ParserInv'
<1>1. PICK c \in Nat : c = connected /\ connected' = c + 1 /\ pending' = c + 1 /\ c + 1 \in Clients
  BY VitaAssumption DEF ClientInv, NetInv, Connect, Clients
<1>2. \A j \in DOMAIN streams[c + 1] : Framed(streams[c + 1][j].h)
  BY <1>1 DEF Connect
<1>3. DOMAIN streams[c + 1] = 1 .. Len(streams[c + 1])
  BY <1>1, StreamsSent DEF ClientInv, StreamLength, Sent
<1>4. \A k \in 1 .. c + 1 : k \in 1 .. c \/ k = c + 1
  OBVIOUS
<1>5. FramedInv'
  BY <1>1, <1>2, <1>3, <1>4 DEF ParserInv, FramedInv, Connect
<1>6. UNCHANGED <<streams, client, taken, pack, packet, thread>>
  BY DEF Connect, rxVars
<1>7. PackInv'
  BY <1>6 DEF ParserInv, PackInv
<1>8. Complete => Complete'
  BY <1>6 DEF Complete, Ends
<1>9. Inside => Inside'
  BY <1>6 DEF Inside, ThisWord
<1>10. PacketInv'
  BY <1>6, <1>8, <1>9 DEF ParserInv, PacketInv, Between
<1>11. QED
  BY <1>5, <1>7, <1>10 DEF ParserInv

LEMMA AcceptParser ==
  ASSUME ClientInv, ParserInv, Accept
  PROVE  ParserInv'
<1>1. PICK k \in Clients : k = pending /\ client' = k /\ k # 0
  BY DEF ClientInv, NetInv, Accept, Accepted
<1>2. UNCHANGED <<streams, connected, taken, pack, packet>> /\ client = 0 /\ thread = "io"
  BY DEF Accept
<1>3. taken[k] = Nothing
  <2>1. k > Begun
    BY <1>1 DEF ClientInv, NetInv, Begun
  <2>2. QED
    BY <2>1 DEF ClientInv, ReadInv
<1>4. taken[k].words = 0 /\ taken[k].bytes = 0
  BY <1>3 DEF Nothing
<1>5. PICK s : s = streams[k] /\ Sent(s) /\ Len(s) \in Nat
  BY StreamsSent DEF ClientInv, StreamLength
<1>6. Between(k)
  <2>1. SUFFICES ASSUME 0 < Len(s) PROVE s[1].i = 0
    BY <1>4, <1>5 DEF Between
  <2>2. s # <<>>
    BY <2>1
  <2>3. QED
    BY <1>5, <2>2 DEF Sent
<1>7. Between(client)'
  BY <1>1, <1>2, <1>6 DEF Between
<1>8. packet = BLANK /\ packet.state = "BLANK"
  <2>1. packet.state # "DONE" /\ ~ Inside
    BY <1>2 DEF ClientInv, TaskInv, Inside
  <2>2. QED
    BY <2>1 DEF ParserInv, PacketInv
<1>9. PacketInv'
  BY <1>2, <1>7, <1>8 DEF PacketInv
<1>10. PackInv'
  BY <1>1, <1>2, <1>4 DEF ParserInv, PackInv
<1>11. FramedInv'
  BY <1>2 DEF ParserInv, FramedInv
<1>12. QED
  BY <1>9, <1>10, <1>11 DEF ParserInv

(***************************************************************************)
(* What is handed over.                                                     *)
(***************************************************************************)
DeliveredInv ==
  /\ delivered \in Seq(Nat \X Nat)
  /\ ToSet(delivered) = IF thread = "fire" THEN Received \ {packet.from} ELSE Received
  /\ \A i, j \in DOMAIN delivered : i < j => Earlier(delivered[i], delivered[j])

LEMMA InReceived ==
  /\ \A k \in Clients : \A j \in Ends(k) : <<k, streams[k][j].n>> \in Received
  /\ \A p \in Received : \E k \in Clients : \E j \in Ends(k) : p = <<k, streams[k][j].n>>
  BY DEF Received

LEMMA ToSetAppend ==
  ASSUME NEW T, NEW s \in Seq(T), NEW e \in T
  PROVE  ToSet(Append(s, e)) = ToSet(s) \union {e}
<1>1. PICK n \in Nat : n = Len(s) /\ DOMAIN s = 1 .. n
  OBVIOUS
<1>2. PICK a : a = Append(s, e)
  OBVIOUS
<1>3. DOMAIN a = 1 .. n + 1 /\ (\A i \in 1 .. n : a[i] = s[i]) /\ a[n + 1] = e
  BY <1>1, <1>2
<1>4. 1 .. n + 1 = (1 .. n) \union {n + 1}
  OBVIOUS
<1>5. ToSet(a) = {a[i] : i \in 1 .. n + 1} /\ ToSet(s) = {s[i] : i \in 1 .. n}
  BY <1>1, <1>3 DEF ToSet
<1>6. QED
  BY <1>2, <1>3, <1>4, <1>5

\* What stays as it is.
LEMMA DeliveredSame ==
  ASSUME DeliveredInv, UNCHANGED <<streams, delivered>>,
         \A k \in Clients : taken'[k].words = taken[k].words,
         thread # "fire", thread' # "fire"
  PROVE  DeliveredInv'
<1>1. \A k \in Clients : Ends(k)' = Ends(k)
  BY DEF Ends
<1>2. Received' = Received
  BY <1>1 DEF Received
<1>3. QED
  BY <1>2 DEF DeliveredInv

\* The words of a client are numbered by its packets: none was handed over before.
LEMMA NewPacket ==
  ASSUME ClientInv, NEW k \in Clients, NEW j \in Nat \ {0}, taken[k].words = j - 1,
         j \in 1 .. Len(streams[k])
  PROVE  <<k, streams[k][j].n>> \notin Received
<1>1. PICK s : s = streams[k] /\ Sent(s) /\ Len(s) \in Nat
  BY StreamsSent DEF ClientInv, StreamLength
<1>2. SUFFICES ASSUME <<k, streams[k][j].n>> \in Received
               PROVE  FALSE
  OBVIOUS
<1>3. PICK c, i : /\ c \in Clients /\ i \in Ends(c)
                  /\ <<k, streams[k][j].n>> = <<c, streams[c][i].n>>
  BY <1>2, InReceived
<1>4. c = k /\ s[i].n = s[j].n
  BY <1>1, <1>3
<1>5. i \in 1 .. j - 1 /\ LastWord(s[i])
  BY <1>1, <1>3, <1>4 DEF Ends
<1>6. i \in 1 .. Len(s) /\ j \in 1 .. Len(s) /\ i < j
  BY <1>1, <1>5
<1>7. s[i].n < s[j].n /\ s[i].n \in Nat /\ s[j].n \in Nat
  BY <1>1, <1>5, <1>6, LaterPacket, NextWord
<1>8. QED
  BY <1>4, <1>7

LEMMA WordDelivered ==
  ASSUME ClientInv, ParserInv, DeliveredInv, ProcessBytes, ~ (AddBytes.n < WordBytes)
  PROVE  DeliveredInv'
<1>1. PICK k \in Clients, j \in Nat \ {0} :
        /\ k = client /\ taken[k].words = j - 1 /\ j \in 1 .. Len(streams[k])
        /\ taken'[k] = [words |-> j, bytes |-> 0]
        /\ \A i \in Clients : i # k => taken'[i] = taken[i]
        /\ Follows(streams[k][j], <<k, streams[k][j].n>>, packet')
  BY WordParsed
<1>2. /\ UNCHANGED <<streams, delivered>> /\ thread = "data"
      /\ thread' = (IF packet'.state = "DONE" THEN "fire" ELSE "data")
  BY DEF ProcessBytes, netVars, histVars
<1>3. PICK w : w = streams[k][j]
  OBVIOUS
<1>4. \A i \in Clients : i # k => Ends(i)' = Ends(i)
  BY <1>1, <1>2 DEF Ends
<1>5. 1 .. j = (1 .. j - 1) \union {j}
  OBVIOUS
<1>6. /\ Ends(k) = {i \in 1 .. j - 1 : LastWord(streams[k][i]) /\ Lossless(streams[k][i].h)}
      /\ Ends(k)' = {i \in 1 .. j : LastWord(streams[k][i]) /\ Lossless(streams[k][i].h)}
  BY <1>1, <1>2 DEF Ends
<1>7. ToSet(delivered) = Received
  BY <1>2 DEF DeliveredInv
<1>8. CASE LastWord(w) /\ Lossless(w.h) /\ packet'.state = "DONE" /\ packet'.from = <<k, w.n>>
  <2>1. Ends(k)' = Ends(k) \union {j}
    BY <1>3, <1>5, <1>6, <1>8
  <2>2. Received' = Received \union {<<k, w.n>>}
    BY <1>2, <1>3, <1>4, <2>1 DEF Received
  <2>3. <<k, w.n>> \notin Received
    BY <1>1, <1>3, NewPacket
  <2>4. Received' \ {packet'.from} = Received
    BY <1>8, <2>2, <2>3
  <2>5. thread' = "fire"
    BY <1>2, <1>8
  <2>6. QED
    BY <1>2, <1>7, <2>4, <2>5 DEF DeliveredInv
<1>9. CASE ~ (LastWord(w) /\ Lossless(w.h)) /\ packet'.state # "DONE"
  <2>1. Ends(k)' = Ends(k)
    BY <1>3, <1>5, <1>6, <1>9
  <2>2. Received' = Received
    BY <1>2, <1>4, <2>1 DEF Received
  <2>3. thread' = "data"
    BY <1>2, <1>9
  <2>4. QED
    BY <1>2, <1>7, <2>2, <2>3 DEF DeliveredInv
<1>10. QED
  BY <1>1, <1>3, <1>8, <1>9 DEF Follows, BLANK

\* The listener gets the packet after all that came before it.
LEMMA LastReceived ==
  ASSUME ClientInv, Complete
  PROVE  /\ packet.from \in Received /\ packet.from \in Nat \X Nat
         /\ \A p \in Received : p = packet.from \/ Earlier(p, packet.from)
<1>1. PICK k \in Clients : k = client /\ k # 0
  BY DEF ClientInv, NetInv, Complete
<1>2. PICK s : s = streams[k] /\ Sent(s) /\ Len(s) \in Nat
  BY StreamsSent DEF ClientInv, StreamLength
<1>3. PICK j \in Ends(k) : j = taken[k].words /\ packet.from = <<k, s[j].n>>
  BY <1>1, <1>2 DEF Complete
<1>4. j \in Nat \ {0}
  BY <1>3 DEF ClientInv, ReadInv, Position, Ends
<1>5. j \in 1 .. Len(s)
  <2>1. PICK at \in Position : at = taken[k] /\ at.words = j /\ at.bytes \in Nat
    BY <1>3, VitaAssumption DEF ClientInv, ReadInv, Position
  <2>2. WordBytes * (Len(s) - j) - at.bytes \in Nat
    BY <1>2, <2>1 DEF ClientInv, ReadInv, Unread
  <2>3. j <= Len(s)
    BY <1>2, <1>4, <2>1, <2>2, NotBeyond
  <2>4. QED
    BY <1>2, <1>4, <2>3
<1>6. s[j].n \in Nat
  BY <1>2, <1>5, NextWord
<1>7. packet.from \in Received /\ packet.from \in Nat \X Nat
  BY <1>1, <1>2, <1>3, <1>6, InReceived DEF Clients
<1>8. ASSUME NEW p \in Received
      PROVE  p = packet.from \/ Earlier(p, packet.from)
  <2>1. PICK c, i : c \in Clients /\ i \in Ends(c) /\ p = <<c, streams[c][i].n>>
    BY InReceived
  <2>2. CASE c = k
    <3>1. i \in 1 .. j /\ i \in 1 .. Len(s) /\ j \in i .. Len(s)
      BY <1>2, <1>3, <1>5, <2>1, <2>2 DEF Ends
    <3>2. s[i].n <= s[j].n /\ s[i].n \in Nat
      BY <1>2, <3>1, Numbered, NextWord
    <3>3. p = <<k, s[i].n>>
      BY <1>2, <2>1, <2>2
    <3>4. s[i].n = s[j].n \/ s[i].n < s[j].n
      BY <1>6, <3>2
    <3>5. QED
      BY <1>3, <3>3, <3>4 DEF Earlier
  <2>3. CASE c # k
    <3>1. c <= Begun
      <4>1. SUFFICES ASSUME c > Begun PROVE FALSE
        BY <2>1, VitaAssumption DEF ClientInv, NetInv, Begun, Clients
      <4>2. taken[c].words = 0
        BY <2>1, <4>1 DEF ClientInv, ReadInv, Nothing
      <4>3. QED
        BY <2>1, <4>2 DEF Ends
    <3>2. c < k
      BY <1>1, <2>1, <2>3, <3>1 DEF ClientInv, NetInv, Clients
    <3>3. QED
      BY <1>3, <2>1, <3>2 DEF Earlier
  <2>4. QED
    BY <2>2, <2>3
<1>9. QED
  BY <1>7, <1>8

LEMMA FireDelivered ==
  ASSUME ClientInv, ParserInv, DeliveredInv, Fire
  PROVE  ParserInv' /\ DeliveredInv'
<1>1. packet.state = "DONE" /\ Complete
  BY DEF ClientInv, TaskInv, ParserInv, PacketInv, Fire
<1>2. PICK e \in Nat \X Nat : e = packet.from /\ e \in Received /\ \A p \in Received : p = e \/ Earlier(p, e)
  BY <1>1, LastReceived
<1>3. packet.from # MIXED
  BY <1>1 DEF Complete, MIXED
<1>4. /\ delivered' = Append(delivered, e) /\ UNCHANGED <<streams, connected, client, taken, pack>>
      /\ (thread' = "publish" /\ packet' = packet) \/ (thread' = "data" /\ packet' = BLANK)
  BY <1>2, <1>3 DEF Fire, Reset, netVars
<1>5. ParserInv'
  BY <1>1, <1>4, ParserSame, ResetStays
<1>6. PICK d \in Seq(Nat \X Nat) : d = delivered /\ ToSet(d) = Received \ {e}
  BY <1>2 DEF DeliveredInv, Fire
<1>7. \A i, j \in DOMAIN d : i < j => Earlier(d[i], d[j])
  BY <1>6 DEF DeliveredInv
<1>8. ToSet(delivered') = Received /\ delivered' \in Seq(Nat \X Nat)
  <2>1. PICK a : a = delivered' /\ a = Append(d, e)
    BY <1>4, <1>6
  <2>2. ToSet(a) = ToSet(d) \union {e} /\ a \in Seq(Nat \X Nat)
    BY <2>1, ToSetAppend
  <2>3. QED
    BY <1>2, <1>6, <2>1, <2>2
<1>9. Received' = Received
  BY <1>4 DEF Received, Ends
<1>10. \A i, j \in DOMAIN delivered' : i < j => Earlier(delivered'[i], delivered'[j])
  <2>1. PICK n \in Nat : n = Len(d) /\ DOMAIN d = 1 .. n
    OBVIOUS
  <2>2. PICK a : a = delivered' /\ a = Append(d, e)
    BY <1>4, <1>6
  <2>3. DOMAIN a = 1 .. n + 1 /\ (\A i \in 1 .. n : a[i] = d[i]) /\ a[n + 1] = e
    BY <2>1, <2>2
  <2>4. \A i \in 1 .. n : Earlier(d[i], e)
    <3>1. \A i \in 1 .. n : d[i] \in ToSet(d)
      BY <2>1 DEF ToSet
    <3>2. QED
      BY <1>2, <1>6, <3>1
  <2>5. \A i, j \in 1 .. n + 1 : i < j => i \in 1 .. n /\ (j \in 1 .. n \/ j = n + 1)
    OBVIOUS
  <2>6. QED
    BY <1>7, <2>1, <2>2, <2>3, <2>4, <2>5
<1>11. QED
  BY <1>4, <1>5, <1>8, <1>9, <1>10 DEF DeliveredInv

(***************************************************************************)
(* The theorems.                                                            *)
(***************************************************************************)
RxInv == OwnerInv /\ ClientInv /\ (~spoiled => ParserInv /\ DeliveredInv)

LEMMA RxInvInit == RxInit => RxInv
<1>. SUFFICES ASSUME RxInit
              PROVE  RxInv
  OBVIOUS
<1>1. OwnerInv
  BY DEF RxInit, OwnerInv
<1>2. NetInv
  BY VitaAssumption DEF RxInit, NetInv, Clients, Begun
<1>3. ReadInv
  <2>1. taken \in [Clients -> Position] /\ \A k \in Clients : taken[k] = Nothing
    BY VitaAssumption DEF RxInit, Position, Nothing
  <2>2. ASSUME NEW k \in Clients PROVE Unread(k) \in Nat
    <3>1. PICK L \in Nat : L = Len(streams[k])
      BY <1>2, StreamsSent DEF StreamLength
    <3>2. Unread(k) = WordBytes * (L - 0) - 0
      BY <2>1, <3>1 DEF Unread, Nothing
    <3>3. QED
      BY <3>2, VitaAssumption
  <2>3. QED
    BY <2>1, <2>2, VitaAssumption DEF RxInit, ReadInv, NoBytes
<1>4. TaskInv
  BY DEF RxInit, TaskInv, BLANK
<1>5. ParserInv
  <2>1. packet.state = "BLANK" /\ packet = BLANK
    BY DEF RxInit, BLANK
  <2>2. QED
    BY <2>1 DEF RxInit, ParserInv, FramedInv, PackInv, PacketInv, NoBytes
<1>6. DeliveredInv
  <2>1. \A k \in Clients : Ends(k) = {}
    BY DEF RxInit, Ends, Nothing
  <2>2. Received = {}
    BY <2>1 DEF Received
  <2>3. ToSet(delivered) = {}
    BY DEF RxInit, ToSet
  <2>4. QED
    BY <2>2, <2>3 DEF RxInit, DeliveredInv
<1>7. QED
  BY <1>1, <1>2, <1>3, <1>4, <1>5, <1>6 DEF RxInv, ClientInv

LEMMA PacketsKept ==
  ASSUME OwnerInv, ClientInv, ParserInv, DeliveredInv, RxNext, ~ spoiled'
  PROVE  ParserInv' /\ DeliveredInv'
<1>0. packet.state = "DONE" <=> thread \in {"fire", "publish", "aborted"}
  BY DEF ClientInv, TaskInv
<1>1. CASE Connect
  <2>1. thread' = thread /\ UNCHANGED <<streams, delivered, taken, packet>>
    BY <1>1 DEF Connect, rxVars
  <2>2. Received' = Received
    BY <2>1 DEF Received, Ends
  <2>3. DeliveredInv'
    BY <2>1, <2>2 DEF DeliveredInv
  <2>4. QED
    BY <1>1, <2>3, ConnectParser
<1>2. CASE Loop
  BY <1>0, <1>2, ParserSame, DeliveredSame DEF Loop, netVars, rxVars, histVars
<1>3. CASE Accept
  BY <1>3, AcceptParser, DeliveredSame DEF Accept, histVars
<1>4. CASE Read
  BY <1>0, <1>4, ParserSame, DeliveredSame DEF Read, netVars, histVars
<1>5. CASE RxTimeOut
  BY <1>0, <1>5, ParserSame, DeliveredSame DEF RxTimeOut, netVars, rxVars, histVars
<1>6. CASE ProcessBytes
  <2>1. CASE AddBytes.n < WordBytes
    <3>1. thread = "data" /\ thread' = "data" /\ UNCHANGED <<streams, delivered>>
      BY <1>6, <2>1 DEF ProcessBytes, netVars, histVars
    <3>2. QED
      BY <1>6, <2>1, <3>1, BytesParsed, DeliveredSame
  <2>2. CASE ~ (AddBytes.n < WordBytes)
    BY <1>6, <2>2, WordStays, WordDelivered
  <2>3. QED
    BY <2>1, <2>2
<1>7. CASE EndOfData
  BY <1>0, <1>7, ParserSame, DeliveredSame DEF EndOfData, netVars, rxVars, histVars
<1>8. CASE Fire
  BY <1>8, FireDelivered
<1>9. CASE Publish
  <2>1. /\ UNCHANGED <<streams, connected, client, taken, pack, delivered>> /\ packet' = BLANK
        /\ thread = "publish" /\ thread' = "data"
    BY <1>9 DEF Publish, Reset, netVars
  <2>2. QED
    BY <1>0, <2>1, ResetStays, DeliveredSame
<1>10. CASE Disconnect
  <2>1. /\ UNCHANGED <<streams, connected, taken, pack, delivered, packet>> /\ Leave
        /\ thread = "io" /\ thread' = "loop"
    BY <1>10 DEF Disconnect, netVars
  <2>2. QED
    BY <1>0, <2>1, LeaveStays, DeliveredSame
<1>11. CASE OpenBackend
  <2>1. /\ UNCHANGED <<streams, connected, client, taken, pack, packet, delivered>>
        /\ thread \in {"none", "ended"} /\ thread' \in {"none", "ended", "loop"}
    BY <1>11 DEF OwnerInv, RxNext, Alive, OpenBackend, netVars, rxVars, histVars
  <2>2. QED
    BY <1>0, <2>1, ParserSame, DeliveredSame
<1>12. CASE CloseSocket
  <2>1. /\ UNCHANGED <<streams, connected, taken, pack, delivered>> /\ Leave /\ packet' = BLANK
        /\ thread = "ended" /\ thread' = "ended"
    BY <1>12 DEF CloseSocket
  <2>2. QED
    BY <1>0, <2>1, LeaveStays, DeliveredSame
<1>13. CASE UNCHANGED <<netVars, rxVars, thread, histVars>>
  <2>1. UNCHANGED <<streams, connected, client, taken, pack, packet, delivered, thread>>
    BY <1>13 DEF netVars, rxVars, histVars
  <2>2. ParserInv'
    <3>1. packet.state = "DONE" => thread' # "aborted"
      BY <2>1 DEF ParserInv, PacketInv, Complete
    <3>2. QED
      BY <2>1, <3>1, ParserSame
  <2>3. Received' = Received
    BY <2>1 DEF Received, Ends
  <2>4. DeliveredInv'
    BY <2>1, <2>3 DEF DeliveredInv
  <2>5. QED
    BY <2>2, <2>4
<1>14. CASE start \/ stop \/ SetRunning \/ CloseBackend \/ Destroy
  BY <1>13, <1>14 DEF start, stop, SetRunning, CloseBackend, Destroy
<1>15. QED
  BY <1>1, <1>2, <1>3, <1>4, <1>5, <1>6, <1>7, <1>8, <1>9, <1>10, <1>11, <1>12, <1>14
     DEF RxNext, RxTask, OwnerStep

\* What was spoiled stays so.
LEMMA SpoiledStays ==
  ASSUME RxNext, spoiled
  PROVE  spoiled'
  BY DEF RxNext, RxTask, OwnerStep, Connect, Loop, Accept, Read, RxTimeOut, ProcessBytes,
         EndOfData, Fire, Publish, Disconnect, Leave, start, stop, OpenBackend, SetRunning,
         CloseBackend, CloseSocket, Destroy, histVars

LEMMA RxInvStep == RxInv /\ [RxNext]_receiverVars => RxInv'
<1>1. ASSUME RxInv, RxNext PROVE RxInv'
  <2>1. OwnerInv' /\ ClientInv'
    BY <1>1, OwnerKept, ClientKept DEF RxInv
  <2>2. ~ spoiled' => ParserInv' /\ DeliveredInv'
    BY <1>1, PacketsKept, SpoiledStays DEF RxInv
  <2>3. QED
    BY <2>1, <2>2 DEF RxInv
<1>2. ASSUME RxInv, UNCHANGED receiverVars PROVE RxInv'
  <2>1. OwnerInv'
    BY <1>2 DEF RxInv, OwnerInv, receiverVars, ownerVars
  <2>2. ClientInv'
    BY <1>2, CallClient DEF RxInv, receiverVars, ownerVars
  <2>3. ~ spoiled' => ParserInv' /\ DeliveredInv'
    <3>1. UNCHANGED <<streams, connected, client, taken, pack, packet, delivered, thread, spoiled>>
      BY <1>2 DEF receiverVars, netVars, rxVars, histVars
    <3>2. Received' = Received
      BY <3>1 DEF Received, Ends
    <3>3. DeliveredInv => DeliveredInv'
      BY <3>1, <3>2 DEF DeliveredInv
    <3>4. ASSUME ParserInv PROVE ParserInv'
      <4>1. packet.state = "DONE" => thread' # "aborted"
        BY <3>1, <3>4 DEF ParserInv, PacketInv, Complete
      <4>2. QED
        BY <3>1, <3>4, <4>1, ParserSame
    <3>5. QED
      BY <1>2, <3>1, <3>3, <3>4 DEF RxInv
  <2>4. QED
    BY <2>1, <2>2, <2>3 DEF RxInv
<1>3. QED
  BY <1>1, <1>2

LEMMA ReceiverInvariance == RxSpec => []RxInv
BY RxInvInit, RxInvStep, PTL DEF RxSpec

\* However the bytes are cut into reads, the listener gets each packet once, whole and in
\* order, as long as connections end between packets.
THEOREM ReceivedIntact == RxSpec => []ReceiverInv
<1>1. RxInv => RxTypeOK
  <2>. SUFFICES ASSUME RxInv
                PROVE  RxTypeOK
    OBVIOUS
  <2>1. \A k \in Clients : /\ taken[k].bytes \in 0 .. WordBytes - 1 /\ Unread(k) >= 0
                          /\ k > connected => taken[k] = Nothing
    <3>1. \A k \in Clients : k > connected => k > Begun
      BY VitaAssumption DEF RxInv, ClientInv, NetInv, Begun, Clients
    <3>2. QED
      BY <3>1 DEF RxInv, ClientInv, ReadInv, Position
  <2>2. QED
    BY <2>1 DEF RxInv, OwnerInv, ClientInv, NetInv, ReadInv, TaskInv, RxTypeOK
<1>2. RxInv => PacketsIntact
  BY DEF RxInv, DeliveredInv, PacketsIntact
<1>3. RxInv => ReceiverInv
  BY <1>1, <1>2 DEF ReceiverInv
<1>4. QED
  BY <1>3, ReceiverInvariance, PTL

\* Once stop() has returned nothing is published, unless the socket is always on.
THEOREM StoppedIsQuiet == RxSpec => QuietAfterStop
<1>1. RxInv /\ [RxNext]_receiverVars =>
        [out' # out => d_running \/ owner # "idle" \/ always_on]_receiverVars
  <2>1. ASSUME RxInv, RxNext, out' # out
        PROVE  d_running \/ owner # "idle" \/ always_on
    <3>1. thread = "publish"
      BY <2>1 DEF RxNext, RxTask, OwnerStep, Connect, Loop, Accept, Read, RxTimeOut, ProcessBytes,
                  EndOfData, Fire, Publish, Disconnect, start, stop, OpenBackend, SetRunning,
                  CloseBackend, CloseSocket, Destroy, histVars
    <3>2. QED
      BY <2>1, <3>1 DEF RxInv, OwnerInv
  <2>2. QED
    BY <2>1
<1>2. QED
  BY <1>1, ReceiverInvariance, PTL DEF RxSpec, QuietAfterStop
=============================================================================
