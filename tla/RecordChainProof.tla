-------------------------- MODULE RecordChainProof --------------------------
(***************************************************************************)
(* Theorems about FileMonitor, by itself: what it keeps, copies and        *)
(* removes; and about RecordChain: what the archiver behind it misses and  *)
(* what it keeps.  For any number of files, any names and limits, and any  *)
(* use of both blocks.                                                     *)
(***************************************************************************)
EXTENDS RecordChain, SequenceTheorems, FiniteSetTheorems, TLAPS

(***************************************************************************)
(* The monitor.                                                            *)
(***************************************************************************)
(* Queue q holds the newest of r files, of which d and no others are left. *)
Newest(q, r, d) ==
  /\ q \in Seq(Files)
  /\ Len(q) <= r
  /\ \A i \in 1 .. Len(q) : q[i] = r - Len(q) + i
  /\ Members(q) \subseteq d
  /\ d \cap 1 .. r \subseteq Members(q)

(* What is not removed yet, while stop() runs too; files announced but not *)
(* received are where the sink wrote them.                                 *)
KeptInv ==
  /\ Newest(fileQueue, received, disk)
  /\ received + 1 .. announced \subseteq disk

(* The limit holds but where set_nfiles is at work.                        *)
LimitInv ==
  scriptPc \in {"idle", "copy_on", "copy_off"} => Len(fileQueue) <= nfilesMax

StopInv == blockPc \in {"stopped", "raised"} => fileQueue = << >>

CopyInv ==
  /\ scriptPc = "copy_off" => ~copy
  /\ CopyNotForgotten

IInv == TypeOK /\ KeptInv /\ LimitInv /\ StopInv /\ CopyInv

-----------------------------------------------------------------------------
(* A file that is announced next to the queue's last one joins it.         *)
LEMMA AppendNewest ==
  ASSUME NEW q, NEW r \in Nat, NEW d, Newest(q, r, d),
         r + 1 \in Files, r + 1 \in d
  PROVE  LET p == Append(q, r + 1) IN
         /\ Newest(p, r + 1, d)
         /\ Len(p) = Len(q) + 1
         /\ Members(p) = Members(q) \cup {r + 1}
<1> DEFINE p == Append(q, r + 1)
<1>1. /\ p \in Seq(Files)
      /\ Len(q) \in Nat /\ Len(p) = Len(q) + 1
      /\ \A i \in 1 .. Len(q) : p[i] = q[i]
      /\ p[Len(q) + 1] = r + 1
  BY AppendProperties, LenProperties DEF Newest
<1> HIDE DEF p
<1>2. Members(p) = Members(q) \cup {r + 1}
  BY <1>1 DEF Members
<1>3. \A i \in 1 .. Len(p) : p[i] = (r + 1) - Len(p) + i
  <2> SUFFICES ASSUME NEW i \in 1 .. Len(p)
               PROVE  p[i] = (r + 1) - Len(p) + i
    OBVIOUS
  <2>1. CASE i = Len(q) + 1
    BY <1>1, <2>1
  <2>2. CASE i \in 1 .. Len(q)
    BY <1>1, <2>2 DEF Newest
  <2>3. QED
    BY <1>1, <2>1, <2>2
<1>4. d \cap 1 .. (r + 1) \subseteq Members(p)
  BY <1>2 DEF Newest
<1>5. Newest(p, r + 1, d)
  BY <1>1, <1>2, <1>3, <1>4 DEF Newest
<1>6. QED
  BY <1>1, <1>2, <1>5 DEF p

(* When the oldest file is removed, the queue holds the newest still.      *)
LEMMA TailNewest ==
  ASSUME NEW q, NEW r \in Nat, NEW d, Newest(q, r, d), q # << >>
  PROVE  /\ Newest(Tail(q), r, d \ {Head(q)})
         /\ Len(Tail(q)) = Len(q) - 1
         /\ Members(Tail(q)) \subseteq Members(q)
         /\ Head(q) \in 1 .. r
<1> DEFINE p == Tail(q)
<1>1. /\ p \in Seq(Files)
      /\ Len(q) \in Nat \ {0} /\ Len(p) = Len(q) - 1
      /\ \A i \in 1 .. Len(p) : p[i] = q[i + 1]
  BY HeadTailProperties, EmptySeq DEF Newest
<1>2. Head(q) = q[1]
  BY DEF Newest
<1> HIDE DEF p
<1>3. Head(q) = r - Len(q) + 1
  BY <1>1, <1>2 DEF Newest
<1>4. \A i \in 1 .. Len(p) : p[i] = r - Len(p) + i
  BY <1>1 DEF Newest
<1>5. Members(q) = Members(p) \cup {Head(q)}
  <2>1. \A i \in 1 .. Len(p) : i + 1 \in 1 .. Len(q) /\ p[i] = q[i + 1]
    BY <1>1
  <2>2. \A i \in 1 .. Len(q) : i = 1 \/ (i - 1 \in 1 .. Len(p) /\ q[i] = p[i - 1])
    BY <1>1
  <2>3. Members(p) \subseteq Members(q)
    BY <2>1 DEF Members
  <2>4. Members(q) \subseteq Members(p) \cup {Head(q)}
    BY <1>2, <2>2 DEF Members
  <2>5. Head(q) \in Members(q)
    BY <1>1, <1>2 DEF Members
  <2>6. QED
    BY <2>3, <2>4, <2>5
<1>6. Head(q) \notin Members(p)
  BY <1>1, <1>3, <1>4 DEF Members
<1>7. Newest(p, r, d \ {Head(q)})
  BY <1>1, <1>4, <1>5, <1>6 DEF Newest
<1>8. QED
  BY <1>1, <1>3, <1>5, <1>7 DEF p, Newest

(* The first element, and the others.                                      *)
LEMMA TailMembers ==
  ASSUME NEW q \in Seq(Files), q # << >>
  PROVE  /\ Tail(q) \in Seq(Files)
         /\ Head(q) \in Files
         /\ Members(q) \subseteq Members(Tail(q)) \cup {Head(q)}
<1>1. /\ Tail(q) \in Seq(Files) /\ Head(q) \in Files
      /\ Len(q) \in Nat \ {0} /\ Len(Tail(q)) = Len(q) - 1
      /\ \A i \in 1 .. Len(Tail(q)) : Tail(q)[i] = q[i + 1]
  BY HeadTailProperties, EmptySeq
<1>2. Head(q) = q[1]
  OBVIOUS
<1>3. \A i \in 1 .. Len(q) :
        i = 1 \/ (i - 1 \in 1 .. Len(Tail(q)) /\ q[i] = Tail(q)[i - 1])
  BY <1>1
<1>4. QED
  BY <1>1, <1>2, <1>3 DEF Members

-----------------------------------------------------------------------------
LEMMA InitInv == Init => IInv
<1> SUFFICES ASSUME Init PROVE IInv
  OBVIOUS
<1> USE MonitorAssumption DEF Init
<1>1. << >> \in Seq(Files) /\ Len(<< >>) = 0
  BY EmptySeq
<1>2. TypeOK
  <2>1. copy \in BOOLEAN /\ stopCalled \in BOOLEAN
    OBVIOUS
  <2>2. flushing \in IF flushPc = "copy" THEN Files ELSE {0}
    OBVIOUS
  <2>3. QED
    BY <1>1, <2>1, <2>2 DEF TypeOK
<1>3. Members(fileQueue) = {}
  BY <1>1 DEF Members
<1>4. KeptInv
  BY <1>1, <1>3 DEF KeptInv, Newest
<1>5. LimitInv /\ StopInv /\ CopyInv
  BY <1>1, <1>3 DEF LimitInv, StopInv, CopyInv, CopyNotForgotten
<1>6. QED
  BY <1>2, <1>4, <1>5 DEF IInv

(* The sink announces a file.                                              *)
LEMMA AnnounceInv ==
  ASSUME IInv, Announce
  PROVE  IInv'
<1> USE MonitorAssumption DEF IInv, Announce, queueVars, callVars, flushVars
<1>1. /\ announced \in Nat /\ received \in Nat /\ received <= announced
      /\ announced + 1 \in Files
  BY DEF TypeOK, Files
<1>2. TypeOK'
  BY <1>1 DEF TypeOK
<1>3. KeptInv'
  <2>1. received + 1 .. announced + 1 \subseteq disk \cup {announced + 1}
    BY <1>1 DEF KeptInv
  <2>2. (disk \cup {announced + 1}) \cap 1 .. received = disk \cap 1 .. received
    BY <1>1
  <2>3. Newest(fileQueue, received, disk \cup {announced + 1})
    BY <2>2 DEF KeptInv, Newest
  <2>4. QED
    BY <2>1, <2>3 DEF KeptInv
<1>4. LimitInv' /\ StopInv' /\ CopyInv'
  BY DEF LimitInv, StopInv, CopyInv, CopyNotForgotten
<1>5. QED
  BY <1>2, <1>3, <1>4

(* The handler adds a file, and removes one when they are too many.        *)
LEMMA HandlerInv ==
  ASSUME IInv, Handler
  PROVE  IInv'
<1> DEFINE fname == received + 1
           queue == Append(fileQueue, fname)
<1> USE MonitorAssumption DEF IInv, callVars, flushVars
<1>1. /\ received \in Nat /\ announced \in Nat /\ fname \in Files
      /\ fname \in disk /\ received' = fname
      /\ received < announced /\ announced' = announced
  BY DEF Handler, TypeOK, Files, KeptInv
<1>2. /\ Newest(queue, fname, disk)
      /\ Len(queue) = Len(fileQueue) + 1
      /\ Members(queue) = Members(fileQueue) \cup {fname}
  BY <1>1, AppendNewest DEF KeptInv
<1>3. nfilesMax \in Nat \ {0} /\ Len(queue) \in Nat
  BY <1>2, LenProperties DEF TypeOK, Newest
<1>4. /\ Newest(fileQueue', received', disk')
      /\ Members(fileQueue') \subseteq Members(queue)
      /\ Len(fileQueue') = IF Excess(queue) THEN Len(fileQueue) ELSE Len(queue)
      /\ disk' = disk \/ \E f \in 1 .. fname : disk' = disk \ {f}
  <2>1. CASE Excess(queue)
    <3>1. queue # << >>
      BY <1>3, <2>1, EmptySeq DEF Excess
    <3>2. fileQueue' = Tail(queue) /\ disk' = disk \ {Head(queue)}
      BY <2>1 DEF Handler, RemoveOldest, Left
    <3> HIDE DEF queue
    <3>3. /\ Newest(Tail(queue), fname, disk \ {Head(queue)})
          /\ Len(Tail(queue)) = Len(queue) - 1
          /\ Members(Tail(queue)) \subseteq Members(queue)
          /\ Head(queue) \in 1 .. fname
      <4>1. fname \in Nat
        BY <1>1
      <4> HIDE DEF fname
      <4>2. QED
        BY <1>2, <3>1, <4>1, TailNewest
    <3>4. Len(fileQueue) \in Nat
      BY LenProperties DEF KeptInv, Newest
    <3>5. QED
      BY <1>1, <1>2, <2>1, <3>2, <3>3, <3>4
  <2>2. CASE ~Excess(queue)
    BY <1>1, <1>2, <2>2 DEF Handler
  <2>3. QED
    BY <2>1, <2>2
<1>5. copyQueue' \in Seq(Files)
      /\ (copy => Members(copyQueue') = Members(copyQueue) \cup {fname})
  <2>1. CASE ~copy
    BY <2>1 DEF Handler, TypeOK
  <2>2. CASE copy
    <3>1. copyQueue' = Append(copyQueue, fname)
      BY <2>2 DEF Handler
    <3>2. /\ copyQueue' \in Seq(Files)
          /\ Len(copyQueue) \in Nat /\ Len(copyQueue') = Len(copyQueue) + 1
          /\ \A i \in 1 .. Len(copyQueue) : copyQueue'[i] = copyQueue[i]
          /\ copyQueue'[Len(copyQueue) + 1] = fname
      BY <1>1, <3>1, AppendProperties, LenProperties DEF TypeOK
    <3>3. QED
      BY <3>2 DEF Members
  <2>3. QED
    BY <2>1, <2>2
<1> HIDE DEF queue
<1>6. TypeOK'
  <2>1. disk' \subseteq Files /\ fileQueue' \in Seq(Files)
    BY <1>4 DEF TypeOK, Newest
  <2>2. QED
    BY <1>1, <1>5, <2>1 DEF Handler, TypeOK
<1>7. KeptInv'
  BY <1>1, <1>4 DEF KeptInv
<1>8. LimitInv'
  <2>1. Len(fileQueue) \in Nat
    BY LenProperties DEF TypeOK
  <2>2. QED
    BY <1>2, <1>3, <1>4, <2>1 DEF LimitInv, Handler, Excess
<1>9. StopInv'
  BY DEF StopInv, Handler
<1>10. CopyInv'
  BY <1>2, <1>4, <1>5 DEF CopyInv, CopyNotForgotten, Handler
<1>11. QED
  BY <1>6, <1>7, <1>8, <1>9, <1>10

(* stop() or set_nfiles removes the oldest file.                           *)
LEMMA RemoveInv ==
  ASSUME IInv, fileQueue # << >>, RemoveOldest(fileQueue),
         UNCHANGED << announced, output, received, copyQueue, callVars, stopCalled,
                      flushVars >>,
         blockPc' = blockPc \/ blockPc' = "clear",
         scriptPc' = scriptPc \/ (scriptPc = "trim_pop" /\ scriptPc' = "trim")
  PROVE  IInv'
<1> USE DEF IInv, callVars, flushVars
<1>1. received \in Nat
  BY DEF TypeOK
<1>2. fileQueue' = Tail(fileQueue) /\ disk' = disk \ {Head(fileQueue)}
  BY DEF RemoveOldest, Left
<1>3. /\ Newest(fileQueue', received, disk')
      /\ Len(fileQueue') = Len(fileQueue) - 1
      /\ Members(fileQueue') \subseteq Members(fileQueue)
      /\ Head(fileQueue) \in 1 .. received
  BY <1>1, <1>2, TailNewest DEF KeptInv
<1>4. TypeOK'
  <2>1. disk' \subseteq Files /\ fileQueue' \in Seq(Files)
    BY <1>2, <1>3 DEF TypeOK, Newest
  <2>2. QED
    BY <2>1 DEF TypeOK
<1>5. KeptInv'
  BY <1>1, <1>2, <1>3 DEF KeptInv
<1>6. LimitInv'
  <2>1. Len(fileQueue) \in Nat /\ nfilesMax \in Nat
    BY MonitorAssumption, LenProperties DEF TypeOK
  <2>2. QED
    BY <1>3, <2>1 DEF LimitInv
<1>7. StopInv'
  BY DEF StopInv
<1>8. CopyInv'
  BY <1>3 DEF CopyInv, CopyNotForgotten, TypeOK
<1>9. QED
  BY <1>4, <1>5, <1>6, <1>7, <1>8

(* Steps that leave the files and the queue of those that are kept alone.  *)
LEMMA QuietInv ==
  ASSUME IInv, TypeOK',
         UNCHANGED << announced, disk, received, fileQueue, nfilesMax >>,
         blockPc' = blockPc
           \/ blockPc' \in {"join", "clear", "clear_pop"}
           \/ (blockPc' \in {"stopped", "raised"} /\ fileQueue = << >>),
         blockPc' = "running" => blockPc = "running",
         scriptPc' \in {"idle", "copy_on", "copy_off"} =>
           \/ scriptPc \in {"idle", "copy_on", "copy_off"}
           \/ Len(fileQueue) <= nfilesMax,
         CopyInv'
  PROVE  IInv'
<1>1. KeptInv'
  BY DEF IInv, KeptInv
<1>2. LimitInv'
  BY DEF IInv, LimitInv
<1>3. StopInv'
  BY DEF IInv, StopInv
<1>4. QED
  BY <1>1, <1>2, <1>3 DEF IInv

(* The block's thread stops.                                               *)
LEMMA StopInvariance ==
  ASSUME IInv, Stop \/ StopJoin \/ StopClear \/ StopRemove
  PROVE  IInv'
<1> USE DEF fileVars, queueVars, callVars, flushVars
<1>1. CASE Stop
  <2>1. TypeOK'
    BY <1>1 DEF IInv, TypeOK, Stop
  <2>2. CopyInv'
    BY <1>1 DEF IInv, CopyInv, CopyNotForgotten, Stop
  <2>3. QED
    BY <1>1, <2>1, <2>2, QuietInv DEF Stop
<1>2. CASE StopJoin
  <2>1. TypeOK'
    BY <1>2 DEF IInv, TypeOK, StopJoin
  <2>2. CopyInv'
    BY <1>2 DEF IInv, CopyInv, CopyNotForgotten, StopJoin
  <2>3. QED
    BY <1>2, <2>1, <2>2, QuietInv DEF StopJoin
<1>3. CASE StopClear
  <2>1. TypeOK'
    BY <1>3 DEF IInv, TypeOK, StopClear
  <2>2. CopyInv'
    BY <1>3 DEF IInv, CopyInv, CopyNotForgotten, StopClear
  <2>3. QED
    BY <1>3, <2>1, <2>2, QuietInv DEF StopClear, NoneLeft
<1>4. CASE StopRemove
  <2>1. CASE fileQueue = << >>
    <3>1. TypeOK'
      BY <1>4, <2>1 DEF IInv, TypeOK, StopRemove
    <3>2. CopyInv'
      BY <1>4, <2>1 DEF IInv, CopyInv, CopyNotForgotten, StopRemove
    <3>3. QED
      BY <1>4, <2>1, <3>1, <3>2, QuietInv DEF StopRemove
  <2>2. CASE fileQueue # << >>
    BY <1>4, <2>2, RemoveInv DEF StopRemove
  <2>3. QED
    BY <2>1, <2>2
<1>5. QED
  BY <1>1, <1>2, <1>3, <1>4

(* The script turns copying on or off.                                     *)
LEMMA SetCopyInv ==
  ASSUME IInv, SetCopyOn \/ SetCopyOff \/ CopyOn \/ CopyOnRaises \/ CopyOff
  PROVE  IInv'
<1> USE MonitorAssumption DEF fileVars, queueVars, callVars, flushVars, Call
<1>1. CASE SetCopyOn
  <2>1. TypeOK'
    BY <1>1 DEF IInv, TypeOK, SetCopyOn
  <2>2. CopyInv'
    BY <1>1 DEF IInv, CopyInv, CopyNotForgotten, SetCopyOn
  <2>3. QED
    BY <1>1, <2>1, <2>2, QuietInv DEF SetCopyOn
<1>2. CASE SetCopyOff
  <2>1. TypeOK'
    <3>1. copy' = FALSE /\ scriptPc' = "copy_off" /\ calls < MaxCalls
          /\ calls' = calls + 1 /\ UNCHANGED nfilesMax
      BY <1>2 DEF SetCopyOff
    <3>2. UNCHANGED << fileVars, received, queueVars, stopCalled, blockPc, flushVars >>
      BY <1>2 DEF SetCopyOff
    <3>3. copy' \in BOOLEAN
      BY <3>1
    <3>4. calls' \in 0 .. MaxCalls
      BY <3>1 DEF IInv, TypeOK
    <3>5. QED
      BY <3>1, <3>2, <3>3, <3>4 DEF IInv, TypeOK
  <2>2. CopyInv'
    BY <1>2 DEF IInv, CopyInv, CopyNotForgotten, SetCopyOff
  <2>3. QED
    BY <1>2, <2>1, <2>2, QuietInv DEF SetCopyOff
<1>3. CASE CopyOn
  <2>1. TypeOK'
    BY <1>3 DEF IInv, TypeOK, CopyOn, CurrentData
  <2>2. CopyInv'
    BY <1>3 DEF IInv, CopyInv, CopyNotForgotten, CopyOn, CurrentData
  <2>3. QED
    BY <1>3, <2>1, <2>2, QuietInv DEF CopyOn
<1>4. CASE CopyOnRaises
  <2>1. TypeOK'
    BY <1>4 DEF IInv, TypeOK, CopyOnRaises
  <2>2. CopyInv'
    BY <1>4 DEF IInv, CopyInv, CopyNotForgotten, CopyOnRaises
  <2>3. QED
    BY <1>4, <2>1, <2>2, QuietInv DEF CopyOnRaises
<1>5. CASE CopyOff
  <2>1. TypeOK'
    BY <1>5, EmptySeq DEF IInv, TypeOK, CopyOff
  <2>2. CopyInv'
    BY <1>5 DEF IInv, CopyInv, CopyNotForgotten, CopyOff
  <2>3. QED
    BY <1>5, <2>1, <2>2, QuietInv DEF CopyOff
<1>6. QED
  BY <1>1, <1>2, <1>3, <1>4, <1>5

(* The script sets the limit; files beyond it are removed one by one.      *)
LEMMA SetNfilesInv ==
  ASSUME IInv, (\E n \in NFilesChoices : SetNfiles(n)) \/ Lock \/ Trim \/ TrimRemove
  PROVE  IInv'
<1> USE MonitorAssumption DEF fileVars, queueVars, callVars, flushVars
<1>1. CASE \E n \in NFilesChoices : SetNfiles(n)
  <2> USE <1>1 DEF SetNfiles, Call, IInv
  <2>1. TypeOK'
    BY DEF TypeOK
  <2>2. KeptInv' /\ StopInv'
    BY DEF KeptInv, StopInv
  <2>3. LimitInv' /\ CopyInv'
    BY DEF LimitInv, CopyInv, CopyNotForgotten
  <2>4. QED
    BY <2>1, <2>2, <2>3
<1>2. CASE Lock
  <2>1. TypeOK'
    BY <1>2 DEF IInv, TypeOK, Lock
  <2>2. CopyInv'
    BY <1>2 DEF IInv, CopyInv, CopyNotForgotten, Lock
  <2>3. QED
    BY <1>2, <2>1, <2>2, QuietInv DEF Lock
<1>3. CASE Trim
  <2>1. TypeOK'
    BY <1>3 DEF IInv, TypeOK, Trim
  <2>2. CopyInv'
    BY <1>3 DEF IInv, CopyInv, CopyNotForgotten, Trim
  <2>3. ~Excess(fileQueue) => Len(fileQueue) <= nfilesMax
    BY LenProperties DEF IInv, TypeOK, Excess
  <2>4. QED
    BY <1>3, <2>1, <2>2, <2>3, QuietInv DEF Trim
<1>4. CASE TrimRemove
  <2>1. CASE fileQueue = << >>
    <3>1. TypeOK'
      BY <1>4, <2>1 DEF IInv, TypeOK, TrimRemove
    <3>2. CopyInv'
      BY <1>4, <2>1 DEF IInv, CopyInv, CopyNotForgotten, TrimRemove
    <3>3. QED
      BY <1>4, <2>1, <3>1, <3>2, QuietInv DEF TrimRemove
  <2>2. CASE fileQueue # << >>
    BY <1>4, <2>2, RemoveInv DEF TrimRemove
  <2>3. QED
    BY <2>1, <2>2
<1>5. QED
  BY <1>1, <1>2, <1>3, <1>4

(* The flusher takes a file and copies it.                                 *)
LEMMA FlushInv ==
  ASSUME IInv, FlushStep
  PROVE  IInv'
<1> USE DEF fileVars, queueVars, callVars, flushVars
<1>1. CASE FlushEnd \/ FlushCheck
  <2>1. TypeOK'
    BY <1>1 DEF IInv, TypeOK, FlushEnd, FlushCheck
  <2>2. CopyInv'
    BY <1>1 DEF IInv, CopyInv, CopyNotForgotten, FlushEnd, FlushCheck
  <2>3. QED
    BY <1>1, <2>1, <2>2, QuietInv DEF FlushEnd, FlushCheck
<1>2. CASE FlushPop
  <2>1. CASE copyQueue = << >>
    <3>1. TypeOK'
      BY <1>2, <2>1 DEF IInv, TypeOK, FlushPop
    <3>2. CopyInv'
      BY <1>2, <2>1 DEF IInv, CopyInv, CopyNotForgotten, FlushPop
    <3>3. QED
      BY <1>2, <2>1, <3>1, <3>2, QuietInv DEF FlushPop
  <2>2. CASE copyQueue # << >>
    <3>1. /\ Tail(copyQueue) \in Seq(Files)
          /\ Head(copyQueue) \in Files
          /\ Members(copyQueue) \subseteq Members(Tail(copyQueue)) \cup {Head(copyQueue)}
      BY <2>2, TailMembers DEF IInv, TypeOK
    <3>2. /\ copyQueue' = Tail(copyQueue) /\ flushing' = Head(copyQueue)
          /\ flushPc = "pop" /\ flushPc' = "copy"
          /\ UNCHANGED << fileVars, received, fileQueue, callVars, stopCalled, blockPc,
                          scriptPc >>
      BY <1>2, <2>2 DEF FlushPop
    <3>3. TypeOK'
      BY <3>1, <3>2 DEF IInv, TypeOK
    <3>4. 0 \notin Members(fileQueue)
      BY DEF IInv, TypeOK, KeptInv, Newest, Files
    <3>5. flushing = 0
      BY <3>2 DEF IInv, TypeOK
    <3>6. CopyInv'
      BY <3>1, <3>2, <3>4, <3>5 DEF IInv, CopyInv, CopyNotForgotten
    <3>7. QED
      BY <3>2, <3>3, <3>6, QuietInv
  <2>3. QED
    BY <2>1, <2>2
<1>3. CASE FlushCopy
  <2>1. TypeOK'
    BY <1>3 DEF IInv, TypeOK, FlushCopy
  <2>2. Members(fileQueue) \subseteq disk
    BY DEF IInv, KeptInv, Newest
  <2>3. CopyInv'
    BY <1>3, <2>2 DEF IInv, CopyInv, CopyNotForgotten, FlushCopy
  <2>4. QED
    BY <1>3, <2>1, <2>3, QuietInv DEF FlushCopy
<1>4. QED
  BY <1>1, <1>2, <1>3 DEF FlushStep

LEMMA NextInv == IInv /\ [Next]_vars => IInv'
<1> SUFFICES ASSUME IInv, [Next]_vars PROVE IInv'
  OBVIOUS
<1>1. CASE UNCHANGED vars
  BY <1>1 DEF vars, fileVars, queueVars, callVars, flushVars, IInv, TypeOK, KeptInv,
              Newest, LimitInv, StopInv, CopyInv, CopyNotForgotten
<1>2. CASE Next
  BY <1>2, AnnounceInv, HandlerInv, StopInvariance, SetCopyInv, SetNfilesInv, FlushInv
  DEF Next, BlockStep, ScriptStep
<1>3. QED
  BY <1>1, <1>2

-----------------------------------------------------------------------------
(* The invariant holds in every reachable state.                           *)
THEOREM Invariance == Spec => []IInv
<1>1. QED
  BY InitInv, NextInv, PTL DEF Spec

(* The variables of the monitor keep their types.                          *)
THEOREM TypeCorrect == Spec => []TypeOK
<1>1. IInv => TypeOK
  BY DEF IInv
<1>2. QED
  BY <1>1, Invariance, PTL

(* What the invariant says of the queue, of stop() and of copying.         *)
LEMMA InvSafe ==
  ASSUME IInv
  PROVE  RetentionBound /\ RetainsNewest /\ StoppedClean /\ CopyNotForgotten
<1>1. RetentionBound /\ CopyNotForgotten
  BY DEF IInv, LimitInv, RetentionBound, CopyInv
<1>2. RetainsNewest
  <2>1. /\ Members(fileQueue) \subseteq disk
        /\ \A i \in 1 .. Len(fileQueue) : fileQueue[i] = received - Len(fileQueue) + i
        /\ fileQueue \in [1 .. Len(fileQueue) -> Files]
    BY LenProperties DEF IInv, KeptInv, Newest
  <2>2. fileQueue = [i \in 1 .. Len(fileQueue) |-> received - Len(fileQueue) + i]
    BY <2>1
  <2>3. QED
    BY <2>1, <2>2 DEF RetainsNewest
<1>3. StoppedClean
  <2> SUFFICES ASSUME blockPc \in {"stopped", "raised"}
               PROVE  disk \cap 1 .. received = {}
    BY DEF StoppedClean
  <2>1. fileQueue = << >>
    BY DEF IInv, StopInv
  <2>2. Members(fileQueue) = {}
    BY <2>1, EmptySeq DEF Members
  <2>3. QED
    BY <2>2 DEF IInv, KeptInv, Newest
<1>4. QED
  BY <1>1, <1>2, <1>3

(* Between two calls of the setters the monitor keeps no more files than   *)
(* the limit, whatever the handler and set_nfiles do to each other.        *)
THEOREM RetentionCorrect == Spec => []RetentionBound
BY InvSafe, Invariance, PTL

(* What the running monitor keeps are the newest files it was told of,     *)
(* without a gap, and they are where the sink wrote them.                  *)
THEOREM NewestCorrect == Spec => []RetainsNewest
BY InvSafe, Invariance, PTL

(* When stop() is over no file that was received is left behind.           *)
THEOREM StopCorrect == Spec => []StoppedClean
BY InvSafe, Invariance, PTL

(* While copying is on, no file that is kept is forgotten.                 *)
THEOREM CopyCorrect == Spec => []CopyNotForgotten
BY InvSafe, Invariance, PTL

(***************************************************************************)
(* What the archiver missed.                                                *)
(***************************************************************************)
\* How many files the monitor has received and removed.
Removed == received - Len(fileQueue)

ChainInv ==
  IInv /\ handled \in Nat /\ handled <= announced /\ missed \subseteq Nat /\ MissedWereRemoved

\* The numbers of IInv.
LEMMA Counts ==
  ASSUME IInv
  PROVE  /\ announced \in Nat /\ received \in Nat /\ received <= announced
         /\ fileQueue \in Seq(Files) /\ Len(fileQueue) \in Nat /\ Removed \in Int
BY MonitorAssumption, LenProperties DEF IInv, TypeOK, Removed

\* The queue loses only its oldest files, so that what was removed stays removed.
LEMMA RemovedGrows ==
  ASSUME IInv, [Next]_vars
  PROVE  Removed <= Removed'
<1> USE DEF fileVars, queueVars, callVars, flushVars
<1>1. /\ received \in Nat /\ fileQueue \in Seq(Files) /\ Len(fileQueue) \in Nat /\ Removed \in Int
  BY Counts
<1>2. ASSUME UNCHANGED <<received, fileQueue>>
      PROVE  Removed <= Removed'
  BY <1>1, <1>2 DEF Removed
<1>3. ASSUME NEW queue \in Seq(Files), queue # <<>>, RemoveOldest(queue),
             Len(queue) - received' <= Len(fileQueue) - received, received' \in Nat
      PROVE  Removed <= Removed'
  <2>1. fileQueue' = Tail(queue) /\ Len(Tail(queue)) = Len(queue) - 1 /\ Len(queue) \in Nat
    BY <1>3, HeadTailProperties, LenProperties DEF RemoveOldest, Left
  <2>2. QED
    BY <1>1, <1>3, <2>1 DEF Removed
<1>4. CASE Handler
  <2> DEFINE queue == Append(fileQueue, received + 1)
  <2>1. received + 1 \in Files /\ received' = received + 1
    BY <1>4, Counts, MonitorAssumption DEF Handler, Files, IInv, TypeOK
  <2>2. queue \in Seq(Files) /\ queue # <<>> /\ Len(queue) = Len(fileQueue) + 1
    BY <1>1, <2>1, AppendProperties
  <2>3. CASE Excess(queue)
    <3>1. RemoveOldest(queue)
      BY <1>4, <2>3 DEF Handler
    <3>2. Len(queue) - received' <= Len(fileQueue) - received
      BY <1>1, <2>1, <2>2
    <3> HIDE DEF queue
    <3>3. QED
      BY <1>1, <1>3, <2>1, <2>2, <3>1, <3>2
  <2>4. CASE ~Excess(queue)
    <3>1. fileQueue' = queue
      BY <1>4, <2>4 DEF Handler
    <3>2. QED
      BY <1>1, <2>1, <2>2, <3>1 DEF Removed
  <2>5. QED
    BY <2>3, <2>4
<1>5. CASE StopRemove \/ TrimRemove
  <2>1. CASE fileQueue = <<>>
    BY <1>2, <1>5, <2>1 DEF StopRemove, TrimRemove
  <2>2. CASE fileQueue # <<>>
    <3>1. RemoveOldest(fileQueue) /\ received' = received
      BY <1>5, <2>2 DEF StopRemove, TrimRemove
    <3>2. QED
      BY <1>1, <1>3, <2>2, <3>1
  <2>3. QED
    BY <2>1, <2>2
<1>6. CASE Announce \/ Stop \/ StopJoin \/ StopClear
  BY <1>2, <1>6 DEF Announce, Stop, StopJoin, StopClear
<1>7. CASE SetCopyOn \/ SetCopyOff \/ (\E n \in NFilesChoices : SetNfiles(n))
  BY <1>2, <1>7 DEF SetCopyOn, SetCopyOff, SetNfiles, Call
<1>8. CASE CopyOn \/ CopyOnRaises \/ CopyOff \/ Lock \/ Trim
  BY <1>2, <1>8 DEF CopyOn, CopyOnRaises, CopyOff, Lock, Trim
<1>9. CASE FlushStep
  BY <1>2, <1>9 DEF FlushStep, FlushEnd, FlushCheck, FlushPop, FlushCopy
<1>10. CASE UNCHANGED vars
  BY <1>2, <1>10 DEF vars
<1>11. QED
  BY <1>4, <1>5, <1>6, <1>7, <1>8, <1>9, <1>10 DEF Next, BlockStep, ScriptStep

\* Files are only added to those announced.
LEMMA AnnouncedGrows ==
  ASSUME IInv, [Next]_vars
  PROVE  announced <= announced'
BY Counts DEF Next, BlockStep, ScriptStep, FlushStep, Announce, Handler, Stop, StopJoin,
   StopClear, StopRemove, SetCopyOn, SetCopyOff, SetNfiles, Call, CopyOn, CopyOnRaises,
   CopyOff, Lock, Trim, TrimRemove, FlushEnd, FlushCheck, FlushPop, FlushCopy, vars,
   fileVars

\* A file that is not where it was written is one that the monitor removed.
LEMMA AbsentRemoved ==
  ASSUME IInv, NEW f \in Nat, f >= 1, f <= announced, f \notin disk
  PROVE  f <= Removed
<1>1. /\ \A i \in 1 .. Len(fileQueue) : fileQueue[i] = received - Len(fileQueue) + i
      /\ Members(fileQueue) \subseteq disk /\ received + 1 .. announced \subseteq disk
      /\ Len(fileQueue) <= received
  BY DEF IInv, KeptInv, Newest
<1>2. f <= received
  BY <1>1, Counts
<1>3. ASSUME f > Removed
      PROVE  FALSE
  <2> DEFINE i == f - Removed
  <2>1. i \in 1 .. Len(fileQueue) /\ f = received - Len(fileQueue) + i
    BY <1>2, <1>3, Counts DEF Removed
  <2>2. f \in Members(fileQueue)
    BY <1>1, <2>1 DEF Members
  <2>3. QED
    BY <1>1, <2>2
<1>4. QED
  BY <1>3, Counts

LEMMA ChainInvInit == ChainInit => ChainInv
<1> SUFFICES ASSUME ChainInit PROVE ChainInv
  OBVIOUS
<1>1. IInv
  BY InitInv DEF ChainInit
<1>2. handled = 0 /\ missed = {}
  BY DEF ChainInit, ArchiverInit
<1>3. QED
  BY <1>1, <1>2, Counts DEF ChainInv, MissedWereRemoved

LEMMA ChainInvStep == ChainInv /\ [ChainNext]_chainVars => ChainInv'
<1> SUFFICES ASSUME ChainInv, [ChainNext]_chainVars
             PROVE  ChainInv'
  OBVIOUS
<1>1. /\ IInv /\ handled \in Nat /\ handled <= announced /\ missed \subseteq Nat
      /\ \A f \in missed : f <= Removed
  BY DEF ChainInv, MissedWereRemoved, Removed
<1>2. announced \in Nat /\ Removed \in Int
  BY <1>1, Counts
<1>3. CASE [Next]_vars /\ UNCHANGED archiverVars
  <2>1. IInv' /\ Removed <= Removed' /\ announced <= announced'
    BY <1>1, <1>3, NextInv, RemovedGrows, AnnouncedGrows
  <2>2. announced' \in Nat /\ Removed' \in Int
    BY <2>1, MonitorAssumption, LenProperties DEF IInv, TypeOK, Removed
  <2>3. \A f \in missed' : f <= Removed'
    BY <1>1, <1>2, <1>3, <2>1, <2>2 DEF archiverVars
  <2>4. handled' \in Nat /\ handled' <= announced' /\ missed' \subseteq Nat
    BY <1>1, <1>2, <1>3, <2>1, <2>2 DEF archiverVars
  <2>5. QED
    BY <2>1, <2>3, <2>4 DEF ChainInv, MissedWereRemoved, Removed
\* Steps of the archiver: the monitor's variables stay but for the count of calls.
<1>4. ASSUME UNCHANGED <<fileVars, received, queueVars, copy, nfilesMax, stopCalled,
                         blockPc, scriptPc, flushVars>>,
             calls' \in 0 .. MaxCalls
      PROVE  IInv' /\ Removed' = Removed /\ announced' = announced
  <2> USE <1>1, <1>4 DEF fileVars, queueVars, flushVars
  <2>1. TypeOK'
    BY DEF IInv, TypeOK
  <2>2. KeptInv' /\ LimitInv' /\ StopInv' /\ CopyInv'
    BY DEF IInv, KeptInv, LimitInv, StopInv, CopyInv, CopyNotForgotten, Newest, Members
  <2>3. QED
    BY <2>1, <2>2 DEF IInv, Removed
<1>5. CASE ArchiveNext
  <2>1. IInv' /\ Removed' = Removed /\ announced' = announced
    BY <1>1, <1>4, <1>5 DEF ArchiveNext, monitorVars, callVars, IInv, TypeOK
  <2>2. handled' = handled + 1 /\ handled < announced
        /\ missed' \in {missed, missed \union {handled + 1}}
        /\ (missed' = missed \/ handled + 1 \notin disk)
    BY <1>5 DEF ArchiveNext, Archive
  <2>3. handled + 1 \notin disk => handled + 1 <= Removed
    BY <1>1, <1>2, <2>2, AbsentRemoved
  <2>4. handled' \in Nat /\ handled' <= announced' /\ missed' \subseteq Nat
    BY <1>1, <1>2, <2>1, <2>2
  <2>5. \A f \in missed' : f <= Removed'
    BY <1>1, <2>1, <2>2, <2>3
  <2>6. QED
    BY <2>1, <2>4, <2>5 DEF ChainInv, MissedWereRemoved, Removed
<1>6. CASE SetArchive \/ (TakeAway /\ UNCHANGED monitorVars)
  <2>1. IInv' /\ Removed' = Removed /\ announced' = announced
    <3>1. CASE SetArchive
      <4>1. calls' \in 0 .. MaxCalls
        BY <1>1, <3>1, MonitorAssumption DEF SetArchive, IInv, TypeOK
      <4>2. QED
        BY <1>4, <3>1, <4>1 DEF SetArchive
    <3>2. CASE TakeAway /\ UNCHANGED monitorVars
      BY <1>1, <1>4, <3>2 DEF monitorVars, callVars, IInv, TypeOK
    <3>3. QED
      BY <1>6, <3>1, <3>2
  <2>2. handled' = handled /\ missed' = missed
    BY <1>6 DEF SetArchive, set_archive, TakeAway
  <2>3. QED
    BY <1>1, <2>1, <2>2 DEF ChainInv, MissedWereRemoved, Removed
<1>7. CASE UNCHANGED chainVars
  BY <1>3, <1>7 DEF chainVars, monitorVars, vars
<1>8. QED
  BY <1>3, <1>5, <1>6, <1>7 DEF ChainNext

\* An archiver that is no further behind than the monitor's queue misses no file.
THEOREM ChainMissesOnlyRemoved == ChainSpec => []MissedWereRemoved
<1>1. ChainInv => MissedWereRemoved
  BY DEF ChainInv
<1>2. QED
  BY <1>1, ChainInvInit, ChainInvStep, PTL DEF ChainSpec

\* Next to an archiver, whose script takes turns with the monitor's, the monitor keeps
\* its own promises on retention, copying and stop().
THEOREM ChainKeepsMonitor ==
  ChainSpec => [](RetentionBound /\ RetainsNewest /\ StoppedClean /\ CopyNotForgotten)
<1>1. ChainInv => RetentionBound /\ RetainsNewest /\ StoppedClean /\ CopyNotForgotten
  BY InvSafe DEF ChainInv
<1>2. QED
  BY <1>1, ChainInvInit, ChainInvStep, PTL DEF ChainSpec

(***************************************************************************)
(* What the archiver keeps.                                                 *)
(***************************************************************************)
Exts(n) == {c.ext : c \in Extended(n)}

\* While no copy of a name was taken away its extensions count up from 0, and each is
\* used once: this is why the number of them is one that is free.
Counted(n) == Exts(n) = 0 .. Cardinality(Extended(n)) - 1

ExtensionInv ==
  /\ IsFiniteSet(copies)
  /\ \A c \in copies : c.ext \in Nat \union {NoExtension}
  /\ \A n : n \notin cleaned => Counted(n)

LEMMA ExtendedFinite ==
  ASSUME ExtensionInv, NEW n
  PROVE  IsFiniteSet(Extended(n)) /\ Cardinality(Extended(n)) \in Nat
<1>1. Extended(n) \subseteq copies
  BY DEF Extended, Named
<1>2. IsFiniteSet(Extended(n))
  BY <1>1, FS_Subset DEF ExtensionInv
<1>3. QED
  BY <1>2, FS_CardinalityType

\* The extension copy_file() chooses is not in use.
LEMMA ExtensionFree ==
  ASSUME ExtensionInv, NEW n, n \notin cleaned
  PROVE  \A c \in copies : c.name # n \/ c.ext # Extension(n)
<1>1. Exts(n) = 0 .. Cardinality(Extended(n)) - 1 /\ Cardinality(Extended(n)) \in Nat
  BY ExtendedFinite DEF ExtensionInv, Counted
<1>2. CASE Named(n) \ Extended(n) = {}
  <2>1. Extension(n) = NoExtension
    BY <1>2 DEF Extension
  <2>2. \A c \in copies : c.name = n => c.ext # NoExtension
    BY <1>2 DEF Named, Extended
  <2>3. QED
    BY <2>1, <2>2
<1>3. CASE Named(n) \ Extended(n) # {}
  <2>1. Extension(n) = Cardinality(Extended(n))
    BY <1>3 DEF Extension
  <2>2. ASSUME NEW c \in copies, c.name = n, c.ext = Cardinality(Extended(n))
        PROVE  FALSE
    <3>1. c \in Extended(n)
      BY <1>1, <2>2 DEF Extended, Named, NoExtension
    <3>2. c.ext \in 0 .. Cardinality(Extended(n)) - 1
      BY <1>1, <3>1 DEF Exts
    <3>3. QED
      BY <1>1, <2>2, <3>2
  <2>3. QED
    BY <2>1, <2>2
<1>4. QED
  BY <1>2, <1>3

\* A copy keeps the count, and what is there.
LEMMA CopyCounted ==
  ASSUME ExtensionInv, NEW f, copy_file(f), cleaned' = cleaned
  PROVE  /\ ExtensionInv'
         /\ \A c \in copies : c \in copies' \/ c.name \in cleaned'
<1> DEFINE n == NameOf[f]
           e == Extension(n)
           kept == {c \in copies : c.name # n \/ c.ext # e}
           new == [name |-> n, ext |-> e, file |-> f]
<1>1. copies' = kept \union {new}
  BY DEF copy_file
<1>2. new.name = n /\ new.ext = e
  OBVIOUS
<1>3. e \in Nat \union {NoExtension}
  BY ExtendedFinite DEF Extension
<1> HIDE DEF new
<1>4. IsFiniteSet(copies')
  <2>1. IsFiniteSet(kept)
    BY FS_Subset DEF ExtensionInv
  <2>2. QED
    BY <1>1, <2>1, FS_AddElement
<1>5. \A c \in copies' : c.ext \in Nat \union {NoExtension}
  BY <1>1, <1>2, <1>3 DEF ExtensionInv
<1>6. ASSUME NEW m, m # n, m \notin cleaned
      PROVE  Counted(m)'
  <2>1. Extended(m)' = Extended(m)
    BY <1>1, <1>2, <1>6 DEF Extended, Named
  <2>2. QED
    BY <1>6, <2>1 DEF ExtensionInv, Counted, Exts
<1>7. ASSUME n \notin cleaned
      PROVE  Counted(n)' /\ kept = copies
  <2>1. kept = copies
    BY <1>7, ExtensionFree
  <2>2. Counted(n)
    BY <1>7 DEF ExtensionInv
  <2>3. CASE e = NoExtension
    <3>1. Extended(n)' = Extended(n)
      BY <1>1, <1>2, <2>1, <2>3 DEF Extended, Named
    <3>2. QED
      BY <2>1, <2>2, <3>1 DEF Counted, Exts
  <2>4. CASE e # NoExtension
    <3>1. e = Cardinality(Extended(n))
      BY <2>4 DEF Extension
    <3>2. Extended(n)' = Extended(n) \union {new}
      BY <1>1, <1>2, <2>1, <2>4 DEF Extended, Named
    <3>3. new \notin Extended(n)
      BY <1>2, <1>7, ExtensionFree DEF Extended, Named
    <3>4. Cardinality(Extended(n)') = e + 1 /\ e \in Nat
      BY <3>1, <3>2, <3>3, ExtendedFinite, FS_AddElement
    <3>5. {c.ext : c \in Extended(n) \union {new}} = Exts(n) \union {e}
      BY <1>2 DEF Exts
    <3>6. Exts(n)' = 0 .. e
      BY <2>2, <3>1, <3>2, <3>4, <3>5 DEF Exts, Counted
    <3>7. QED
      BY <2>1, <3>4, <3>6 DEF Counted
  <2>5. QED
    BY <2>3, <2>4
<1>8. ExtensionInv'
  BY <1>4, <1>5, <1>6, <1>7 DEF ExtensionInv
<1>9. \A c \in copies : c \in copies' \/ c.name \in cleaned'
  BY <1>1, <1>7
<1>10. QED
  BY <1>8, <1>9

LEMMA ExtensionInvInit == ChainInit => ExtensionInv
<1> SUFFICES ASSUME copies = {}, cleaned = {}
             PROVE  ExtensionInv
  BY DEF ChainInit, ArchiverInit
<1>1. \A n : Extended(n) = {}
  BY DEF Extended, Named
<1>2. ASSUME NEW n
      PROVE  Counted(n)
  BY <1>1, FS_EmptySet DEF Counted, Exts
<1>3. QED
  BY <1>2, FS_EmptySet DEF ExtensionInv

LEMMA ExtensionInvStep ==
  ASSUME ExtensionInv, [ChainNext]_chainVars
  PROVE  /\ ExtensionInv'
         /\ \A c \in copies : c \in copies' \/ c.name \in cleaned'
<1>1. CASE UNCHANGED <<copies, cleaned>>
  BY <1>1 DEF ExtensionInv, Counted, Exts, Extended, Named
<1>2. CASE Next /\ UNCHANGED archiverVars
  BY <1>1, <1>2 DEF archiverVars
<1>3. CASE ArchiveNext
  <2>1. cleaned' = cleaned /\ (copies' = copies \/ copy_file(handled + 1))
    BY <1>3 DEF ArchiveNext, Archive
  <2>2. QED
    BY <1>1, <2>1, CopyCounted
<1>4. CASE SetArchive
  BY <1>1, <1>4 DEF SetArchive, set_archive
<1>5. CASE TakeAway
  <2>1. PICK c \in copies : copies' = copies \ {c} /\ cleaned' = cleaned \union {c.name}
    BY <1>5 DEF TakeAway
  <2>2. IsFiniteSet(copies') /\ \A d \in copies' : d.ext \in Nat \union {NoExtension}
    BY <2>1, FS_Subset DEF ExtensionInv
  <2>3. ASSUME NEW n, n \notin cleaned'
        PROVE  Counted(n)'
    <3>1. Extended(n)' = Extended(n)
      BY <2>1, <2>3 DEF Extended, Named
    <3>2. QED
      BY <2>1, <2>3, <3>1 DEF ExtensionInv, Counted, Exts
  <2>4. QED
    BY <2>1, <2>2, <2>3 DEF ExtensionInv
<1>6. CASE UNCHANGED chainVars
  BY <1>1, <1>6 DEF chainVars, archiverVars
<1>7. QED
  BY <1>2, <1>3, <1>4, <1>5, <1>6 DEF ChainNext

\* No copy is written over, unless one of its name had been taken away.
THEOREM ChainKeepsCopies == ChainSpec => CopyKept
<1>1. ExtensionInv /\ [ChainNext]_chainVars => ExtensionInv'
  BY ExtensionInvStep
<1>2. ExtensionInv /\ [ChainNext]_chainVars
        => [\A c \in copies : c \in copies' \/ c.name \in cleaned']_chainVars
  BY ExtensionInvStep
<1>3. QED
  BY <1>1, <1>2, ExtensionInvInit, PTL DEF ChainSpec, CopyKept
=============================================================================
