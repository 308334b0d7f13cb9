--------------------------- MODULE FileSinkProof ---------------------------
(***************************************************************************)
(* Theorems about FileSink: what the sink guarantees of its counts, its    *)
(* files and its starts, in either mode and for streams, windows, file     *)
(* lengths and control calls of any size; at the end, what triggered       *)
(* recording guarantees of the file of a burst.                            *)
(***************************************************************************)
EXTENDS FileSink, FiniteSetTheorems, WellFoundedInduction, TLAPS

(***************************************************************************)
(* Facts about sets of places.                                             *)
(***************************************************************************)
(* The largest element of a set of offsets is one of them.                 *)
LEMMA MaxInSet ==
  ASSUME NEW n \in Nat, NEW S \in SUBSET (0 .. n), S # {}
  PROVE  Max(S) \in S /\ \A x \in S : x <= Max(S)
<1> DEFINE D == {n - x : x \in S}
           R == OpToRel(<, Nat)
<1>1. D \in SUBSET Nat /\ D # {}
  <2>1. \A x \in S : n - x \in Nat
    OBVIOUS
  <2>2. QED
    BY <2>1
<1>2. PICK d \in D : \A e \in D : ~(<<e, d>> \in R)
  <2> HIDE DEF D, R
  <2>1. IsWellFoundedOn(R, Nat)
    BY NatLessThanWellFounded DEF R
  <2>2. QED
    BY <1>1, <2>1, WFMin
<1>3. \A e \in D : ~(e < d)
  BY <1>1, <1>2 DEF OpToRel
<1>4. PICK m \in S : d = n - m
  OBVIOUS
<1>5. \A x \in S : m >= x
  <2> SUFFICES ASSUME NEW x \in S
               PROVE  m >= x
    OBVIOUS
  <2>1. ~(n - x < n - m)
    BY <1>3, <1>4
  <2>2. QED
    BY <2>1
<1> HIDE DEF D
<1>6. QED
  BY <1>4, <1>5 DEF Max

(* The smallest element of a set of places is one of them.                 *)
LEMMA MinInSet ==
  ASSUME NEW S \in SUBSET Nat, S # {}
  PROVE  Min(S) \in S /\ \A x \in S : Min(S) <= x
<1> DEFINE R == OpToRel(<, Nat)
<1>1. PICK d \in S : \A e \in S : ~(<<e, d>> \in R)
  <2> HIDE DEF R
  <2>1. IsWellFoundedOn(R, Nat)
    BY NatLessThanWellFounded DEF R
  <2>2. QED
    BY <2>1, WFMin
<1>2. \A e \in S : ~(e < d)
  BY <1>1 DEF OpToRel
<1>3. \A x \in S : d <= x
  BY <1>2
<1>4. QED
  BY <1>3 DEF Min

(* The first tag of a kind in a window.                                    *)
LEMMA FirstTag ==
  ASSUME nread \in Nat, NEW n \in Nat, NEW kind, Tagged({kind}, n) # {}
  PROVE  /\ Min(Tagged({kind}, n)) \in TagsAt(kind)
         /\ Min(Tagged({kind}, n)) \in nread .. nread + n - 1
         /\ \A i \in Tagged({kind}, n) : Min(Tagged({kind}, n)) <= i
<1> DEFINE S == Tagged({kind}, n)
<1>1. StreamLen \in Nat
  BY SinkAssumption
<1>2. S \in SUBSET Nat
  BY <1>1 DEF Tagged
<1>3. S \subseteq TagsAt(kind) /\ S \subseteq nread .. nread + n - 1
  <2> SUFFICES ASSUME NEW i \in S
               PROVE  i \in TagsAt(kind) /\ i \in nread .. nread + n - 1
    OBVIOUS
  <2>1. i \in nread .. nread + n - 1 /\ i < StreamLen /\ stream[i] \cap {kind} # {}
    BY DEF Tagged
  <2>2. i \in 0 .. StreamLen - 1
    BY <1>1, <2>1
  <2>3. kind \in stream[i]
    BY <2>1
  <2>4. QED
    BY <2>1, <2>2, <2>3 DEF TagsAt
<1> HIDE DEF S
<1>4. Min(S) \in S /\ \A i \in S : Min(S) <= i
  BY <1>2, MinInSet DEF S
<1>5. QED
  BY <1>3, <1>4 DEF S


(***************************************************************************)
(* The invariant of the sink and its writer.                               *)
(***************************************************************************)
NoBursts == TagsAt("sob") = {}

Writing == {"write", "loop", "rolled"}

(* The phases of a work() call, and how far it may go.                     *)
CallInv ==
  /\ nread + nprocessed <= StreamLen
  /\ nleft <= nprocessed
  /\ pc \in {"tagged", "start"} => /\ nread + nitems <= StreamLen
                                   /\ ntoconsume <= nitems
  /\ pc \in {"idle", "tagged", "start", "finished"} => nprocessed = 0
  /\ pc \notin Writing => nleft = 0
  /\ pc \in {"idle", "finished"} => ~doStop

(* d_is_started says whether the stream is open.                           *)
OpenInv ==
  /\ isStarted <=> ofs # "closed"
  /\ ofs = "closed" => data = NoData /\ fname = NoName
  /\ ofs = "failed" => leftOpen
  /\ leftOpen => isStarted

(* The flags of a sink that writes and has no start pending.               *)
Goes ==
  IF mode = "MANUAL" THEN recording /\ ~checkStart /\ ~issueStart /\ ndiscard = 0
                     ELSE burstState = 1 /\ ~issueStart

(* Who has a file open, but for one left open; who writes; who starts.     *)
ModeInv ==
  /\ isStarted /\ ~leftOpen => Goes
  /\ pc \in Writing => Goes /\ (mode = "MANUAL" => isStarted)
  /\ pc = "start" =>
       /\ issueStart
       /\ IF mode = "MANUAL" THEN recording /\ ~checkStart /\ ndiscard = 0
                             ELSE burstState = 1

(* The samples in the file, which has no hole unless it was left open.     *)
DataInv ==
  /\ data.len = 0 => data = NoData
  /\ ~leftOpen => data.next - data.first = data.len
  /\ ~leftOpen /\ data.len > 0 => data.next = WritePos

(* Without bursts triggered mode waits for ever, and leaves nothing open.  *)
QuietInv ==
  NoBursts => /\ burstState = 0 /\ ~leftOpen /\ pc # "crashed"
              /\ doStop => isStarted

IInv ==
  TypeOK /\ CallInv /\ OpenInv /\ ModeInv /\ DataInv /\ CountMatchesFile /\ QuietInv

-----------------------------------------------------------------------------
(* The invariant holds initially.                                          *)
LEMMA InitInv == Init => IInv
<1> SUFFICES ASSUME Init PROVE IInv
  OBVIOUS
<1> USE WriterAssumption, SinkAssumption DEF Init, WriterInit
<1>1. TypeOK
  <2>1. NoData \in FileData
    BY DEF NoData, FileData
  <2>2. NoPdu \in Pdus
    BY <2>1 DEF NoPdu, Pdus, NoName, InitialCfg, OfsStates
  <2>3. /\ ofs \in OfsStates
        /\ fname \in Int /\ nameCfg \in Int /\ cfg \in Int
        /\ nremaining \in Nat
    BY DEF OfsStates, NoName, InitialCfg
  <2>4. WriterTypeOK
    <3>1. isStarted \in BOOLEAN /\ torn \in BOOLEAN /\ leftOpen \in BOOLEAN
      OBVIOUS
    <3>2. QED
      BY <2>1, <2>2, <2>3, <3>1 DEF WriterTypeOK
  <2>5. /\ recording \in BOOLEAN
        /\ checkStart \in BOOLEAN
        /\ issueStart \in BOOLEAN
        /\ align \in BOOLEAN
        /\ doStop \in BOOLEAN
    OBVIOUS
  <2>6. /\ nread \in 0 .. StreamLen
        /\ pc \in PcStates
    BY DEF PcStates
  <2>7. QED
    BY <2>4, <2>5, <2>6 DEF TypeOK
<1>2. CallInv /\ OpenInv /\ ModeInv /\ QuietInv
  BY DEF CallInv, OpenInv, ModeInv, QuietInv, Writing
<1>3. DataInv /\ CountMatchesFile
  BY DEF DataInv, CountMatchesFile, NoData, NoPdu
<1>4. QED
  BY <1>1, <1>2, <1>3 DEF IInv

(* The stream is given: so are its tags.                                   *)
LEMMA SameTags ==
  ASSUME stream' = stream
  PROVE  /\ NoBursts' <=> NoBursts
         /\ (TagsAt("sob") = {})' <=> NoBursts
BY DEF NoBursts, TagsAt

(* A step that leaves the file alone, and does not move past one that is   *)
(* written.                                                                *)
LEMMA FileKept ==
  ASSUME IInv, UNCHANGED << ofs, data, fname, nwritten, isStarted, pdu, leftOpen, stream >>,
         isStarted /\ ~leftOpen => WritePos' = WritePos
  PROVE  OpenInv' /\ DataInv' /\ CountMatchesFile'
<1>1. OpenInv /\ DataInv /\ CountMatchesFile
  BY DEF IInv
<1>2. OpenInv'
  BY <1>1 DEF OpenInv, NoData
<1>3. ~isStarted => data.len = 0
  BY <1>1 DEF OpenInv, NoData
<1>4. data.len \in Nat
  BY DEF IInv, TypeOK, WriterTypeOK, FileData
<1>5. DataInv'
  BY <1>1, <1>3, <1>4 DEF DataInv, NoData
<1>6. CountMatchesFile'
  BY <1>1, SameTags DEF CountMatchesFile, NoBursts
<1>7. QED
  BY <1>2, <1>5, <1>6

(* The types of the writer, when it stays as it is.                        *)
LEMMA WriterKept ==
  ASSUME WriterTypeOK, UNCHANGED writerVars
  PROVE  WriterTypeOK'
BY DEF WriterTypeOK, writerVars

(* Looking at the tags of a window keeps the invariant.                    *)
LEMMA HandleTagsInv ==
  ASSUME IInv, NEW n \in 1 .. MaxItems, HandleTags(n)
  PROVE  IInv'
<1> USE WriterAssumption, SinkAssumption
<1> DEFINE S(kinds) == Tagged(kinds, n)
<1>1. nread \in Nat /\ n \in Nat /\ StreamLen \in Nat
  BY DEF IInv, TypeOK
<1>2. \A kinds : S(kinds) # {} => Max(S(kinds)) \in S(kinds)
  <2> SUFFICES ASSUME NEW kinds, S(kinds) # {}
               PROVE  Max(S(kinds)) \in S(kinds)
    OBVIOUS
  <2>1. S(kinds) \in SUBSET (0 .. StreamLen)
    BY <1>1 DEF Tagged
  <2> HIDE DEF S
  <2>2. QED
    BY <1>1, <2>1, MaxInSet
<1>3. \A kinds : S(kinds) # {} =>
        /\ Max(S(kinds)) \in 0 .. StreamLen - 1
        /\ Max(S(kinds)) \in nread .. nread + n - 1
  <2> SUFFICES ASSUME NEW kinds, NEW i \in S(kinds)
               PROVE  i \in 0 .. StreamLen - 1 /\ i \in nread .. nread + n - 1
    BY <1>2
  <2>1. QED
    BY <1>1 DEF Tagged
<1> HIDE DEF S
<1>4. /\ cfg' \in Int
      /\ sampTime' \in Nat
  BY <1>3 DEF HandleTags, IInv, TypeOK, WriterTypeOK, S
<1>5. /\ ntoconsume' \in Nat
      /\ ntoconsume' <= n
  BY <1>1, <1>3 DEF HandleTags, S, UpToChange
<1>6. /\ checkStart' \in BOOLEAN
      /\ issueStart' \in BOOLEAN
      /\ doStop' \in BOOLEAN
      /\ doStop' => isStarted
      /\ isStarted => (checkStart' => checkStart)
      /\ issueStart' => issueStart
  BY DEF HandleTags, IInv, TypeOK
<1>7. /\ pc = "idle" /\ pc' = "tagged" /\ nitems' = n /\ nread + n <= StreamLen
      /\ UNCHANGED << mode, recording, burstState, ndiscard, align, stream, nread,
                      nprocessed, nleft, nsamples, period, rollover, fileVars >>
  BY DEF HandleTags
<1>8. TypeOK'
  BY <1>1, <1>4, <1>5, <1>6, <1>7
  DEF IInv, TypeOK, WriterTypeOK, fileVars, PcStates
<1>9. CallInv'
  BY <1>1, <1>5, <1>7 DEF IInv, CallInv, Writing
<1>10. ModeInv'
  BY <1>6, <1>7 DEF IInv, ModeInv, Goes, Writing, fileVars
<1>11. QuietInv'
  BY <1>6, <1>7, SameTags DEF IInv, QuietInv, fileVars
<1>12. OpenInv' /\ DataInv' /\ CountMatchesFile'
  BY <1>7, FileKept DEF WritePos, fileVars
<1>13. QED
  BY <1>8, <1>9, <1>10, <1>11, <1>12 DEF IInv

-----------------------------------------------------------------------------
(* The calls that skip samples, in either mode.                            *)
SkipCall ==
  ManualIdle \/ ManualWait \/ SeekBurst
  \/ \E extra \in Rounding : ManualDiscard(extra)

(* They find no file open, but for one left open.                          *)
LEMMA SkipNoFile ==
  ASSUME IInv, SkipCall \/ FindBurst
  PROVE  /\ isStarted => leftOpen
         /\ pc = "tagged" /\ pc' = "end" /\ nleft' = 0 /\ ~doStop'
         /\ UNCHANGED << stream, nread, writerVars, sampTime, mode, recording, align,
                         nitems, ntoconsume >>
<1>1. isStarted /\ ~leftOpen => Goes
  BY DEF IInv, ModeInv
<1>2. mode \in {"MANUAL", "TRIGGERED"}
  BY SinkAssumption DEF IInv, TypeOK
<1>3. CASE ManualIdle \/ ManualWait \/ SeekBurst \/ FindBurst
  BY <1>1, <1>2, <1>3
  DEF ManualIdle, ManualWait, SeekBurst, FindBurst, ManualCall, TriggeredCall, Goes,
      Skip, ctrlVars
<1>4. ASSUME NEW extra \in Rounding, ManualDiscard(extra)
      PROVE  /\ isStarted => leftOpen
             /\ pc = "tagged" /\ pc' = "end" /\ nleft' = 0 /\ ~doStop'
             /\ UNCHANGED << stream, nread, writerVars, sampTime, mode, recording, align,
                             nitems, ntoconsume >>
  BY <1>1, <1>4 DEF ManualDiscard, ManualCall, ToDiscard, Goes, Skip
<1>5. QED
  BY <1>3, <1>4 DEF SkipCall

(* Without start-of-burst tags, none is found.                             *)
LEMMA NoBurstFound ==
  ASSUME IInv, NoBursts
  PROVE  /\ ~FindBurst
         /\ ~(BurstStart \/ BurstOpen \/ BurstData \/ BurstEnd \/ BurstCrash)
<1>1. burstState = 0
  BY DEF IInv, QuietInv
<1>2. ~FindBurst
  <2>1. nread \in Nat /\ nitems \in Nat
    BY SinkAssumption DEF IInv, TypeOK
  <2>2. StartOfBurst # {} => Min(StartOfBurst) \in TagsAt("sob")
    BY <2>1, FirstTag DEF StartOfBurst
  <2>3. QED
    BY <2>2 DEF FindBurst, NoBursts
<1>3. mode # "MANUAL" /\ pc = "start" => burstState = 1
  BY DEF IInv, ModeInv
<1>4. QED
  BY <1>1, <1>2, <1>3 DEF BurstStart, BurstOpen, BurstData, BurstEnd, BurstCrash

(* A call that skips samples keeps the invariant.                          *)
LEMMA SkipInv ==
  ASSUME IInv, SkipCall \/ FindBurst
  PROVE  IInv'
<1> USE WriterAssumption, SinkAssumption DEF IInv
<1>1. /\ isStarted => leftOpen
      /\ pc = "tagged" /\ pc' = "end" /\ nleft' = 0 /\ ~doStop'
      /\ UNCHANGED << stream, nread, writerVars, sampTime, mode, recording, align,
                      nitems, ntoconsume >>
  BY SkipNoFile
<1>2. nread \in Nat /\ nitems \in Nat /\ ntoconsume \in Nat /\ StreamLen \in Nat
      /\ nread + nitems <= StreamLen /\ ntoconsume <= nitems
  BY <1>1 DEF TypeOK, CallInv
<1>3. PICK k \in Nat : k <= nitems /\ nprocessed' = k /\ ndiscard' \in Nat
  <2>1. CASE ManualIdle \/ ManualWait \/ SeekBurst
    BY <1>2, <2>1 DEF ManualIdle, ManualWait, SeekBurst, Skip, TypeOK, ctrlVars
  <2>2. ASSUME NEW extra \in Rounding, ManualDiscard(extra)
        PROVE  \E k \in Nat : k <= nitems /\ nprocessed' = k /\ ndiscard' \in Nat
    <3> DEFINE todo == ToDiscard(extra)
               k == IF todo < ntoconsume THEN todo ELSE ntoconsume
    <3>1. todo \in Nat
      <4>1. sampTime % Second \in 0 .. Second - 1
        BY DEF TypeOK
      <4>2. extra \in Nat
        OBVIOUS
      <4>3. QED
        BY <4>1, <4>2 DEF ToDiscard, AlignDiscard, TypeOK
    <3>2. nprocessed' = k /\ ndiscard' = todo - k
      BY <2>2 DEF ManualDiscard, Skip
    <3> HIDE DEF todo
    <3>3. k \in Nat /\ k <= nitems /\ todo - k \in Nat
      BY <1>2, <3>1
    <3>4. QED
      BY <3>2, <3>3
  <2>3. CASE FindBurst
    <3>1. nprocessed' = Min(StartOfBurst) - nread /\ ndiscard' = ndiscard
          /\ StartOfBurst # {}
      BY <2>3 DEF FindBurst, Skip, BurstOffset
    <3>2. Min(StartOfBurst) \in nread .. nread + nitems - 1
      BY <1>2, <3>1, FirstTag DEF StartOfBurst
    <3>3. Min(StartOfBurst) - nread \in Nat /\ Min(StartOfBurst) - nread <= nitems
      BY <1>2, <3>2
    <3>4. QED
      BY <3>1, <3>3 DEF TypeOK
  <2>4. QED
    BY <2>1, <2>2, <2>3 DEF SkipCall
<1>4. /\ checkStart' \in BOOLEAN
      /\ issueStart' \in BOOLEAN
      /\ doStop' \in BOOLEAN
      /\ burstState' \in {0, 1}
      /\ NoBursts => burstState' = burstState
  <2>1. CASE ManualIdle \/ ManualWait \/ SeekBurst
    BY <2>1 DEF ManualIdle, ManualWait, SeekBurst, TypeOK, ctrlVars, Skip
  <2>2. CASE \E extra \in Rounding : ManualDiscard(extra)
    BY <2>2 DEF ManualDiscard, StartDue, TypeOK, Skip
  <2>3. CASE FindBurst
    BY <2>3, NoBurstFound DEF FindBurst, TypeOK, Skip
  <2>4. QED
    BY <2>1, <2>2, <2>3 DEF SkipCall
<1>5. TypeOK'
  BY <1>1, <1>3, <1>4, WriterKept DEF TypeOK, PcStates
<1>6. CallInv'
  <2>1. nread + k <= StreamLen /\ 0 <= k
    BY <1>2, <1>3
  <2>2. nread' + nprocessed' <= StreamLen /\ nleft' <= nprocessed'
    BY <1>1, <1>3, <2>1
  <2>3. QED
    BY <1>1, <2>2 DEF CallInv
<1>7. ModeInv'
  BY <1>1 DEF ModeInv, Writing, writerVars
<1>8. QuietInv'
  BY <1>1, <1>4, SameTags DEF QuietInv, writerVars
<1>9. OpenInv' /\ DataInv' /\ CountMatchesFile'
  BY <1>1, FileKept DEF writerVars
<1>10. QED
  BY <1>5, <1>6, <1>7, <1>8, <1>9

-----------------------------------------------------------------------------
(* A step that does not move leaves the write position where it is.        *)
LEMMA SamePos ==
  ASSUME NEW a \in Nat, NEW k \in Nat
  PROVE  a + k - k = a + 0 - 0
OBVIOUS

(* start() begins: no file is open, but for one left open, and none yet.   *)
LEMMA StartingInv ==
  ASSUME IInv, BurstStart \/ \E extra \in Rounding : ManualStart(extra)
  PROVE  IInv'
<1> USE WriterAssumption, SinkAssumption DEF IInv
<1>1. /\ pc = "tagged" /\ pc' = "start"
      /\ issueStart' = TRUE
      /\ IF mode = "MANUAL" THEN recording /\ checkStart' = FALSE /\ ndiscard' = 0 /\ StartDue
                            ELSE /\ burstState = 1 /\ issueStart
                                 /\ UNCHANGED << checkStart, ndiscard >>
      /\ UNCHANGED << mode, recording, burstState, align, sampTime, stream, nread, nitems,
                      ntoconsume, doStop, nprocessed, nleft, paramVars >>
      /\ WriterStart(sampTime)
  <2>1. CASE BurstStart
    BY <2>1 DEF BurstStart, TriggeredCall, ctrlVars
  <2>2. CASE \E extra \in Rounding : ManualStart(extra)
    BY <2>2 DEF ManualStart, ManualCall
  <2>3. QED
    BY <2>1, <2>2
<1>2. /\ UNCHANGED << isStarted, ofs, data, fname, nameCfg, nremaining, nwritten,
                      fileNum, pdu, leftOpen, nsamples, period, rollover, cfg >>
      /\ fileTime' = sampTime /\ fileTimeNext' = sampTime + period
      /\ torn' \in BOOLEAN
  BY <1>1 DEF WriterStart, FilePeriod, HalfSet, paramVars
<1>3. fileTime' \in Int /\ fileTimeNext' \in Int
  BY <1>2 DEF TypeOK, WriterTypeOK
<1>4. WriterTypeOK'
  BY <1>2, <1>3 DEF TypeOK, WriterTypeOK
<1>5. TypeOK'
  <2>1. issueStart' \in BOOLEAN
    BY <1>1
  <2>2. checkStart' \in BOOLEAN /\ ndiscard' \in Nat
    <3>1. checkStart \in BOOLEAN /\ ndiscard \in Nat
      BY DEF TypeOK
    <3>2. CASE mode = "MANUAL"
      <4>1. checkStart' = FALSE /\ ndiscard' = 0
        BY <1>1, <3>2
      <4>2. QED
        BY <4>1
    <3>3. CASE mode # "MANUAL"
      <4>1. checkStart' = checkStart /\ ndiscard' = ndiscard
        BY <1>1, <3>3
      <4>2. QED
        BY <3>1, <4>1
    <3>4. QED
      BY <3>2, <3>3
  <2>3. QED
    BY <1>1, <1>4, <2>1, <2>2 DEF TypeOK, PcStates
<1>6. CallInv'
  BY <1>1 DEF CallInv, Writing
<1>7. isStarted => leftOpen
  BY <1>1 DEF ModeInv, Goes, StartDue
<1>8. ModeInv'
  BY <1>1, <1>2, <1>7 DEF ModeInv, Writing
<1>9. QuietInv'
  BY <1>1, <1>2, SameTags DEF QuietInv
<1>10. OpenInv' /\ DataInv' /\ CountMatchesFile'
  BY <1>1, <1>2, FileKept DEF WritePos
<1>11. QED
  BY <1>5, <1>6, <1>8, <1>9, <1>10

(* start() ends: a closed stream is open on a new file, an open one has    *)
(* failed.                                                                 *)
LEMMA OpenFacts ==
  ASSUME IInv, ManualOpen \/ BurstOpen
  PROVE  /\ WriterOpen
         /\ isStarted => leftOpen
         /\ pc = "start" /\ issueStart' = FALSE
         /\ UNCHANGED << mode, recording, checkStart, burstState, ndiscard, align,
                         sampTime, stream, nread, nitems, ntoconsume, doStop, paramVars >>
         /\ \/ mode = "MANUAL" /\ Write(ntoconsume)
            \/ mode = "TRIGGERED" /\ pc' = "tagged" /\ UNCHANGED << nprocessed, nleft >>
         /\ UNCHANGED pdu
         /\ IF ofs = "closed" THEN ofs' = "open" /\ data' = NoData /\ ~leftOpen
                              ELSE ofs' = "failed" /\ data' = data /\ leftOpen
<1>1. /\ WriterOpen /\ pc = "start"
      /\ issueStart' = FALSE
      /\ UNCHANGED << mode, recording, checkStart, burstState, ndiscard, align,
                      sampTime, stream, nread, nitems, ntoconsume, doStop, paramVars >>
      /\ \/ mode = "MANUAL" /\ Write(ntoconsume)
         \/ mode = "TRIGGERED" /\ pc' = "tagged" /\ UNCHANGED << nprocessed, nleft >>
  BY DEF ManualOpen, BurstOpen, Write
<1>2. isStarted => leftOpen
  BY <1>1 DEF IInv, ModeInv, Goes
<1>3. /\ ofs = "closed" => ~leftOpen
      /\ ofs # "closed" => leftOpen
  BY <1>2 DEF IInv, OpenInv
<1>4. QED
  BY <1>1, <1>2, <1>3 DEF WriterOpen

LEMMA OpeningInv ==
  ASSUME IInv, ManualOpen \/ BurstOpen
  PROVE  IInv'
<1> USE WriterAssumption, SinkAssumption DEF IInv
<1>1. /\ WriterOpen
      /\ isStarted => leftOpen
      /\ pc = "start" /\ issueStart' = FALSE
      /\ UNCHANGED << mode, recording, checkStart, burstState, ndiscard, align,
                      sampTime, stream, nread, nitems, ntoconsume, doStop, paramVars >>
      /\ \/ mode = "MANUAL" /\ Write(ntoconsume)
         \/ mode = "TRIGGERED" /\ pc' = "tagged" /\ UNCHANGED << nprocessed, nleft >>
      /\ UNCHANGED pdu
      /\ IF ofs = "closed" THEN ofs' = "open" /\ data' = NoData /\ ~leftOpen
                           ELSE ofs' = "failed" /\ data' = data /\ leftOpen
  BY OpenFacts
<1>2. /\ nwritten' = 0 /\ nremaining' = nsamples /\ nameCfg' = cfg /\ fname' = fileNum
      /\ isStarted' = TRUE
      /\ UNCHANGED << fileNum, fileTime, fileTimeNext, torn, leftOpen >>
      /\ UNCHANGED << nsamples, period, rollover, cfg >>
  BY <1>1 DEF WriterOpen, Refill, paramVars
<1>3. nread \in Nat /\ nitems \in Nat /\ ntoconsume \in Nat /\ nprocessed = 0 /\ nleft = 0
      /\ nread + nitems <= StreamLen /\ ntoconsume <= nitems /\ StreamLen \in Nat
  BY <1>1 DEF TypeOK, CallInv, Writing
<1>4. WriterTypeOK'
  <2>1. /\ NoData \in FileData /\ nsamples \in Nat /\ isStarted' \in BOOLEAN
        /\ ofs' \in OfsStates /\ data' \in FileData
    BY <1>1, <1>2 DEF NoData, FileData, TypeOK, WriterTypeOK, OfsStates
  <2>2. QED
    BY <1>1, <1>2, <2>1 DEF TypeOK, WriterTypeOK
<1>5. TypeOK'
  <2>1. pc' \in PcStates /\ nprocessed' \in Nat /\ nleft' \in Nat
    BY <1>1, <1>3 DEF Write, PcStates
  <2>2. issueStart' \in BOOLEAN
    BY <1>1
  <2>3. QED
    BY <1>1, <1>4, <2>1, <2>2 DEF TypeOK
<1>6. CallInv'
  <2>1. CASE Write(ntoconsume)
    <3>1. nread + ntoconsume <= StreamLen /\ ntoconsume <= ntoconsume
      BY <1>3
    <3>2. nread' + nprocessed' <= StreamLen /\ nleft' <= nprocessed' /\ pc' = "write"
      BY <1>1, <2>1, <3>1 DEF Write
    <3>3. QED
      BY <3>2 DEF CallInv, Writing
  <2>2. CASE pc' = "tagged" /\ UNCHANGED << nprocessed, nleft >>
    BY <1>1, <1>3, <2>2 DEF CallInv, Writing
  <2>3. QED
    BY <1>1, <2>1, <2>2
<1>7. Goes'
  BY <1>1 DEF ModeInv, Goes
<1>8. ModeInv' /\ OpenInv'
  <2>1. ModeInv'
    BY <1>1, <1>2, <1>7 DEF ModeInv, Writing, Write
  <2>2. OpenInv'
    BY <1>1, <1>2 DEF OpenInv
  <2>3. QED
    BY <2>1, <2>2
<1>9. QuietInv'
  BY <1>1, <1>2, SameTags DEF QuietInv, Write
<1>10. DataInv'
  BY <1>1, <1>2 DEF DataInv, NoData
<1>11. CountMatchesFile'
  <2>1. NoBursts => ofs = "closed"
    BY <1>1 DEF QuietInv
  <2>2. ofs = "closed" => nwritten' = 0 /\ data'.len = 0 /\ ofs' = "open"
    BY <1>1, <1>2 DEF NoData
  <2>3. ofs # "closed" => ofs' # "open"
    BY <1>1
  <2>4. QED
    BY <1>1, <2>1, <2>2, <2>3, SameTags DEF CountMatchesFile, NoBursts
<1>12. QED
  BY <1>5, <1>6, <1>8, <1>9, <1>10, <1>11

(* Going on with what the mode goes on with.                               *)
GoOn == ManualContinue \/ BurstData \/ BurstEnd

LEMMA GoOnFacts ==
  ASSUME IInv, GoOn
  PROVE  /\ pc = "tagged" /\ Goes
         /\ mode = "MANUAL" => isStarted
         /\ UNCHANGED << ctrlVars, sampTime, stream, nread, writerVars >>
         /\ doStop' \in BOOLEAN
         /\ doStop' = doStop \/ burstState = 1
         /\ \E k \in Nat : k <= nitems /\ Write(k)
<1>1. nread \in Nat /\ nitems \in Nat /\ ntoconsume \in Nat
  BY SinkAssumption DEF IInv, TypeOK
<1>2. CASE ManualContinue
  BY <1>1, <1>2 DEF ManualContinue, ManualCall, StartDue, Goes, IInv, CallInv, TypeOK
<1>3. CASE BurstData
  BY <1>1, <1>3 DEF BurstData, TriggeredCall, Goes, IInv, TypeOK
<1>4. CASE BurstEnd
  <2>1. Min(EndOfBurst) \in nread .. nread + nitems - 1
    BY <1>1, <1>4, FirstTag DEF BurstEnd, EndOfBurst
  <2>2. BurstLength \in Nat /\ BurstLength <= nitems
    BY <1>1, <2>1 DEF BurstLength
  <2>3. QED
    BY <1>4, <2>2 DEF BurstEnd, TriggeredCall, Goes
<1>5. QED
  BY <1>2, <1>3, <1>4 DEF GoOn

LEMMA GoOnInv ==
  ASSUME IInv, GoOn
  PROVE  IInv'
<1> USE SinkAssumption DEF IInv
<1>1. /\ pc = "tagged" /\ Goes
      /\ mode = "MANUAL" => isStarted
      /\ UNCHANGED << ctrlVars, sampTime, stream, nread, writerVars >>
      /\ doStop' \in BOOLEAN
      /\ doStop' = doStop \/ burstState = 1
  BY GoOnFacts
<1>2. PICK k \in Nat : k <= nitems /\ Write(k)
  BY GoOnFacts
<1>3. /\ nread \in Nat /\ nitems \in Nat /\ StreamLen \in Nat
      /\ nread + nitems <= StreamLen /\ nprocessed = 0 /\ nleft = 0
  BY <1>1 DEF TypeOK, CallInv, Writing
<1>4. /\ nprocessed' = k /\ nleft' = k /\ pc' = "write"
      /\ UNCHANGED << nitems, ntoconsume >>
  BY <1>2 DEF Write
<1>5. TypeOK'
  BY <1>1, <1>4, WriterKept DEF TypeOK, ctrlVars, PcStates
<1>6. CallInv'
  <2>1. nread + k <= StreamLen /\ k <= k
    BY <1>2, <1>3
  <2>2. nread' + nprocessed' <= StreamLen /\ nleft' <= nprocessed'
    BY <1>1, <1>4, <2>1
  <2>3. QED
    BY <1>4, <2>2 DEF CallInv, Writing
<1>7. WritePos' = WritePos
  <2>1. nread + k - k = nread + 0 - 0
    BY <1>3, SamePos
  <2>2. QED
    BY <1>1, <1>3, <1>4, <2>1 DEF WritePos
<1>8. ModeInv'
  BY <1>1, <1>4 DEF ModeInv, Goes, ctrlVars, writerVars
<1>9. QuietInv'
  BY <1>1, <1>4, SameTags DEF QuietInv, ctrlVars, writerVars
<1>10. OpenInv' /\ DataInv' /\ CountMatchesFile'
  BY <1>1, <1>7, FileKept DEF writerVars
<1>11. QED
  BY <1>5, <1>6, <1>8, <1>9, <1>10

(* The program dies: nothing else changes.                                 *)
LEMMA CrashInv ==
  ASSUME IInv, BurstCrash
  PROVE  IInv'
<1> USE DEF IInv
<1>1. /\ pc = "tagged" /\ pc' = "crashed" /\ burstState = 1
      /\ UNCHANGED << ctrlVars, sampTime, stream, nread, nitems, ntoconsume, doStop,
                      nprocessed, nleft, writerVars >>
  BY DEF BurstCrash, TriggeredCall
<1>2. TypeOK'
  BY <1>1, WriterKept DEF TypeOK, ctrlVars, PcStates
<1>3. CallInv'
  BY <1>1 DEF CallInv, Writing
<1>4. ModeInv' /\ QuietInv'
  BY <1>1, SameTags DEF ModeInv, QuietInv, Goes, Writing, ctrlVars, writerVars
<1>5. OpenInv' /\ DataInv' /\ CountMatchesFile'
  BY <1>1, FileKept DEF WritePos, writerVars
<1>6. QED
  BY <1>2, <1>3, <1>4, <1>5

-----------------------------------------------------------------------------
(* Without bursts, what is written to is an open file.                     *)
LEMMA QuietWriting ==
  ASSUME IInv, NoBursts
  PROVE  /\ pc \in Writing => ofs = "open" /\ isStarted
         /\ ofs # "failed" /\ ~leftOpen
<1>1. mode # "MANUAL" => ~Goes
  BY DEF IInv, QuietInv, Goes
<1>2. QED
  BY <1>1 DEF IInv, QuietInv, ModeInv, OpenInv, TypeOK, WriterTypeOK, OfsStates

(* What an append makes of an open file: it holds what it held and the k   *)
(* samples from the write position on.  A stream that is not open takes    *)
(* nothing.                                                                *)
LEMMA ExtendedFile ==
  ASSUME IInv, NEW k \in Nat
  PROVE  LET d == Extended(WritePos, k)
         IN  /\ WritePos \in Int
             /\ WritePos >= 0
             /\ d \in FileData
             /\ d.len = 0 => d = NoData
             /\ ofs # "open" => d = data
             /\ ofs = "open" => d.len = data.len + k /\ d.len = nwritten + k
             /\ ofs = "open" /\ ~leftOpen => /\ d.next - d.first = d.len
                                             /\ d.len > 0 => d.next = WritePos + k
<1> DEFINE d == Extended(WritePos, k)
<1>1. WritePos \in Int /\ WritePos >= 0
  BY SinkAssumption DEF IInv, TypeOK, CallInv, WritePos
<1>2. /\ data.first \in Nat /\ data.next \in Nat /\ data.len \in Nat
      /\ data \in FileData
      /\ ~leftOpen => data.next - data.first = data.len
      /\ data.len = 0 => data = NoData
      /\ ~leftOpen /\ data.len > 0 => data.next = WritePos
      /\ ofs = "open" => data.len = nwritten
  BY DEF IInv, TypeOK, WriterTypeOK, FileData, DataInv, CountMatchesFile
<1> HIDE DEF WritePos
<1>3. CASE ofs # "open" \/ k = 0
  <2>1. d = data
    BY <1>3 DEF Extended
  <2>2. QED
    BY <1>1, <1>2, <1>3, <2>1
<1>4. CASE ofs = "open" /\ k # 0
  <2>1. d = [first |-> IF data.len = 0 THEN WritePos ELSE data.first,
             next |-> WritePos + k, len |-> data.len + k]
    BY <1>4 DEF Extended
  <2>2. d.first = IF data.len = 0 THEN WritePos ELSE data.first
    BY <2>1
  <2>3. d.next = WritePos + k /\ d.len = data.len + k
    BY <2>1
  <2>4. d \in FileData
    BY <1>1, <1>2, <2>1 DEF FileData
  <2>5. ~leftOpen => d.next - d.first = d.len
    BY <1>1, <1>2, <2>2, <2>3
  <2>6. d.len # 0
    BY <1>2, <1>4, <2>3
  <2> HIDE DEF d
  <2>7. QED
    BY <1>1, <1>2, <1>4, <2>3, <2>4, <2>5, <2>6 DEF d
<1>5. QED
  BY <1>3, <1>4

(* The parts of the invariant that a write leaves alone.                   *)
LEMMA WriteKept ==
  ASSUME IInv, pc \in Writing, pc' \in {"loop", "rolled", "end"}, nleft' \in Nat,
         nleft' <= nleft, pc' = "end" => nleft' = 0,
         UNCHANGED << ctrlVars, sampTime, stream, nread, nitems, ntoconsume, doStop,
                      nprocessed, paramVars >>,
         WriterTypeOK', isStarted => isStarted', leftOpen' => leftOpen
  PROVE  TypeOK' /\ CallInv' /\ ModeInv' /\ QuietInv'
<1> USE DEF IInv
<1>1. TypeOK'
  BY DEF TypeOK, ctrlVars, paramVars, PcStates
<1>2. CallInv'
  <2>1. nleft' <= nprocessed
    BY DEF TypeOK, CallInv
  <2>2. QED
    BY <2>1 DEF CallInv, Writing
<1>3. Goes' /\ (mode' = "MANUAL" => isStarted')
  BY DEF ModeInv, Goes, ctrlVars
<1>4. ModeInv'
  BY <1>3 DEF ModeInv, Writing
<1>5. QuietInv'
  BY SameTags DEF QuietInv, ctrlVars
<1>6. QED
  BY <1>1, <1>2, <1>4, <1>5

(* The write position after k of the nleft samples.                        *)
LEMMA PosMoved ==
  ASSUME IInv, NEW k \in Nat, nleft' = nleft - k, UNCHANGED << nread, nprocessed >>
  PROVE  WritePos' = WritePos + k
<1>1. nread + nprocessed - (nleft - k) = (nread + nprocessed - nleft) + k
  BY SinkAssumption DEF IInv, TypeOK
<1>2. QED
  BY <1>1 DEF WritePos

(* An append keeps what is said of the file.                               *)
LEMMA AppendInv ==
  ASSUME IInv, NEW k \in Nat, WritePos' = WritePos + k, stream' = stream,
         data' = Extended(WritePos, k), nwritten' = nwritten + k,
         NoBursts => ofs = "open",
         UNCHANGED << isStarted, ofs, fname, pdu, leftOpen >>
  PROVE  OpenInv' /\ DataInv' /\ CountMatchesFile'
<1> USE DEF IInv
<1> DEFINE d == Extended(WritePos, k)
<1>1. /\ WritePos \in Int
      /\ d \in FileData
      /\ d.len = 0 => d = NoData
      /\ ofs # "open" => d = data
      /\ ofs = "open" => d.len = nwritten + k
      /\ ofs = "open" /\ ~leftOpen => /\ d.next - d.first = d.len
                                      /\ d.len > 0 => d.next = WritePos + k
  BY ExtendedFile
<1> HIDE DEF d
<1>2. data' = d
  BY DEF d
<1> HIDE DEF WritePos
<1>3. OpenInv'
  BY <1>1, <1>2 DEF OpenInv
<1>4. ~leftOpen /\ ofs # "open" => d = NoData
  BY <1>1 DEF OpenInv, TypeOK, WriterTypeOK, OfsStates
<1>5. DataInv'
  BY <1>1, <1>2, <1>4 DEF DataInv, NoData
<1>6. CountMatchesFile'
  BY <1>1, <1>2, SameTags DEF CountMatchesFile, NoBursts
<1>7. QED
  BY <1>3, <1>5, <1>6

(* A whole buffer written to the single file.                              *)
LEMMA WriteEnterInv ==
  ASSUME IInv, WriteEnter
  PROVE  IInv'
<1>1. /\ pc = "write" /\ pc \in Writing /\ nleft \in Nat
      /\ UNCHANGED << ctrlVars, sampTime, stream, nread, nitems, ntoconsume,
                      doStop, nprocessed, paramVars >>
      /\ WriterTypeOK /\ nwritten \in Nat
  BY DEF WriteEnter, Writing, IInv, TypeOK, WriterTypeOK
<1>2. NoBursts => ofs = "open"
  BY <1>1, QuietWriting
<1>3. CASE nsamples = 0
  <2>1. /\ data' = Extended(WritePos, nleft) /\ nwritten' = nwritten + nleft
        /\ nleft' = 0 /\ pc' = "end"
        /\ UNCHANGED << isStarted, ofs, fname, nameCfg, nremaining, fileNum,
                        fileTime, fileTimeNext, pdu, torn, leftOpen >>
    BY <1>3 DEF WriteEnter, WriteWhole
  <2>2. Extended(WritePos, nleft) \in FileData
    BY <1>1, ExtendedFile
  <2>3. nwritten' \in Nat /\ nleft' = nleft - nleft /\ nleft' \in Nat /\ nleft' <= nleft
    BY <1>1, <2>1
  <2>4. WriterTypeOK'
    BY <1>1, <2>1, <2>2, <2>3 DEF WriterTypeOK, paramVars
  <2>5. TypeOK' /\ CallInv' /\ ModeInv' /\ QuietInv'
    BY <1>1, <2>1, <2>3, <2>4, WriteKept
  <2>6. WritePos' = WritePos + nleft
    BY <1>1, <2>3, PosMoved
  <2>7. OpenInv' /\ DataInv' /\ CountMatchesFile'
    BY <1>1, <1>2, <2>1, <2>6, AppendInv
  <2>8. QED
    BY <2>5, <2>7 DEF IInv
<1>4. CASE nsamples # 0
  <2>1. UNCHANGED << nleft, fileVars >> /\ pc' = "loop"
    BY <1>4 DEF WriteEnter
  <2>2. nleft' \in Nat /\ nleft' <= nleft
    BY <1>1, <2>1
  <2>3. WriterTypeOK'
    BY <1>1, <2>1, WriterKept DEF fileVars, paramVars, writerVars
  <2>4. TypeOK' /\ CallInv' /\ ModeInv' /\ QuietInv'
    BY <1>1, <2>1, <2>2, <2>3, WriteKept DEF fileVars
  <2>5. OpenInv' /\ DataInv' /\ CountMatchesFile'
    BY <1>1, <2>1, FileKept DEF WritePos, fileVars
  <2>6. QED
    BY <2>4, <2>5 DEF IInv
<1>5. QED
  BY <1>3, <1>4

-----------------------------------------------------------------------------
(* The file number stays a natural number when it wraps or rolls over.     *)
LEMMA NextFileNumType ==
  ASSUME TypeOK
  PROVE  NextFileNum \in Nat
<1>1. fileNum \in Nat /\ rollover \in Int /\ FileNumWidth \in Nat \ {0}
  BY WriterAssumption DEF TypeOK, WriterTypeOK
<1>2. (fileNum + 1) % FileNumWidth \in 0 .. FileNumWidth - 1
  BY <1>1
<1> DEFINE num == (fileNum + 1) % FileNumWidth
<1>3. num \in Nat
  BY <1>1, <1>2
<1> HIDE DEF num
<1>4. rollover > 0 => num % rollover \in Nat
  BY <1>1, <1>3
<1>5. QED
  BY <1>3, <1>4 DEF NextFileNum, num

(* An update whose count is the length of the contents is a true one; the  *)
(* others are of a stream that was not open, after a burst.                *)
LEMMA PublishTrue ==
  ASSUME IInv, NEW contents \in FileData, NEW count \in Nat,
         ofs = "open" \/ NoBursts => contents.len = count,
         Publish(count, contents)
  PROVE  /\ pdu' \in Pdus
         /\ pdu'.ofs = "open" \/ NoBursts => pdu'.samples = pdu'.data.len
<1>1. CASE count > 0
  <2>1. pdu' = [fname |-> fname, time |-> fileTime, nameCfg |-> nameCfg, cfg |-> cfg,
                samples |-> count, data |-> contents, ofs |-> ofs, torn |-> torn]
    BY <1>1 DEF Publish
  <2>2. QED
    BY <2>1 DEF IInv, TypeOK, WriterTypeOK, Pdus
<1>2. CASE ~(count > 0)
  BY <1>2 DEF Publish, IInv, TypeOK, WriterTypeOK, CountMatchesFile, NoBursts
<1>3. QED
  BY <1>1, <1>2

(* What the count is worth when a file is closed.                          *)
LEMMA CountTrue ==
  ASSUME IInv
  PROVE  /\ data \in FileData /\ nwritten \in Nat
         /\ ofs = "open" \/ NoBursts => data.len = nwritten
BY DEF IInv, TypeOK, WriterTypeOK, CountMatchesFile, NoBursts

(* Closing the file, with the sink's own variables out of the picture.     *)
LEMMA StopWriter ==
  ASSUME IInv, WriterStop, UNCHANGED << stream, paramVars >>
  PROVE  /\ WriterTypeOK' /\ OpenInv' /\ DataInv' /\ CountMatchesFile'
         /\ ~isStarted' /\ ~leftOpen' /\ ofs' = "closed" /\ data' = NoData
<1>1. /\ data \in FileData /\ nwritten \in Nat
      /\ ofs = "open" \/ NoBursts => data.len = nwritten
  BY CountTrue
<1>2. /\ pdu' \in Pdus
      /\ pdu'.ofs = "open" \/ NoBursts => pdu'.samples = pdu'.data.len
  BY <1>1, PublishTrue DEF WriterStop
<1>3. /\ NextFileNum \in Nat /\ NoData \in FileData /\ NoData.len = 0
      /\ NoName \in Int
  BY NextFileNumType DEF IInv, NoData, FileData, NoName
<1>4. /\ ~isStarted' /\ ~leftOpen' /\ ofs' = "closed" /\ data' = NoData
      /\ nwritten' = 0 /\ fname' = NoName /\ fileNum' = NextFileNum
      /\ isStarted' \in BOOLEAN /\ leftOpen' \in BOOLEAN
      /\ UNCHANGED << nameCfg, nremaining, fileTime, fileTimeNext, torn >>
      /\ UNCHANGED << nsamples, period, rollover, cfg >>
  BY DEF WriterStop, paramVars
<1>5. WriterTypeOK'
  BY <1>2, <1>3, <1>4 DEF IInv, TypeOK, WriterTypeOK, OfsStates
<1>6. OpenInv' /\ DataInv'
  BY <1>4 DEF OpenInv, DataInv, NoData
<1>7. CountMatchesFile'
  BY <1>2, <1>3, <1>4, SameTags DEF CountMatchesFile
<1>8. QED
  BY <1>4, <1>5, <1>6, <1>7

(* One turn of the write loop: a chunk is appended, and a file it fills is *)
(* closed and followed by the next.                                        *)
LEMMA WriteLoopInv ==
  ASSUME IInv, WriteLoop
  PROVE  IInv'
<1> DEFINE k == Chunk(nleft)
           d == Extended(WritePos, k)
<1>1. k \in Nat /\ k <= nleft /\ nremaining - k \in Nat
      /\ nleft \in Nat /\ nwritten \in Nat /\ WriterTypeOK
  BY DEF Chunk, IInv, TypeOK, WriterTypeOK
<1>2. /\ pc = "loop" /\ pc \in Writing /\ nleft' = nleft - k
      /\ UNCHANGED << ctrlVars, sampTime, stream, nread, nitems, ntoconsume,
                      doStop, nprocessed, paramVars >>
      /\ \/ nremaining = k /\ WriteAndRoll(WritePos, k) /\ pc' = "rolled"
         \/ WriteChunk(WritePos, k) /\ pc' = "loop"
  BY DEF WriteLoop, Writing
<1> HIDE DEF k
<1>3. /\ d \in FileData
      /\ ofs = "open" => d.len = nwritten + k
  BY <1>1, ExtendedFile
<1> HIDE DEF d
<1>4. nwritten + k \in Nat /\ nleft' \in Nat /\ nleft' <= nleft
  BY <1>1, <1>2
<1>5. WritePos' = WritePos + k
  BY <1>1, <1>2, PosMoved
<1>6. NoBursts => ofs = "open"
  BY <1>2, QuietWriting
<1>7. CASE WriteChunk(WritePos, k) /\ pc' = "loop"
  <2>1. /\ data' = d /\ nwritten' = nwritten + k /\ nremaining' = nremaining - k
        /\ UNCHANGED << isStarted, ofs, fname, nameCfg, fileNum, fileTime,
                        fileTimeNext, pdu, torn, leftOpen >>
    BY <1>7 DEF WriteChunk, d
  <2>2. WriterTypeOK'
    BY <1>1, <1>2, <1>3, <1>4, <2>1 DEF WriterTypeOK, paramVars
  <2>3. TypeOK' /\ CallInv' /\ ModeInv' /\ QuietInv'
    BY <1>2, <1>4, <1>7, <2>1, <2>2, WriteKept
  <2>4. OpenInv' /\ DataInv' /\ CountMatchesFile'
    BY <1>1, <1>2, <1>5, <1>6, <2>1, AppendInv DEF d
  <2>5. QED
    BY <2>3, <2>4 DEF IInv
<1>8. CASE WriteAndRoll(WritePos, k) /\ pc' = "rolled"
  <2>1. /\ Publish(nwritten + k, d)
        /\ nwritten' = 0 /\ nremaining' = nsamples
        /\ fileNum' = NextFileNum /\ fname' = NextFileNum
        /\ ofs' = "open" /\ data' = NoData /\ isStarted' = TRUE /\ leftOpen' = FALSE
        /\ torn' \in BOOLEAN
        /\ fileTime' = fileTimeNext
        /\ UNCHANGED << nameCfg, fileTimeNext >>
    BY <1>8 DEF WriteAndRoll, Refill, HalfSet, d
  <2>2. /\ pdu' \in Pdus
        /\ pdu'.ofs = "open" \/ NoBursts => pdu'.samples = pdu'.data.len
    BY <1>3, <1>4, <1>6, <2>1, PublishTrue
  <2>3. /\ NextFileNum \in Nat /\ NoData \in FileData
        /\ NoData.len = 0 /\ NoData.next - NoData.first = NoData.len
    BY NextFileNumType DEF IInv, NoData, FileData
  <2>4. /\ nsamples \in Nat /\ isStarted' \in BOOLEAN /\ leftOpen' \in BOOLEAN
    BY <2>1, WriterAssumption DEF IInv, TypeOK, WriterTypeOK
  <2>5. WriterTypeOK'
    BY <1>1, <1>2, <2>1, <2>2, <2>3, <2>4 DEF WriterTypeOK, paramVars, OfsStates
  <2>6. TypeOK' /\ CallInv' /\ ModeInv' /\ QuietInv'
    BY <1>2, <1>4, <1>8, <2>1, <2>5, WriteKept
  <2>7. OpenInv' /\ DataInv'
    BY <2>1, <2>3 DEF OpenInv, DataInv
  <2>8. CountMatchesFile'
    BY <1>2, <2>1, <2>2, <2>3, SameTags DEF CountMatchesFile
  <2>9. QED
    BY <2>6, <2>7, <2>8 DEF IInv
<1>9. QED
  BY <1>2, <1>7, <1>8

(* The time of the file after the new one is set; the loop is left with    *)
(* everything written.                                                     *)
LEMMA WriteDoneInv ==
  ASSUME IInv, WriteRolled \/ WriteDone
  PROVE  IInv'
<1>1. /\ pc \in Writing /\ pc' \in {"loop", "end"} /\ nleft' = nleft /\ nleft \in Nat
      /\ pc' = "end" => nleft' = 0
      /\ UNCHANGED << ctrlVars, sampTime, stream, nread, nitems, ntoconsume, doStop,
                      nprocessed, paramVars >>
      /\ UNCHANGED << isStarted, ofs, data, fname, nameCfg, nremaining, nwritten,
                      fileNum, fileTime, pdu, torn, leftOpen >>
      /\ fileTimeNext' \in {fileTimeNext, fileTimeNext + period}
  BY DEF WriteRolled, WriteDone, MoveTime, FilePeriod, Writing, writerVars, paramVars,
         IInv, TypeOK
<1>2. WriterTypeOK /\ fileTimeNext' \in Int
  BY <1>1, WriterAssumption DEF IInv, TypeOK, WriterTypeOK
<1>3. WriterTypeOK'
  BY <1>1, <1>2 DEF WriterTypeOK, paramVars
<1>4. nleft' \in Nat /\ nleft' <= nleft
  BY <1>1
<1>5. TypeOK' /\ CallInv' /\ ModeInv' /\ QuietInv'
  BY <1>1, <1>3, <1>4, WriteKept
<1>6. OpenInv' /\ DataInv' /\ CountMatchesFile'
  BY <1>1, FileKept DEF WritePos
<1>7. QED
  BY <1>5, <1>6 DEF IInv

-----------------------------------------------------------------------------
(* work() returns: the file is closed when a reconfiguration asks for it,  *)
(* and the samples it dealt with are consumed.                             *)
LEMMA WorkEndPos ==
  ASSUME IInv, WorkEnd
  PROVE  /\ WritePos' = WritePos
         /\ nread' \in 0 .. StreamLen /\ sampTime' \in Nat
<1>1. /\ pc = "end" /\ nleft = 0 /\ nleft' = nleft
      /\ nprocessed' = 0
      /\ nread' = nread + nprocessed /\ sampTime' = sampTime + nprocessed
  BY DEF WorkEnd, IInv, CallInv, Writing
<1>2. /\ nread \in Nat /\ nprocessed \in Nat /\ StreamLen \in Nat
      /\ sampTime \in Nat /\ nread + nprocessed <= StreamLen
  BY SinkAssumption DEF IInv, TypeOK, CallInv
<1>3. nread + nprocessed \in 0 .. StreamLen /\ sampTime + nprocessed \in Nat
  BY <1>2
<1>4. nread + nprocessed + 0 - 0 = nread + nprocessed - 0
  BY <1>2
<1>5. QED
  BY <1>1, <1>3, <1>4 DEF WritePos

LEMMA WorkEndInv ==
  ASSUME IInv, WorkEnd
  PROVE  IInv'
<1> USE DEF IInv
<1>1. /\ pc = "end" /\ pc' = "idle" /\ nleft = 0 /\ nleft' = nleft
      /\ nprocessed' = 0 /\ nitems' = 0 /\ ntoconsume' = 0 /\ doStop' = FALSE
      /\ UNCHANGED << ctrlVars, stream, paramVars >>
  BY DEF WorkEnd, CallInv, Writing
<1>2. /\ WritePos' = WritePos
      /\ nread' \in 0 .. StreamLen /\ sampTime' \in Nat
  BY WorkEndPos
<1>3. /\ WriterTypeOK' /\ OpenInv' /\ DataInv' /\ CountMatchesFile'
      /\ \/ UNCHANGED fileVars
         \/ ~isStarted' /\ ~leftOpen'
  <2>1. CASE doStop
    <3>1. WriterStop
      BY <2>1 DEF WorkEnd
    <3>2. QED
      BY <1>1, <3>1, StopWriter
  <2>2. CASE ~doStop
    <3>1. UNCHANGED fileVars
      BY <2>2 DEF WorkEnd
    <3>2. WriterTypeOK'
      BY <1>1, <3>1, WriterKept DEF TypeOK, fileVars, paramVars, writerVars
    <3>3. QED
      BY <1>1, <1>2, <3>1, <3>2, FileKept DEF fileVars
  <2>3. QED
    BY <2>1, <2>2
<1>4. TypeOK'
  <2>1. doStop' \in BOOLEAN
    BY <1>1
  <2>2. QED
    BY <1>1, <1>2, <1>3, <2>1 DEF TypeOK, ctrlVars, PcStates
<1>5. CallInv'
  <2>1. \A n \in Nat : \A x \in 0 .. n : x + 0 <= n
    OBVIOUS
  <2>2. nread' + 0 <= StreamLen
    BY <1>2, <2>1, SinkAssumption
  <2>3. nread' + nprocessed' <= StreamLen /\ nleft' <= nprocessed'
    BY <1>1, <2>2
  <2>4. QED
    BY <1>1, <2>3 DEF CallInv, Writing
<1>6. ModeInv'
  <2>1. isStarted' /\ ~leftOpen' => isStarted /\ ~leftOpen
    BY <1>3 DEF fileVars
  <2>2. Goes' <=> Goes
    BY <1>1 DEF Goes, ctrlVars
  <2>3. QED
    BY <1>1, <2>1, <2>2 DEF ModeInv, Writing
<1>7. QuietInv'
  BY <1>1, <1>3, SameTags DEF QuietInv, ctrlVars, fileVars
<1>8. QED
  BY <1>3, <1>4, <1>5, <1>6, <1>7


-----------------------------------------------------------------------------
(* The control calls that stop the writer, or leave its file open.         *)
LEMMA ControlStopInv ==
  ASSUME IInv,
         Stop \/ (\E state \in BOOLEAN : SetRecording(state))
              \/ (\E m \in Modes : SetMode(m))
  PROVE  IInv'
<1> USE SinkAssumption DEF IInv
<1>1. /\ pc \in {"idle", "finished"} /\ pc' \in {"idle", "finished"}
      /\ pc' = "idle" => pc = "idle"
      /\ nleft = 0 /\ nprocessed = 0
      /\ UNCHANGED << stream, nread, nitems, ntoconsume, doStop, nprocessed, nleft,
                      ndiscard, align, sampTime, paramVars >>
      /\ mode' \in Modes /\ recording' \in BOOLEAN
      /\ checkStart' \in BOOLEAN /\ issueStart' \in BOOLEAN
      /\ burstState' \in {0, burstState}
  BY DEF Stop, SetRecording, SetMode, Unlocked, CallInv, Writing, callVars, ctrlVars, TypeOK
<1>2. WritePos' = WritePos
  BY <1>1 DEF WritePos
<1>3. /\ WriterTypeOK' /\ OpenInv' /\ DataInv' /\ CountMatchesFile'
      /\ isStarted' /\ ~leftOpen' => isStarted /\ ~leftOpen /\ Goes /\ Goes'
      /\ NoBursts => ~leftOpen'
  <2>1. CASE WriterStop
    <3>1. ~isStarted' /\ ~leftOpen'
      BY <1>1, <2>1, StopWriter
    <3>2. QED
      BY <1>1, <2>1, <3>1, StopWriter
  <2>2. CASE UNCHANGED fileVars /\ mode' = mode /\ ~recording /\ recording' /\ issueStart' = FALSE
             /\ UNCHANGED burstState
    <3>1. WriterTypeOK'
      BY <1>1, <2>2, WriterKept DEF TypeOK, fileVars, paramVars, writerVars
    <3>2. OpenInv' /\ DataInv' /\ CountMatchesFile'
      BY <1>1, <1>2, <2>2, FileKept DEF fileVars
    <3>3. isStarted /\ ~leftOpen => mode # "MANUAL" /\ Goes
      BY <2>2 DEF ModeInv, Goes
    <3>4. NoBursts => ~leftOpen
      BY DEF QuietInv
    <3>5. mode # "MANUAL" /\ Goes => Goes'
      BY <2>2 DEF Goes
    <3>6. isStarted' /\ ~leftOpen' => isStarted /\ ~leftOpen
      BY <2>2 DEF fileVars
    <3>7. leftOpen' = leftOpen
      BY <2>2 DEF fileVars
    <3>8. QED
      BY <3>1, <3>2, <3>3, <3>4, <3>5, <3>6, <3>7
  <2>3. CASE LeaveOpen /\ ~recording
    <3>1. /\ UNCHANGED << isStarted, ofs, data, fname, nameCfg, nremaining, nwritten,
                          fileNum, fileTime, fileTimeNext, pdu, torn >>
          /\ leftOpen' = isStarted
      BY <2>3 DEF LeaveOpen
    <3>2. isStarted \in BOOLEAN
      BY DEF TypeOK, WriterTypeOK
    <3>3. WriterTypeOK'
      BY <1>1, <3>1, <3>2 DEF TypeOK, WriterTypeOK, paramVars
    <3>4. OpenInv'
      BY <3>1, <3>2 DEF OpenInv
    <3>5. data.len = 0 \/ isStarted
      BY DEF OpenInv, NoData
    <3>6. DataInv'
      BY <3>1, <3>5 DEF DataInv, NoData, OpenInv
    <3>7. CountMatchesFile'
      BY <1>1, <3>1, SameTags DEF CountMatchesFile, NoBursts
    <3>8. NoBursts => ~isStarted
      BY <2>3 DEF QuietInv, ModeInv, Goes
    <3>9. QED
      BY <3>1, <3>3, <3>4, <3>6, <3>7, <3>8
  <2>4. Stop => WriterStop
    BY DEF Stop
  <2>5. ASSUME NEW state \in BOOLEAN, SetRecording(state)
        PROVE  WriterStop \/ (UNCHANGED fileVars /\ mode' = mode /\ ~recording /\ recording'
                              /\ issueStart' = FALSE /\ UNCHANGED burstState)
    BY <2>5 DEF SetRecording
  <2>6. ASSUME NEW m \in Modes, SetMode(m)
        PROVE  WriterStop \/ (LeaveOpen /\ ~recording)
    BY <2>6 DEF SetMode
  <2>7. QED
    BY <2>1, <2>2, <2>3, <2>4, <2>5, <2>6
<1>4. TypeOK'
  <2>1. burstState' \in {0, 1} /\ pc' \in PcStates
    BY <1>1 DEF TypeOK, PcStates
  <2>2. QED
    BY <1>1, <1>3, <2>1 DEF TypeOK
<1>5. CallInv'
  BY <1>1 DEF CallInv, Writing
<1>6. ModeInv'
  BY <1>1, <1>3 DEF ModeInv, Writing
<1>7. QuietInv'
  <2>1. ~doStop'
    BY <1>1 DEF CallInv
  <2>2. QED
    BY <1>1, <1>3, <2>1, SameTags DEF QuietInv
<1>8. QED
  BY <1>3, <1>4, <1>5, <1>6, <1>7

(* The setters, which may fall between any two steps: the file stays as it *)
(* is.                                                                     *)
Setter ==
  \/ \E b \in BOOLEAN : SetSecondAlign(b)
  \/ \E n \in NSampleChoices : SetNsamples(n)
  \/ SetPeriod
  \/ \E r \in RolloverChoices : SetFileNumRollover(r)
  \/ SetFreq

LEMMA SetterFacts ==
  ASSUME TypeOK, Setter
  PROVE  /\ UNCHANGED << isStarted, ofs, data, fname, nameCfg, nremaining, nwritten,
                         fileNum, fileTime, fileTimeNext, pdu, leftOpen >>
         /\ UNCHANGED << mode, recording, checkStart, issueStart, burstState, ndiscard,
                         sampTime, stream, nread, callVars >>
         /\ align' \in BOOLEAN /\ torn' \in BOOLEAN
         /\ nsamples' \in NSampleChoices /\ period' \in NSampleChoices
         /\ rollover' \in RolloverChoices /\ cfg' \in Int
<1> USE DEF TypeOK, WriterTypeOK
<1>1. ASSUME NEW b \in BOOLEAN, SetSecondAlign(b)
      PROVE  /\ UNCHANGED << writerVars, mode, recording, checkStart, issueStart,
                             burstState, ndiscard, sampTime, stream, nread, callVars >>
             /\ align' \in BOOLEAN
  BY <1>1 DEF SetSecondAlign
<1>2. ASSUME (\E n \in NSampleChoices : SetNsamples(n)) \/ SetPeriod
      PROVE  /\ UNCHANGED << isStarted, ofs, data, fname, nameCfg, nremaining, nwritten,
                             fileNum, fileTime, fileTimeNext, pdu, leftOpen >>
             /\ torn' = (torn \/ Between)
             /\ nsamples' \in NSampleChoices /\ period' \in NSampleChoices
             /\ UNCHANGED << sinkVars, rollover, cfg >>
  BY <1>2 DEF SetNsamples, SetPeriod, Tear
<1>3. ASSUME (\E r \in RolloverChoices : SetFileNumRollover(r)) \/ SetFreq
      PROVE  /\ UNCHANGED << fileVars, sinkVars, nsamples, period >>
             /\ rollover' \in RolloverChoices /\ cfg' \in Int
  BY <1>3 DEF SetFileNumRollover, SetFreq, UserCfg
<1>4. CASE \E b \in BOOLEAN : SetSecondAlign(b)
  BY <1>1, <1>4 DEF writerVars
<1>5. CASE (\E n \in NSampleChoices : SetNsamples(n)) \/ SetPeriod
  <2>1. torn' \in BOOLEAN
    BY <1>2, <1>5
  <2>2. QED
    BY <1>2, <1>5, <2>1 DEF sinkVars, callVars
<1>6. CASE (\E r \in RolloverChoices : SetFileNumRollover(r)) \/ SetFreq
  BY <1>3, <1>6 DEF sinkVars, callVars, fileVars
<1>7. QED
  BY <1>4, <1>5, <1>6 DEF Setter

LEMMA SetterInv ==
  ASSUME IInv, Setter
  PROVE  IInv'
<1> USE DEF IInv
<1>1. /\ UNCHANGED << isStarted, ofs, data, fname, nameCfg, nremaining, nwritten,
                      fileNum, fileTime, fileTimeNext, pdu, leftOpen >>
      /\ UNCHANGED << mode, recording, checkStart, issueStart, burstState, ndiscard,
                      sampTime, stream, nread, callVars >>
      /\ align' \in BOOLEAN /\ torn' \in BOOLEAN
      /\ nsamples' \in NSampleChoices /\ period' \in NSampleChoices
      /\ rollover' \in RolloverChoices /\ cfg' \in Int
  BY SetterFacts
<1>2. WriterTypeOK'
  BY <1>1 DEF TypeOK, WriterTypeOK
<1>3. TypeOK'
  BY <1>1, <1>2 DEF TypeOK, callVars
<1>4. CallInv'
  BY <1>1 DEF CallInv, Writing, callVars
<1>5. ModeInv'
  BY <1>1 DEF ModeInv, Goes, Writing, callVars
<1>6. QuietInv'
  BY <1>1, SameTags DEF QuietInv, callVars
<1>7. OpenInv' /\ DataInv' /\ CountMatchesFile'
  BY <1>1, FileKept DEF WritePos, callVars
<1>8. QED
  BY <1>3, <1>4, <1>5, <1>6, <1>7

(* The steps of the sink, by what they do to the file.                     *)
Stopping ==
  Stop \/ (\E state \in BOOLEAN : SetRecording(state)) \/ (\E m \in Modes : SetMode(m))
Starting == BurstStart \/ \E extra \in Rounding : ManualStart(extra)
Opening == ManualOpen \/ BurstOpen

LEMMA Steps ==
  ASSUME Next
  PROVE  \/ \E n \in 1 .. MaxItems : HandleTags(n)
         \/ SkipCall \/ FindBurst
         \/ Starting \/ Opening \/ GoOn \/ BurstCrash
         \/ WriteEnter \/ WriteLoop \/ WriteRolled \/ WriteDone
         \/ WorkEnd
         \/ Setter \/ Stopping
BY DEF Next, WorkStep, ControlCall, SkipCall, Starting, Opening, GoOn, Setter, Stopping

(* The invariant is inductive.                                             *)
LEMMA NextInv ==
  ASSUME IInv, [Next]_vars
  PROVE  IInv'
<1>1. CASE UNCHANGED vars
  <2> USE <1>1 DEF IInv, vars, sinkVars, writerVars
  <2>1. TypeOK'
    BY DEF TypeOK, WriterTypeOK
  <2>2. CallInv' /\ ModeInv' /\ QuietInv'
    BY SameTags DEF CallInv, ModeInv, Goes, QuietInv, Writing
  <2>3. OpenInv' /\ DataInv' /\ CountMatchesFile'
    BY FileKept DEF WritePos
  <2>4. QED
    BY <2>1, <2>2, <2>3
<1>2. CASE Next
  BY <1>2, Steps, HandleTagsInv, SkipInv, StartingInv, OpeningInv, GoOnInv, CrashInv,
     WriteEnterInv, WriteLoopInv, WriteDoneInv, WorkEndInv, ControlStopInv, SetterInv
  DEF Starting, Opening, Stopping
<1>3. QED
  BY <1>1, <1>2

-----------------------------------------------------------------------------
(* Every reachable state of the sink satisfies the inductive invariant: in *)
(* particular work() never reads past its window, and only a stream that a *)
(* change of mode left open is ever opened again.                          *)
THEOREM Invariance == Spec => []IInv
<1>1. Init => IInv
  BY InitInv
<1>2. IInv /\ [Next]_vars => IInv'
  BY NextInv
<1>3. QED
  BY <1>1, <1>2, PTL DEF Spec

(* The variables of the sink keep their types.                             *)
THEOREM TypeCorrect == Spec => []TypeOK
<1>1. IInv => TypeOK
  BY DEF IInv
<1>2. QED
  BY <1>1, Invariance, PTL

(* In either mode and whatever setters are called between the steps of a   *)
(* write, set_nsamples(0) included: the count the writer keeps of a file   *)
(* that takes samples, and the one the update about it reports, is the     *)
(* number of samples that reached it; without bursts, so is every count.   *)
THEOREM CountCorrect == Spec => []CountMatchesFile
<1>1. IInv => CountMatchesFile
  BY DEF IInv
<1>2. QED
  BY <1>1, Invariance, PTL

-----------------------------------------------------------------------------
(* The sink refines the Recorder.                                          *)

RecorderStep == [RecorderView!Next]_(RecorderView!vars)

(* What the file and its position satisfy in every reachable state.        *)
LEMMA RecorderTypes ==
  ASSUME IInv
  PROVE  /\ WritePos \in Int
         /\ data \in FileData /\ data.len \in Nat /\ nwritten \in Nat
         /\ data.len = 0 => data = NoData
         /\ ofs = "open" \/ NoBursts => data.len = nwritten
         /\ ofs # "open" /\ ~Astray => data = NoData /\ nwritten = 0
         /\ nread \in Nat /\ nprocessed \in Nat /\ nleft \in Nat
<1>1. ofs # "open" => ofs = "closed" \/ leftOpen
  BY DEF IInv, TypeOK, WriterTypeOK, OfsStates, OpenInv
<1>2. ofs # "open" /\ ~Astray => NoBursts
  BY <1>1 DEF Astray, NoBursts
<1>3. NoBursts /\ ofs # "open" => data = NoData /\ nwritten = 0
  <2> SUFFICES ASSUME NoBursts, ofs # "open"
               PROVE  data = NoData /\ nwritten = 0
    OBVIOUS
  <2>1. ofs = "closed"
    BY <1>1 DEF IInv, QuietInv
  <2>2. data = NoData /\ nwritten = data.len
    BY <2>1 DEF IInv, OpenInv, CountMatchesFile, NoBursts
  <2>3. QED
    BY <2>2 DEF NoData
<1>4. QED
  BY <1>2, <1>3, SinkAssumption
  DEF IInv, TypeOK, WriterTypeOK, FileData, DataInv, CountMatchesFile, NoBursts, WritePos

(* Steps that leave the file and the position alone.                       *)
LEMMA StutterStep ==
  ASSUME WritePos' = WritePos, data' = data, pdu' = pdu
  PROVE  RecorderStep
BY DEF RecorderStep, RecorderView!vars

(* Steps of a sink that has gone astray.                                   *)
LEMMA StrayStep ==
  ASSUME Astray, WritePos' >= WritePos, data' \in {data, NoData},
         pdu'.data \in {pdu.data, data}
  PROVE  RecorderStep
<1>1. RecorderView!Stray
  BY DEF RecorderView!Stray, RecorderView!Empty, NoData
<1>2. QED
  BY <1>1 DEF RecorderStep, RecorderView!Next

(* Closing the file announces it as it stands, or nothing if it is empty.  *)
LEMMA CloseStep ==
  ASSUME IInv, data' = NoData, Publish(nwritten, data), WritePos' = WritePos
  PROVE  RecorderStep
<1>1. /\ WritePos \in Int
      /\ data.len = 0 => data = NoData
      /\ nwritten \in Nat /\ data.len \in Nat
      /\ ofs = "open" => data.len = nwritten
      /\ ofs # "open" /\ ~Astray => data = NoData /\ nwritten = 0
  BY RecorderTypes
<1>2. CASE data = NoData /\ nwritten = 0
  BY <1>1, <1>2, StutterStep DEF Publish
<1>3. CASE data.len = nwritten /\ nwritten > 0
  <2>1. pdu'.data = data
    BY <1>3 DEF Publish
  <2>2. RecorderView!Close
    BY <1>3, <2>1 DEF RecorderView!Close, RecorderView!Empty, NoData
  <2>3. QED
    BY <2>2 DEF RecorderStep, RecorderView!Next
<1>4. CASE Astray
  <2>1. pdu'.data \in {pdu.data, data}
    BY DEF Publish
  <2>2. WritePos' >= WritePos
    BY <1>1
  <2>3. QED
    BY <1>4, <2>1, <2>2, StrayStep
<1>5. QED
  BY <1>1, <1>2, <1>3, <1>4

(* Appending k samples to an open file.                                    *)
LEMMA AppendedFile ==
  ASSUME IInv, ofs = "open", NEW k \in Nat, k > 0, WritePos' = WritePos + k
  PROVE  /\ WritePos' > WritePos
         /\ Extended(WritePos, k) = RecorderView!Appended(WritePos' - WritePos)
<1>1. WritePos \in Int
  BY RecorderTypes
<1> HIDE DEF WritePos
<1>2. WritePos + k > WritePos /\ (WritePos + k) - WritePos = k
  BY <1>1
<1>3. Extended(WritePos, k) = [first |-> IF data.len = 0 THEN WritePos ELSE data.first,
                               next |-> WritePos + k, len |-> data.len + k]
  BY <1>1 DEF Extended
<1>4. WritePos' - WritePos = k
  BY <1>2
<1>5. RecorderView!Appended(k) = Extended(WritePos, k)
  BY <1>3 DEF RecorderView!Appended
<1>6. QED
  BY <1>2, <1>4, <1>5

(* A call that skips samples has no file open, but for one left open.      *)
LEMMA SkipStep ==
  ASSUME IInv, SkipCall \/ FindBurst
  PROVE  RecorderStep
<1>1. /\ isStarted => leftOpen
      /\ pc = "tagged" /\ nleft' = 0
      /\ UNCHANGED << nread, writerVars >>
  BY SkipNoFile
<1>2. nprocessed = 0 /\ nleft = 0 /\ nread \in Nat
  BY <1>1, RecorderTypes DEF IInv, CallInv, Writing
<1>3. PICK k \in Nat : nprocessed' = k
  <2>1. nprocessed' \in Nat
    BY SkipInv DEF IInv, TypeOK
  <2>2. QED
    BY <2>1
<1>4. nread + k - 0 >= nread + 0 - 0
  BY <1>2
<1>5. WritePos' >= WritePos
  BY <1>1, <1>2, <1>3, <1>4 DEF WritePos
<1>6. CASE leftOpen
  <2>1. Astray
    BY <1>6 DEF IInv, QuietInv, Astray, NoBursts
  <2>2. QED
    BY <1>1, <1>5, <2>1, StrayStep DEF writerVars
<1>7. CASE ~leftOpen
  <2>1. data = NoData
    BY <1>1, <1>7 DEF IInv, OpenInv, TypeOK, WriterTypeOK, OfsStates
  <2>2. RecorderView!Skip
    BY <1>1, <1>5, <2>1 DEF RecorderView!Skip, NoData, writerVars
  <2>3. QED
    BY <2>2 DEF RecorderStep, RecorderView!Next
<1>8. QED
  BY <1>6, <1>7

(* Appending to the file that is open, or offering what a stream that is   *)
(* not open does not take.                                                 *)
LEMMA AppendStep ==
  ASSUME IInv, pc \in Writing, NEW k \in Nat, WritePos' = WritePos + k,
         data' = Extended(WritePos, k), pdu' = pdu
  PROVE  RecorderStep
<1>1. /\ WritePos \in Int
      /\ ofs # "open" /\ ~Astray => data = NoData /\ nwritten = 0
      /\ ofs = "open" => data.len = nwritten
  BY RecorderTypes
<1>2. CASE k = 0
  <2>1. WritePos + 0 = WritePos
    BY <1>1
  <2>2. QED
    BY <1>2, <2>1, StutterStep DEF Extended
<1>3. CASE k > 0 /\ ofs = "open"
  <2>1. RecorderView!Append
    BY <1>3, AppendedFile DEF RecorderView!Append
  <2>2. QED
    BY <2>1 DEF RecorderStep, RecorderView!Next
<1>4. CASE ofs # "open"
  <2>1. data' = data
    BY <1>4 DEF Extended
  <2>2. Astray
    BY <1>4, QuietWriting
    DEF IInv, OpenInv, TypeOK, WriterTypeOK, OfsStates, Astray, NoBursts
  <2>3. WritePos' >= WritePos
    BY <1>1
  <2>4. QED
    BY <2>1, <2>2, <2>3, StrayStep
<1>5. QED
  BY <1>2, <1>3, <1>4

(* Filling a file closes it in the same step.                              *)
LEMMA RollStep ==
  ASSUME IInv, pc \in Writing, NEW k \in Nat, WritePos' = WritePos + k,
         Publish(nwritten + k, Extended(WritePos, k)), data' = NoData
  PROVE  RecorderStep
<1>1. WritePos \in Int /\ nwritten \in Nat
  BY RecorderTypes
<1>2. CASE k = 0
  <2>1. WritePos + 0 = WritePos /\ nwritten + 0 = nwritten
    BY <1>1
  <2>2. WritePos' = WritePos /\ Publish(nwritten, data)
    BY <1>2, <2>1 DEF Extended
  <2>3. QED
    BY <2>2, CloseStep
<1>3. CASE k > 0 /\ ofs = "open"
  <2>1. nwritten + k > 0
    BY <1>1, <1>3
  <2>2. pdu'.data = Extended(WritePos, k)
    BY <2>1 DEF Publish
  <2>3. RecorderView!AppendAndClose
    BY <1>3, <2>2, AppendedFile
    DEF RecorderView!AppendAndClose, RecorderView!Empty, NoData
  <2>4. QED
    BY <2>3 DEF RecorderStep, RecorderView!Next
<1>4. CASE ofs # "open"
  <2>1. Extended(WritePos, k) = data
    BY <1>4 DEF Extended
  <2>2. Astray
    BY <1>4, QuietWriting
    DEF IInv, OpenInv, TypeOK, WriterTypeOK, OfsStates, Astray, NoBursts
  <2>3. WritePos' >= WritePos
    BY <1>1
  <2>4. pdu'.data \in {pdu.data, data}
    BY <2>1 DEF Publish
  <2>5. QED
    BY <2>2, <2>3, <2>4, StrayStep
<1>5. QED
  BY <1>2, <1>3, <1>4

LEMMA WriteStep ==
  ASSUME IInv, WriteEnter \/ WriteLoop
  PROVE  RecorderStep
<1>1. pc \in Writing /\ nleft \in Nat
  BY DEF WriteEnter, WriteLoop, Writing, IInv, TypeOK
<1>2. CASE WriteEnter /\ nsamples # 0
  BY <1>2, StutterStep DEF WriteEnter, fileVars, WritePos
<1>3. CASE WriteEnter /\ nsamples = 0
  <2>1. nleft' = nleft - nleft /\ UNCHANGED << nread, nprocessed >>
    BY <1>1, <1>3 DEF WriteEnter
  <2>2. WritePos' = WritePos + nleft
    BY <1>1, <2>1, PosMoved
  <2>3. QED
    BY <1>1, <1>3, <2>2, AppendStep DEF WriteEnter, WriteWhole
<1>4. CASE WriteLoop
  <2> DEFINE k == Chunk(nleft)
  <2>1. k \in Nat
    BY DEF Chunk, IInv, TypeOK, WriterTypeOK
  <2>2. /\ nleft' = nleft - k /\ UNCHANGED << nread, nprocessed >>
        /\ WriteAndRoll(WritePos, k) \/ WriteChunk(WritePos, k)
    BY <1>4 DEF WriteLoop
  <2> HIDE DEF k
  <2>3. WritePos' = WritePos + k
    BY <2>1, <2>2, PosMoved
  <2>4. CASE WriteChunk(WritePos, k)
    BY <1>1, <2>1, <2>3, <2>4, AppendStep DEF WriteChunk
  <2>5. CASE WriteAndRoll(WritePos, k)
    BY <1>1, <2>1, <2>3, <2>5, RollStep DEF WriteAndRoll
  <2>6. QED
    BY <2>2, <2>4, <2>5
<1>5. QED
  BY <1>2, <1>3, <1>4

(* The end of a call and the control calls close the file or leave it.     *)
LEMMA CallStep ==
  ASSUME IInv, WorkEnd \/ Setter \/ Stopping
  PROVE  RecorderStep
<1>1. ASSUME WritePos' = WritePos, WriterStop \/ UNCHANGED << data, pdu >>
      PROVE  RecorderStep
  BY <1>1, CloseStep, StutterStep DEF WriterStop
<1>2. CASE WorkEnd
  BY <1>1, <1>2, WorkEndPos DEF WorkEnd, fileVars
<1>3. CASE Setter
  <2>1. TypeOK
    BY DEF IInv
  <2>2. UNCHANGED << nread, nprocessed, nleft, data, pdu >>
    BY <1>3, <2>1, SetterFacts DEF callVars
  <2>3. QED
    BY <1>1, <2>2 DEF WritePos
<1>4. CASE Stopping
  <2>1. UNCHANGED << nread, nprocessed, nleft >>
    BY <1>4 DEF Stopping, SetRecording, SetMode, Stop, callVars
  <2>2. WriterStop \/ UNCHANGED << data, pdu >>
    BY <1>4 DEF Stopping, SetRecording, SetMode, Stop, LeaveOpen, fileVars
  <2>3. QED
    BY <1>1, <2>1, <2>2 DEF WritePos
<1>5. QED
  BY <1>2, <1>3, <1>4

(* The steps that end with a write at the place where it begins.           *)
LEMMA EnterStep ==
  ASSUME IInv, Opening \/ GoOn
  PROVE  RecorderStep
<1>1. nread \in Nat /\ nprocessed = 0 /\ nleft = 0 /\ nread' = nread
  <2>1. pc \in {"start", "tagged"} /\ nread' = nread
    BY OpenFacts, GoOnFacts DEF Opening
  <2>2. QED
    BY <2>1, RecorderTypes DEF IInv, CallInv, Writing
<1>2. \/ \E k \in Nat : Write(k)
      \/ UNCHANGED << nprocessed, nleft >>
  <2>1. ntoconsume \in Nat
    BY DEF IInv, TypeOK
  <2>2. QED
    BY <2>1, OpenFacts, GoOnFacts DEF Opening
<1>3. WritePos' = WritePos
  <2>1. ASSUME NEW k \in Nat, Write(k)
        PROVE  WritePos' = WritePos
    <3>1. nread + k - k = nread + 0 - 0
      BY <1>1, SamePos
    <3>2. QED
      BY <1>1, <2>1, <3>1 DEF WritePos, Write
  <2>2. CASE UNCHANGED << nprocessed, nleft >>
    BY <1>1, <2>2 DEF WritePos
  <2>3. QED
    BY <1>2, <2>1, <2>2
<1>4. data' = data /\ pdu' = pdu
  <2>1. CASE Opening
    <3>1. pdu' = pdu /\ (IF ofs = "closed" THEN data' = NoData ELSE data' = data)
      BY <2>1, OpenFacts DEF Opening
    <3>2. ofs = "closed" => data = NoData
      BY DEF IInv, OpenInv
    <3>3. QED
      BY <3>1, <3>2
  <2>2. CASE GoOn
    BY <2>2, GoOnFacts DEF writerVars
  <2>3. QED
    BY <2>1, <2>2
<1>5. QED
  BY <1>3, <1>4, StutterStep

(* Every step of the sink is a step of the Recorder, or leaves it alone.   *)
LEMMA NextStep ==
  ASSUME IInv, [Next]_vars
  PROVE  RecorderStep
<1>1. CASE \E n \in 1 .. MaxItems : HandleTags(n)
  BY <1>1, StutterStep DEF HandleTags, WritePos, fileVars
<1>2. CASE Starting
  BY <1>2, StutterStep DEF Starting, BurstStart, ManualStart, WriterStart, WritePos
<1>3. CASE BurstCrash \/ WriteRolled \/ WriteDone
  BY <1>3, StutterStep
  DEF BurstCrash, WriteRolled, MoveTime, WriteDone, WritePos, writerVars
<1>4. CASE UNCHANGED vars
  BY <1>4, StutterStep DEF vars, sinkVars, writerVars, WritePos
<1>5. QED
  BY <1>1, <1>2, <1>3, <1>4, Steps, SkipStep, EnterStep, WriteStep, CallStep

(* The sink implements the Recorder: for every stream, every cutting into  *)
(* windows and every interleaving of control calls, a file has no hole and *)
(* is announced as it stands when it is closed, but where a burst or a     *)
(* change of mode during one leads the sink astray.                        *)
THEOREM RecordingCorrect == Spec => Recording
<1>1. Init => RecorderView!Init
  BY DEF Init, WriterInit, WritePos, RecorderView!Init, RecorderView!Empty, NoData,
         NoPdu
<1>2. IInv /\ [Next]_vars => [RecorderView!Next]_(RecorderView!vars)
  BY NextStep DEF RecorderStep
<1>3. QED
  BY <1>1, <1>2, Invariance, PTL DEF Spec, Recording, RecorderView!Spec

-----------------------------------------------------------------------------
(* The files themselves.  Each part below is inductive beside IInv.        *)

(* How far this call of work() goes.                                       *)
CallEnd == nread + (IF pc \in {"tagged", "start"} THEN ntoconsume ELSE nprocessed)

(* With spaced reconfigurations, a call that may write has none in the     *)
(* samples it handles, but for the first sample of the file or of the call.*)
WindowInv ==
  Spaced /\ (pc \in {"tagged", "start"} \/ pc \in Writing) =>
    \A i \in ConfigTags :
      \/ i < nread
      \/ i >= CallEnd
      \/ i = nread /\ (data.len > 0 => data.first >= nread)

(* Without rx_time tags the sink's clock is the sample count; and where no *)
(* set_nsamples fell between the two reads of an opening, the writer's two *)
(* times are those of the file's first sample and of the next file's.      *)
TimeInv ==
  TimeTags = {} =>
    /\ sampTime = nread
    /\ 0 \notin NSampleChoices /\ ~torn =>
         /\ isStarted => fileTime + nwritten = WritePos
         /\ isStarted /\ pc # "rolled" => fileTimeNext = fileTime + nwritten + nremaining
         /\ pc = "start" => /\ fileTime = nread /\ fileTimeNext = nread + period
                            /\ period = nsamples
         /\ pc = "rolled" => /\ nwritten = 0 /\ nremaining = period
                             /\ fileTimeNext = fileTime

(* A recording without a file, or about to lose it, has a start due or a   *)
(* reconfiguration past the end of this call.                              *)
StartInv ==
  mode = "MANUAL" /\ recording /\ pc # "finished" /\ (isStarted => doStop) =>
    checkStart \/ issueStart \/ \E i \in ConfigTags : i >= CallEnd

(* The stream, and with it its tags, is given.                             *)
LEMMA GivenStream ==
  ASSUME [Next]_vars
  PROVE  /\ stream' = stream
         /\ ConfigTags' = ConfigTags /\ TimeTags' = TimeTags
         /\ (TagsAt("sob") = {})' <=> NoBursts
<1>1. stream' = stream
  BY DEF Next, WorkStep, ControlCall, HandleTags, ManualIdle, ManualDiscard, ManualStart,
     ManualOpen, ManualContinue, ManualWait, SeekBurst, FindBurst, BurstStart, BurstOpen,
     BurstData, BurstEnd, BurstCrash, WriteEnter, WriteLoop, WriteRolled, WriteDone,
     WorkEnd, SetRecording, SetMode, SetSecondAlign, SetNsamples, SetPeriod,
     SetFileNumRollover, SetFreq, Stop, sinkVars, vars
<1>2. QED
  BY <1>1, SameTags DEF ConfigTags, TimeTags

(* What is open, and who writes, when there are no bursts.                 *)
LEMMA QuietFacts ==
  ASSUME NoBursts, IInv
  PROVE  /\ isStarted => mode = "MANUAL" /\ Goes
         /\ isStarted <=> ofs = "open"
         /\ ~isStarted => data = NoData /\ nwritten = 0
         /\ pc \in Writing => isStarted
         /\ pc = "start" => ~isStarted /\ mode = "MANUAL"
         /\ doStop => isStarted
         /\ data.len = nwritten /\ ~leftOpen
<1>1. /\ ~leftOpen /\ ofs # "failed" /\ burstState = 0
      /\ pc \in Writing => ofs = "open" /\ isStarted
      /\ doStop => isStarted
  BY QuietWriting DEF IInv, QuietInv
<1>2. isStarted => mode = "MANUAL" /\ Goes
  BY <1>1 DEF IInv, ModeInv, Goes
<1>3. isStarted <=> ofs = "open"
  BY <1>1 DEF IInv, OpenInv, TypeOK, WriterTypeOK, OfsStates
<1>4. data.len = nwritten /\ (~isStarted => data = NoData)
  BY <1>1 DEF IInv, OpenInv, CountMatchesFile, NoBursts
<1>5. pc = "start" => ~isStarted /\ mode = "MANUAL"
  BY <1>1, <1>2 DEF IInv, ModeInv, Goes
<1>6. QED
  BY <1>1, <1>2, <1>3, <1>4, <1>5 DEF NoData

(* The steps when no burst ever starts: a change of mode leaves nothing    *)
(* open.                                                                   *)
LEMMA QuietSteps ==
  ASSUME NoBursts, IInv, [Next]_vars
  PROVE  \/ \E n \in 1 .. MaxItems : HandleTags(n)
         \/ SkipCall
         \/ \E extra \in Rounding : ManualStart(extra)
         \/ ManualOpen
         \/ ManualContinue
         \/ WriteEnter
         \/ WriteLoop
         \/ WriteRolled
         \/ WriteDone
         \/ WorkEnd
         \/ Setter
         \/ Stopping
         \/ UNCHANGED vars
BY NoBurstFound, Steps DEF Starting, Opening, GoOn

(* What closes the file from outside work(), or leaves it.                 *)
LEMMA StoppingSteps ==
  ASSUME IInv, Stopping
  PROVE  /\ UNCHANGED << sampTime, nread, ntoconsume, nprocessed, nleft, doStop, paramVars >>
         /\ pc \in {"idle", "finished"} /\ pc' \in {"idle", "finished"}
         /\ \/ UNCHANGED fileVars
            \/ LeaveOpen
            \/ WriterStop
         /\ NoBursts => UNCHANGED fileVars \/ WriterStop
<1>1. /\ UNCHANGED << sampTime, nread, ntoconsume, nprocessed, nleft, doStop, paramVars >>
      /\ pc \in {"idle", "finished"} /\ pc' \in {"idle", "finished"}
      /\ \/ UNCHANGED fileVars
         \/ LeaveOpen /\ ~recording
         \/ WriterStop
  BY DEF Stopping, SetRecording, SetMode, Stop, callVars, Unlocked, ctrlVars
<1>2. ASSUME NoBursts, LeaveOpen, ~recording
      PROVE  UNCHANGED fileVars
  <2>1. ~isStarted /\ ~leftOpen
    BY <1>2, QuietFacts DEF Goes
  <2>2. isStarted = FALSE /\ leftOpen = FALSE
    BY <2>1 DEF IInv, TypeOK, WriterTypeOK
  <2>3. QED
    BY <1>2, <2>2 DEF LeaveOpen, fileVars
<1>3. QED
  BY <1>1, <1>2

(* What the steps do to the file.                                          *)
LEMMA FileSteps ==
  ASSUME IInv, [Next]_vars
  PROVE  \/ UNCHANGED << isStarted, data, nremaining, nwritten, pdu >>
         \/ Opening
         \/ WriteEnter /\ nsamples = 0
         \/ WriteLoop
         \/ WriterStop
<1> DEFINE Same == UNCHANGED << isStarted, data, nremaining, nwritten, pdu >>
<1>1. CASE Next
  <2>1. CASE \E n \in 1 .. MaxItems : HandleTags(n)
    BY <2>1 DEF HandleTags, fileVars
  <2>2. CASE SkipCall \/ FindBurst
    BY <2>2, SkipNoFile DEF writerVars
  <2>3. CASE Starting
    BY <2>3 DEF Starting, BurstStart, ManualStart, WriterStart
  <2>4. CASE GoOn
    BY <2>4, GoOnFacts DEF writerVars
  <2>5. CASE BurstCrash \/ WriteRolled \/ WriteDone
    BY <2>5 DEF BurstCrash, WriteRolled, MoveTime, WriteDone, writerVars
  <2>6. CASE WriteEnter \/ WorkEnd
    BY <2>6 DEF WriteEnter, WorkEnd, fileVars
  <2>7. CASE Setter
    <3>1. TypeOK
      BY DEF IInv
    <3>2. QED
      BY <2>7, <3>1, SetterFacts
  <2>8. CASE Stopping
    BY <2>8, StoppingSteps DEF LeaveOpen, fileVars
  <2>9. QED
    BY <1>1, <2>1, <2>2, <2>3, <2>4, <2>5, <2>6, <2>7, <2>8, Steps
<1>2. CASE UNCHANGED vars
  BY <1>2 DEF vars, writerVars
<1>3. QED
  BY <1>1, <1>2

-----------------------------------------------------------------------------
(* No file outgrows its limit.                                             *)
LEMMA SizeStep ==
  ASSUME IInv, FileSizeBounded, [Next]_vars
  PROVE  FileSizeBounded'
<1> SUFFICES ASSUME 0 \notin NSampleChoices
             PROVE  /\ isStarted' => \E limit \in NSampleChoices :
                          nwritten' + nremaining' = limit /\ nwritten' < limit
                    /\ pdu'.fname # NoName => \E limit \in NSampleChoices :
                                                pdu'.samples <= limit
  BY DEF FileSizeBounded
<1>1. /\ nsamples \in NSampleChoices /\ nsamples \in Nat \ {0}
      /\ nwritten \in Nat /\ nremaining \in Nat /\ nleft \in Nat
      /\ NSampleChoices \subseteq Nat
  BY WriterAssumption DEF IInv, TypeOK, WriterTypeOK
<1>2. /\ isStarted => \E limit \in NSampleChoices :
           nwritten + nremaining = limit /\ nwritten < limit
      /\ pdu.fname # NoName => \E limit \in NSampleChoices : pdu.samples <= limit
  BY DEF FileSizeBounded
<1>3. ~isStarted => fname = NoName
  BY DEF IInv, OpenInv
<1>4. CASE UNCHANGED << isStarted, data, nremaining, nwritten, pdu >>
  BY <1>2, <1>4
<1>5. CASE Opening
  <2>1. nwritten' = 0 /\ nremaining' = nsamples /\ pdu' = pdu
    BY <1>5 DEF Opening, ManualOpen, BurstOpen, WriterOpen, Refill
  <2>2. QED
    BY <1>1, <1>2, <2>1
<1>6. CASE WriteLoop
  <2> DEFINE k == Chunk(nleft)
  <2>1. IF nremaining = k THEN WriteAndRoll(WritePos, k) ELSE WriteChunk(WritePos, k)
    BY <1>6 DEF WriteLoop
  <2>2. k \in Nat /\ k <= nremaining
    BY <1>1 DEF Chunk
  <2> HIDE DEF k
  <2>3. CASE nremaining = k
    <3>1. /\ nwritten' = 0 /\ nremaining' = nsamples
          /\ (pdu'.samples = nwritten + k /\ pdu'.fname = fname) \/ pdu' = pdu
      BY <2>1, <2>3 DEF WriteAndRoll, Publish, Refill
    <3>2. isStarted => \E limit \in NSampleChoices : nwritten + k <= limit
      <4> SUFFICES ASSUME isStarted
                   PROVE  \E limit \in NSampleChoices : nwritten + k <= limit
        OBVIOUS
      <4>1. PICK limit \in NSampleChoices : nwritten + nremaining = limit
        BY <1>2
      <4>2. nwritten + k <= limit
        BY <1>1, <2>3, <4>1
      <4>3. QED
        BY <4>2
    <3>3. pdu'.fname # NoName => \E limit \in NSampleChoices : pdu'.samples <= limit
      BY <1>2, <1>3, <3>1, <3>2
    <3>4. QED
      BY <1>1, <3>1, <3>3
  <2>4. CASE nremaining # k
    <3>1. /\ nwritten' = nwritten + k /\ nremaining' = nremaining - k /\ pdu' = pdu
          /\ isStarted' = isStarted
      BY <2>1, <2>4 DEF WriteChunk
    <3>2. ASSUME isStarted
          PROVE  \E limit \in NSampleChoices :
                   nwritten' + nremaining' = limit /\ nwritten' < limit
      <4>1. PICK limit \in NSampleChoices : nwritten + nremaining = limit
        BY <1>2, <3>2
      <4>2. nwritten' + nremaining' = limit /\ nwritten' < limit
        BY <1>1, <2>2, <2>4, <3>1, <4>1
      <4>3. QED
        BY <4>2
    <3>3. QED
      BY <1>2, <3>1, <3>2
  <2>5. QED
    BY <2>3, <2>4
<1>7. CASE WriterStop
  <2>1. /\ ~isStarted'
        /\ (pdu'.samples = nwritten /\ pdu'.fname = fname) \/ pdu' = pdu
    BY <1>7 DEF WriterStop, Publish
  <2>2. isStarted => \E limit \in NSampleChoices : nwritten <= limit
    <3> SUFFICES ASSUME isStarted
                 PROVE  \E limit \in NSampleChoices : nwritten <= limit
      OBVIOUS
    <3>1. PICK limit \in NSampleChoices : nwritten < limit
      BY <1>2
    <3>2. nwritten <= limit
      BY <1>1, <3>1
    <3>3. QED
      BY <3>2
  <2>3. QED
    BY <1>2, <1>3, <2>1, <2>2
<1>8. CASE WriteEnter /\ nsamples = 0
  BY <1>1, <1>8
<1>9. QED
  BY <1>4, <1>5, <1>6, <1>7, <1>8, FileSteps

(* What a write of at most nleft samples leaves in the file: where it      *)
(* starts, where it ends and the reconfigurations between.                 *)
LEMMA ExtendedClean ==
  ASSUME NoBursts, IInv, Spaced, WindowInv, FileHasOneConfig, pc \in {"write", "loop"},
         NEW k \in Nat, k <= nleft
  PROVE  LET d == Extended(WritePos, k)
         IN  /\ d.len > 0 => \A i \in ConfigTags : i <= d.first \/ i >= d.next
             /\ d.len > 0 /\ nread \in ConfigTags /\ nread < CallEnd => d.first >= nread
<1> DEFINE d == Extended(WritePos, k)
<1>1. /\ data.first \in Nat /\ data.next \in Nat /\ data.len \in Nat
      /\ data.next - data.first = data.len
      /\ data.len > 0 => data.next = WritePos
      /\ ofs = "open"
      /\ nread \in Nat /\ nprocessed \in Nat /\ nleft \in Nat
      /\ nleft <= nprocessed
      /\ WritePos = nread + nprocessed - nleft
      /\ CallEnd = nread + nprocessed
  BY QuietFacts
  DEF IInv, TypeOK, WriterTypeOK, FileData, DataInv, CallInv, Writing, WritePos, CallEnd
<1>2. data.len > 0 => \A i \in ConfigTags : i <= data.first \/ i >= data.next
  BY DEF FileHasOneConfig, NoBursts
<1>3. \A i \in ConfigTags :
        i < nread \/ i >= CallEnd \/ (i = nread /\ (data.len > 0 => data.first >= nread))
  BY DEF WindowInv, Writing
<1>4. \A i \in ConfigTags : i \in Int
  BY SinkAssumption DEF ConfigTags
<1>5. CASE k = 0
  <2>1. d = data
    BY <1>5 DEF Extended
  <2>2. QED
    BY <1>1, <1>2, <1>3, <1>4, <2>1
<1>6. CASE k # 0
  <2>1. /\ d.first = IF data.len = 0 THEN WritePos ELSE data.first
        /\ d.next = WritePos + k
    BY <1>1, <1>6 DEF Extended
  <2> HIDE DEF d, WritePos, CallEnd
  <2>2. ASSUME NEW i \in ConfigTags
        PROVE  /\ i <= d.first \/ i >= d.next
               /\ i = nread /\ nread < CallEnd => d.first >= nread
    <3>1. CASE data.len = 0
      BY <1>1, <1>3, <1>4, <2>1, <3>1
    <3>2. CASE data.len > 0
      BY <1>1, <1>2, <1>3, <1>4, <2>1, <3>2
    <3>3. QED
      BY <1>1, <3>1, <3>2
  <2>3. QED
    BY <2>2 DEF d
<1>7. QED
  BY <1>5, <1>6

(* The largest offset among the tags of a window is one of them.           *)
LEMMA LastTag ==
  ASSUME IInv, NEW n \in 1 .. MaxItems, NEW kinds, Tagged(kinds, n) # {}
  PROVE  /\ Max(Tagged(kinds, n)) \in Tagged(kinds, n)
         /\ \A x \in Tagged(kinds, n) : x <= Max(Tagged(kinds, n))
<1>1. nread \in Nat /\ StreamLen \in Nat /\ n \in Nat
  BY SinkAssumption DEF IInv, TypeOK
<1>2. Tagged(kinds, n) \in SUBSET (0 .. StreamLen)
  BY <1>1 DEF Tagged
<1>3. QED
  BY <1>1, <1>2, MaxInSet

(* A window is cut at its last reconfiguration, so that a window with only *)
(* one is cut at that one.                                                 *)
LEMMA WindowCut ==
  ASSUME NoBursts, IInv, NEW n \in 1 .. MaxItems, HandleTags(n), Spaced
  PROVE  WindowInv'
<1>1. /\ nread \in Nat /\ StreamLen \in Nat /\ n \in Nat /\ MaxItems \in Nat
      /\ n <= MaxItems
      /\ ~isStarted => data.len = 0
  BY SinkAssumption, QuietFacts DEF IInv, TypeOK, NoData
<1>2. /\ UNCHANGED << data, nread, stream, isStarted >>
      /\ pc' = "tagged"
      /\ nread + n <= StreamLen
  BY DEF HandleTags, fileVars
<1>3. CallEnd' = nread + ntoconsume'
  BY <1>2 DEF CallEnd
<1>4. ConfigTags' = ConfigTags
  BY <1>2 DEF ConfigTags
<1> DEFINE config == Tagged({"rx_cfg", "rx_time"}, n)
           begins == config # {} /\ Max(config) = nread /\ ~isStarted
<1>5. ntoconsume' = IF config # {} /\ ~begins THEN Max(config) - nread ELSE n
  BY DEF HandleTags, UpToChange
<1>6. \A i \in ConfigTags : i < nread \/ i >= nread + n \/ i \in config
  BY <1>1 DEF ConfigTags, Tagged
<1>7. \A i \in config : i \in ConfigTags /\ nread <= i /\ i < nread + n
  BY <1>1 DEF ConfigTags, Tagged
<1>8. \A i \in ConfigTags : i \in Int
  BY SinkAssumption DEF ConfigTags
<1>9. config # {} => /\ Max(config) \in config
                     /\ \A x \in config : x <= Max(config)
  BY LastTag
<1> HIDE DEF config
<1>10. ASSUME NEW i \in ConfigTags
       PROVE  i < nread \/ i >= nread + ntoconsume' \/ (i = nread /\ data.len = 0)
  <2>1. CASE i \notin config
    <3>1. ntoconsume' <= n /\ ntoconsume' \in Int
      <4>1. CASE config = {}
        BY <1>1, <1>5, <4>1
      <4>2. CASE config # {}
        BY <1>1, <1>5, <1>7, <1>8, <1>9, <4>2
      <4>3. QED
        BY <4>1, <4>2
    <3>2. QED
      BY <1>1, <1>6, <1>8, <2>1, <3>1
  <2>2. CASE i \in config /\ begins
    BY <1>1, <1>7, <1>8, <1>9, <2>2
  <2>3. CASE i \in config /\ ~begins
    <3> DEFINE m == Max(config)
    <3>1. m \in config /\ i <= m /\ m \in ConfigTags
      BY <1>7, <1>9, <2>3
    <3>2. ntoconsume' = m - nread
      BY <1>5, <2>3
    <3> HIDE DEF m
    <3>3. i = m
      <4>1. i # m => i - m >= MaxItems \/ m - i >= MaxItems
        BY <1>7, <2>3, <3>1 DEF Spaced
      <4>2. m < nread + n /\ nread <= i
        BY <1>7, <2>3, <3>1
      <4>3. QED
        BY <1>1, <1>8, <3>1, <4>1, <4>2
    <3>4. QED
      BY <1>1, <1>8, <3>1, <3>2, <3>3
  <2>4. QED
    BY <2>1, <2>2, <2>3
<1>11. QED
  BY <1>2, <1>3, <1>4, <1>10 DEF WindowInv

(* Every step keeps the window clear of reconfigurations.                  *)
LEMMA WindowStep ==
  ASSUME NoBursts, IInv, FileHasOneConfig, WindowInv, [Next]_vars
  PROVE  WindowInv'
<1>1. /\ ConfigTags' = ConfigTags
      /\ Spaced' <=> Spaced
  BY GivenStream DEF Spaced
<1> SUFFICES ASSUME Spaced
             PROVE  WindowInv'
  BY <1>1 DEF WindowInv
<1>2. \A i \in ConfigTags : i \in Int
  BY SinkAssumption DEF ConfigTags
<1>3. CASE \E n \in 1 .. MaxItems : HandleTags(n)
  BY <1>3, WindowCut
<1>4. CASE SkipCall \/ WriteDone \/ WorkEnd \/ Stopping
  <2>1. pc' \in {"idle", "end", "finished"}
    BY <1>4, SkipNoFile, StoppingSteps DEF WriteDone, WorkEnd
  <2>2. QED
    BY <2>1 DEF WindowInv, Writing
<1>5. CASE \E extra \in Rounding : ManualStart(extra)
  <2>1. /\ pc = "tagged" /\ pc' = "start" /\ nread' = nread /\ ntoconsume' = ntoconsume
        /\ data' = data
    BY <1>5 DEF ManualStart, ManualCall, WriterStart
  <2>2. QED
    BY <1>1, <2>1 DEF WindowInv, CallEnd
<1>6. CASE ManualOpen
  <2>1. /\ pc = "start" /\ pc' = "write" /\ nread' = nread /\ nprocessed' = ntoconsume
        /\ data'.len = 0
    BY <1>6, QuietFacts DEF ManualOpen, Write, WriterOpen, NoData
  <2>2. QED
    BY <1>1, <1>2, <2>1 DEF WindowInv, CallEnd
<1>7. CASE ManualContinue
  <2>1. /\ pc = "tagged" /\ pc' = "write" /\ nread' = nread /\ data' = data
        /\ nprocessed' = ntoconsume
    BY <1>7 DEF ManualContinue, ManualCall, Write, writerVars
  <2>2. QED
    BY <1>1, <2>1 DEF WindowInv, CallEnd
<1>8. ASSUME pc \in Writing, pc' \in Writing, nread' = nread, nprocessed' = nprocessed,
             data'.len > 0 /\ nread \in ConfigTags /\ nread < CallEnd => data'.first >= nread
      PROVE  WindowInv'
  <2>1. CallEnd' = CallEnd /\ nread \in Int /\ CallEnd \in Int
    BY <1>8 DEF IInv, TypeOK, CallEnd, Writing
  <2>2. \A i \in ConfigTags : i < nread \/ i >= CallEnd \/ i = nread
    BY <1>8 DEF WindowInv
  <2>3. \A i \in ConfigTags : \/ i < nread
                              \/ i >= CallEnd
                              \/ i = nread /\ (data'.len > 0 => data'.first >= nread)
    BY <1>2, <1>8, <2>1, <2>2
  <2>4. QED
    BY <1>1, <1>8, <2>1, <2>3 DEF WindowInv
<1>9. CASE (WriteEnter /\ nsamples # 0) \/ WriteRolled
  <2>1. /\ pc \in Writing /\ pc' \in Writing /\ nread' = nread /\ nprocessed' = nprocessed
        /\ data' = data
    BY <1>9 DEF WriteEnter, WriteRolled, MoveTime, Writing, fileVars
  <2>2. CallEnd \in Int /\ nread \in Int
    BY DEF IInv, TypeOK, CallEnd
  <2>3. data.len > 0 /\ nread \in ConfigTags /\ nread < CallEnd => data.first >= nread
    BY <2>1, <2>2 DEF WindowInv
  <2>4. QED
    BY <1>8, <2>1, <2>3
<1>10. CASE WriteEnter /\ nsamples = 0
  BY <1>10 DEF WriteEnter, WindowInv, Writing
<1>11. CASE WriteLoop
  <2> DEFINE k == Chunk(nleft)
  <2>1. /\ pc = "loop" /\ pc' \in {"loop", "rolled"}
        /\ nread' = nread /\ nprocessed' = nprocessed
        /\ \/ data' = Extended(WritePos, k)
           \/ data' = NoData
    BY <1>11 DEF WriteLoop, WriteAndRoll, WriteChunk
  <2>2. k \in Nat /\ k <= nleft
    BY DEF Chunk, IInv, TypeOK, WriterTypeOK
  <2> HIDE DEF k
  <2>3. data'.len > 0 /\ nread \in ConfigTags /\ nread < CallEnd => data'.first >= nread
    <3>1. CASE data' = NoData
      BY <3>1 DEF NoData
    <3>2. CASE data' = Extended(WritePos, k)
      BY <2>1, <2>2, <3>2, ExtendedClean
    <3>3. QED
      BY <2>1, <3>1, <3>2
  <2>4. pc \in Writing /\ pc' \in Writing
    BY <2>1 DEF Writing
  <2>5. QED
    BY <1>8, <2>1, <2>3, <2>4
<1>12. CASE Setter
  <2>1. TypeOK
    BY DEF IInv
  <2>2. UNCHANGED << data, pc, nread, ntoconsume, nprocessed >>
    BY <1>12, <2>1, SetterFacts DEF callVars
  <2>3. QED
    BY <1>1, <2>2 DEF WindowInv, CallEnd, Writing
<1>13. CASE UNCHANGED vars
  BY <1>1, <1>13 DEF WindowInv, CallEnd, Writing, vars, sinkVars, writerVars
<1>14. QED
  BY <1>3, <1>4, <1>5, <1>6, <1>7, <1>9, <1>10, <1>11, <1>12, <1>13, QuietSteps

(* No file spans a reconfiguration.                                        *)
LEMMA ConfigStep ==
  ASSUME NoBursts, IInv, FileHasOneConfig, WindowInv, [Next]_vars
  PROVE  FileHasOneConfig'
<1>1. /\ ConfigTags' = ConfigTags
      /\ Spaced' <=> Spaced
  BY GivenStream DEF Spaced
<1> DEFINE Clean(d) == d.len > 0 => \A i \in ConfigTags : i <= d.first \/ i >= d.next
<1> SUFFICES ASSUME Spaced
             PROVE  Clean(data') /\ Clean(pdu'.data)
  BY <1>1 DEF FileHasOneConfig
<1>2. Clean(data) /\ Clean(pdu.data) /\ Clean(NoData)
  BY DEF FileHasOneConfig, NoData, NoBursts
<1>3. ASSUME NEW k \in Nat, k <= nleft, pc \in {"write", "loop"}
      PROVE  Clean(Extended(WritePos, k))
  BY <1>3, ExtendedClean
<1> HIDE DEF Clean
<1>4. CASE UNCHANGED << isStarted, data, nremaining, nwritten, pdu >>
  BY <1>2, <1>4
<1>5. CASE Opening
  <2>1. data' \in {NoData, data} /\ pdu' = pdu
    BY <1>5 DEF Opening, ManualOpen, BurstOpen, WriterOpen
  <2>2. QED
    BY <1>2, <2>1
<1>6. CASE WriteEnter /\ nsamples = 0
  <2>1. data' = Extended(WritePos, nleft) /\ pdu' = pdu /\ pc = "write" /\ nleft \in Nat
    BY <1>6 DEF WriteEnter, WriteWhole, IInv, TypeOK
  <2>2. QED
    BY <1>2, <1>3, <2>1
<1>7. CASE WriteLoop
  <2> DEFINE k == Chunk(nleft)
  <2>1. /\ pc = "loop"
        /\ data' \in {NoData, Extended(WritePos, k)}
        /\ pdu' = pdu \/ pdu'.data = Extended(WritePos, k)
    BY <1>7 DEF WriteLoop, WriteAndRoll, WriteChunk, Publish
  <2>2. k \in Nat /\ k <= nleft
    BY DEF Chunk, IInv, TypeOK, WriterTypeOK
  <2> HIDE DEF k
  <2>3. QED
    BY <1>2, <1>3, <2>1, <2>2
<1>8. CASE WriterStop
  <2>1. /\ data' = NoData
        /\ pdu' = pdu \/ pdu'.data = data
    BY <1>8 DEF WriterStop, Publish
  <2>2. QED
    BY <1>2, <2>1
<1>9. QED
  BY <1>4, <1>5, <1>6, <1>7, <1>8, FileSteps

(* The writer's clock keeps pace with what it writes.                      *)
LEMMA TimeStep ==
  ASSUME NoBursts, IInv, TimeInv, [Next]_vars
  PROVE  TimeInv'
<1> TimeTags' = TimeTags
  BY GivenStream
<1> DEFINE Clock == sampTime = nread
           Times ==
             /\ isStarted => fileTime + nwritten = WritePos
             /\ isStarted /\ pc # "rolled" => fileTimeNext = fileTime + nwritten + nremaining
             /\ pc = "start" => /\ fileTime = nread /\ fileTimeNext = nread + period
                                /\ period = nsamples
             /\ pc = "rolled" => /\ nwritten = 0 /\ nremaining = period
                                 /\ fileTimeNext = fileTime
<1> SUFFICES ASSUME TimeTags = {}
             PROVE  Clock' /\ (0 \notin NSampleChoices /\ ~torn' => Times')
  BY DEF TimeInv
<1>1. Clock /\ (0 \notin NSampleChoices /\ ~torn => Times)
  BY DEF TimeInv
<1>2. /\ nread \in Nat /\ nprocessed \in Nat /\ nleft \in Nat /\ ntoconsume \in Nat
      /\ nwritten \in Nat /\ nremaining \in Nat /\ nsamples \in Nat /\ period \in Nat
      /\ fileTime \in Int /\ fileTimeNext \in Int /\ WritePos \in Int
  BY WriterAssumption DEF IInv, TypeOK, WriterTypeOK, WritePos
<1>3. /\ nsamples \in NSampleChoices
      /\ pc \in {"tagged", "start", "idle"} => nprocessed = 0 /\ nleft = 0
  BY DEF IInv, CallInv, TypeOK, WriterTypeOK, Writing
<1> DEFINE Same == UNCHANGED << isStarted, fileTime, nwritten, fileTimeNext, nremaining,
                                nread, sampTime, torn >>
<1>4. ASSUME Same, WritePos' = WritePos,
             pc' = pc \/ (pc' \notin {"start", "rolled"} /\ pc # "rolled"),
             UNCHANGED << nsamples, period >> \/ pc' \notin {"start", "rolled"}
      PROVE  Clock' /\ (0 \notin NSampleChoices /\ ~torn' => Times')
  BY <1>1, <1>4
<1>5. CASE \E n \in 1 .. MaxItems : HandleTags(n)
  <2>1. PICK n \in 1 .. MaxItems : HandleTags(n)
    BY <1>5
  <2>2. Tagged({"rx_time"}, n) = {}
    <3>1. \A i \in 0 .. StreamLen - 1 : "rx_time" \notin stream[i]
      BY DEF TimeTags
    <3>2. \A i \in nread .. nread + n - 1 : i < StreamLen => i \in 0 .. StreamLen - 1
      BY <1>2, SinkAssumption
    <3>3. QED
      BY <3>1, <3>2 DEF Tagged
  <2>3. Same /\ WritePos' = WritePos /\ pc = "idle" /\ pc' = "tagged"
    BY <2>1, <2>2 DEF HandleTags, fileVars, WritePos
  <2>4. QED
    BY <1>4, <2>3
<1>6. CASE SkipCall
  <2>1. Same /\ pc' = "end" /\ ~isStarted
    BY <1>6, SkipNoFile, QuietFacts DEF writerVars
  <2>2. QED
    BY <1>1, <2>1
<1>7. CASE \E extra \in Rounding : ManualStart(extra)
  <2>1. /\ pc' = "start" /\ pc = "tagged" /\ ~isStarted' /\ nread' = nread /\ sampTime' = sampTime
        /\ fileTime' = sampTime /\ fileTimeNext' = sampTime + period
        /\ torn' = HalfSet
        /\ UNCHANGED << nsamples, period >>
    BY <1>7, QuietFacts
    DEF ManualStart, ManualCall, StartDue, WriterStart, FilePeriod, paramVars, Goes
  <2>2. ~torn' => period' = nsamples'
    BY <2>1 DEF HalfSet
  <2> HIDE DEF WritePos
  <2>3. QED
    BY <1>1, <1>2, <2>1, <2>2
<1>8. CASE ManualOpen
  <2>1. /\ pc = "start" /\ pc' = "write" /\ nread' = nread /\ sampTime' = sampTime
        /\ nprocessed' = ntoconsume /\ nleft' = ntoconsume
        /\ nwritten' = 0 /\ nremaining' = nsamples
        /\ UNCHANGED << fileTime, fileTimeNext, torn >>
    BY <1>8 DEF ManualOpen, Write, WriterOpen, Refill
  <2>2. WritePos' = nread
    BY <1>2, <2>1 DEF WritePos
  <2> HIDE DEF WritePos
  <2>3. 0 \notin NSampleChoices /\ ~torn' =>
          fileTime' + 0 = nread /\ fileTimeNext' = fileTime' + 0 + nsamples
    BY <1>1, <1>2, <2>1
  <2>4. QED
    BY <1>1, <2>1, <2>2, <2>3
<1>9. CASE ManualContinue
  <2>1. /\ pc = "tagged" /\ Same /\ pc' = "write"
        /\ nprocessed' = ntoconsume /\ nleft' = ntoconsume
    BY <1>9 DEF ManualContinue, ManualCall, Write, writerVars
  <2>2. WritePos' = WritePos
    BY <1>2, <1>3, <2>1 DEF WritePos
  <2>3. QED
    BY <1>4, <2>1, <2>2
<1>10. CASE WriteEnter /\ nsamples = 0
  BY <1>1, <1>3, <1>10 DEF WriteEnter
<1>11. CASE WriteEnter /\ nsamples # 0
  BY <1>4, <1>11 DEF WriteEnter, fileVars, WritePos
<1>12. CASE WriteLoop
  <2> DEFINE k == Chunk(nleft)
  <2>1. k \in Nat /\ k <= nleft /\ k <= nremaining
    BY <1>2 DEF Chunk
  <2>2. /\ nread' = nread /\ sampTime' = sampTime /\ nprocessed' = nprocessed
        /\ nleft' = nleft - k
        /\ isStarted /\ pc = "loop"
        /\ UNCHANGED << nsamples, period >>
        /\ IF nremaining = k THEN WriteAndRoll(WritePos, k) /\ pc' = "rolled"
                             ELSE WriteChunk(WritePos, k) /\ pc' = pc
    BY <1>12, QuietFacts DEF WriteLoop, Writing, paramVars
  <2> HIDE DEF k
  <2>3. WritePos' = WritePos + k
    BY <2>1, <2>2, PosMoved
  <2> HIDE DEF WritePos
  <2>4. 0 \notin NSampleChoices /\ ~torn => /\ fileTime + nwritten = WritePos
                                            /\ fileTimeNext = fileTime + nwritten + nremaining
    BY <1>1, <2>2
  <2>5. CASE nremaining = k
    <3>1. /\ fileTime' = fileTimeNext /\ fileTimeNext' = fileTimeNext
          /\ nwritten' = 0 /\ nremaining' = nsamples /\ pc' = "rolled"
          /\ torn' = (torn \/ HalfSet)
      BY <2>2, <2>5 DEF WriteAndRoll, Refill
    <3>2. ~torn' => ~torn /\ period = nsamples
      BY <3>1 DEF HalfSet
    <3>3. 0 \notin NSampleChoices /\ ~torn' => fileTime' + 0 = WritePos'
      BY <1>2, <2>1, <2>3, <2>4, <2>5, <3>1, <3>2
    <3>4. QED
      BY <1>1, <2>2, <3>1, <3>2, <3>3
  <2>6. CASE nremaining # k
    <3>1. /\ fileTime' = fileTime /\ fileTimeNext' = fileTimeNext /\ torn' = torn
          /\ nwritten' = nwritten + k /\ nremaining' = nremaining - k /\ pc' = "loop"
      BY <2>2, <2>6 DEF WriteChunk
    <3>2. 0 \notin NSampleChoices /\ ~torn' =>
            /\ fileTime' + nwritten' = WritePos'
            /\ fileTimeNext' = fileTime' + nwritten' + nremaining'
      BY <1>2, <2>1, <2>3, <2>4, <3>1
    <3>3. QED
      BY <1>1, <2>2, <3>1, <3>2
  <2>7. QED
    BY <2>5, <2>6
<1>13. CASE WriteRolled
  <2>1. /\ pc = "rolled" /\ pc' = "loop"
        /\ fileTimeNext' = fileTimeNext + period
        /\ UNCHANGED << isStarted, fileTime, nwritten, nremaining, nread, sampTime, torn >>
        /\ WritePos' = WritePos
    BY <1>13 DEF WriteRolled, MoveTime, FilePeriod, WritePos
  <2> HIDE DEF WritePos
  <2>2. 0 \notin NSampleChoices /\ ~torn' =>
          fileTimeNext' = fileTime' + nwritten' + nremaining'
    BY <1>1, <1>2, <2>1
  <2>3. QED
    BY <1>1, <2>1, <2>2
<1>14. CASE WriteDone
  BY <1>4, <1>14 DEF WriteDone, WritePos, writerVars
<1>15. CASE WorkEnd
  <2>1. /\ sampTime' = sampTime + nprocessed /\ nread' = nread + nprocessed
        /\ pc = "end" /\ pc' = "idle"
        /\ WriterStop \/ UNCHANGED fileVars
    BY <1>15 DEF WorkEnd
  <2>2. WritePos' = WritePos
    BY <1>15, WorkEndPos
  <2> HIDE DEF WritePos
  <2>3. Clock'
    BY <1>1, <2>1
  <2>4. CASE WriterStop
    BY <2>1, <2>3, <2>4 DEF WriterStop
  <2>5. CASE UNCHANGED fileVars
    BY <1>1, <2>1, <2>2, <2>3, <2>5 DEF fileVars
  <2>6. QED
    BY <2>1, <2>4, <2>5
<1>16. CASE Stopping
  <2>1. /\ UNCHANGED << sampTime, nread, nprocessed, nleft, paramVars >>
        /\ ~isStarted' \/ UNCHANGED fileVars
        /\ pc \in {"idle", "finished"} /\ pc' \in {"idle", "finished"}
    BY <1>16, StoppingSteps DEF WriterStop
  <2>2. WritePos' = WritePos
    BY <2>1 DEF WritePos
  <2>3. CASE ~isStarted'
    BY <1>1, <2>1, <2>3
  <2>4. CASE UNCHANGED fileVars
    BY <1>4, <2>1, <2>2, <2>4 DEF fileVars
  <2>5. QED
    BY <2>1, <2>3, <2>4
<1>17. CASE Setter
  <2>1. TypeOK
    BY DEF IInv
  <2>2. /\ UNCHANGED << isStarted, fileTime, nwritten, fileTimeNext, nremaining >>
        /\ UNCHANGED << nread, sampTime, pc >>
        /\ WritePos' = WritePos
    BY <1>17, <2>1, SetterFacts DEF callVars, WritePos
  <2>3. \/ UNCHANGED << nsamples, period, torn >>
        \/ torn' = (torn \/ Between)
    BY <1>17 DEF Setter, SetSecondAlign, SetNsamples, SetPeriod, SetFileNumRollover,
                 SetFreq, Tear, writerVars, fileVars
  <2>4. CASE UNCHANGED << nsamples, period, torn >>
    BY <1>4, <2>2, <2>4
  <2>5. CASE torn' = (torn \/ Between)
    <3>1. ~torn' => ~torn /\ pc \notin {"start", "rolled"}
      BY <2>5 DEF Between
    <3> HIDE DEF WritePos
    <3>2. QED
      BY <1>1, <2>2, <3>1
  <2>6. QED
    BY <2>3, <2>4, <2>5
<1>18. CASE UNCHANGED vars
  BY <1>4, <1>18 DEF vars, sinkVars, writerVars, WritePos
<1>19. QED
  BY <1>5, <1>6, <1>7, <1>8, <1>9, <1>10, <1>11, <1>12, <1>13, <1>14, <1>15, <1>16,
     <1>17, <1>18, QuietSteps

(* A file carries the time of its first sample.                            *)
LEMMA StampStep ==
  ASSUME NoBursts, IInv, StampedWithFirstSample, TimeInv, [Next]_vars
  PROVE  StampedWithFirstSample'
<1>1. TimeTags' = TimeTags
  BY GivenStream
<1> SUFFICES ASSUME TimeTags = {}, 0 \notin NSampleChoices
             PROVE  /\ data'.len > 0 /\ ~torn' => fileTime' = data'.first
                    /\ pdu'.samples > 0 /\ ~pdu'.torn => pdu'.time = pdu'.data.first
  BY <1>1 DEF StampedWithFirstSample, TrueTime
<1>2. /\ data.len > 0 /\ ~torn => fileTime = data.first
      /\ pdu.samples > 0 /\ ~pdu.torn => pdu.time = pdu.data.first
  BY DEF StampedWithFirstSample, TrueTime, NoBursts
<1>3. /\ data'.len > 0 => data'.len = nwritten' /\ data'.next = WritePos'
                          /\ data'.next - data'.first = data'.len
                          /\ data'.first \in Int /\ data'.next \in Int
                          /\ isStarted'
      /\ fileTime' \in Int /\ WritePos' \in Int /\ nwritten' \in Int
  <2>1. IInv' /\ NoBursts'
    BY NextInv, GivenStream DEF NoBursts
  <2>2. /\ ~isStarted' => data'.len = 0
        /\ data'.len = nwritten' /\ ~leftOpen'
    <3>1. (/\ ~isStarted => data.len = 0
           /\ data.len = nwritten /\ ~leftOpen)'
      <4>1. NoBursts /\ IInv => /\ ~isStarted => data.len = 0
                                /\ data.len = nwritten /\ ~leftOpen
        BY QuietFacts DEF NoData
      <4>2. ASSUME NoBursts', IInv'
            PROVE  (/\ ~isStarted => data.len = 0
                    /\ data.len = nwritten /\ ~leftOpen)'
        BY <4>2 DEF IInv, QuietInv, OpenInv, CountMatchesFile, NoBursts, NoData
      <4>3. QED
        BY <2>1, <4>2
    <3>2. QED
      BY <3>1
  <2>3. QED
    BY <2>1, <2>2 DEF IInv, DataInv, TypeOK, WriterTypeOK, FileData, WritePos
<1>4. data'.len > 0 /\ ~torn' => fileTime' = data'.first
  <2>1. TimeInv' /\ TimeTags' = {}
    BY <1>1, TimeStep
  <2>2. isStarted' /\ ~torn' => fileTime' + nwritten' = WritePos'
    BY <2>1 DEF TimeInv
  <2> SUFFICES ASSUME data'.len > 0, ~torn'
               PROVE  fileTime' = data'.first
    OBVIOUS
  <2>3. /\ fileTime' + nwritten' = data'.next
        /\ data'.next - data'.first = nwritten'
    BY <1>3, <2>2
  <2>4. QED
    BY <1>3, <2>3
<1>5. ASSUME NEW k \in Nat, isStarted, ofs = "open", ~torn
      PROVE  Extended(WritePos, k).len > 0 => Extended(WritePos, k).first = fileTime
  <2> DEFINE d == Extended(WritePos, k)
  <2>1. /\ d \in FileData
        /\ d.len = nwritten + k
        /\ d.next - d.first = d.len
        /\ d.len > 0 => d.next = WritePos + k
        /\ WritePos \in Int
    BY <1>5, ExtendedFile, QuietFacts
  <2>2. fileTime + nwritten = WritePos
    BY <1>5 DEF TimeInv
  <2>3. d.first \in Int /\ d.next \in Int /\ d.len \in Int
        /\ fileTime \in Int /\ nwritten \in Int
    BY <2>1 DEF FileData, IInv, TypeOK, WriterTypeOK
  <2> HIDE DEF d, WritePos
  <2>4. QED
    BY <2>1, <2>2, <2>3 DEF d
<1>6. CASE pdu' = pdu
  BY <1>2, <1>4, <1>6
<1>7. CASE WriteLoop /\ pdu' # pdu
  <2> DEFINE k == Chunk(nleft)
  <2>1. /\ isStarted /\ ofs = "open" /\ k \in Nat /\ nwritten \in Nat
        /\ WriteAndRoll(WritePos, k)
    BY <1>7, QuietFacts DEF WriteLoop, Writing, WriteChunk, IInv, Chunk, TypeOK, WriterTypeOK
  <2> HIDE DEF k
  <2>2. /\ pdu'.time = fileTime /\ pdu'.data = Extended(WritePos, k) /\ pdu'.torn = torn
        /\ nwritten + k > 0
    BY <1>7, <2>1 DEF WriteAndRoll, Publish
  <2>3. Extended(WritePos, k).len = nwritten + k
    BY <2>1, ExtendedFile
  <2>4. QED
    BY <1>4, <1>5, <2>1, <2>2, <2>3
<1>8. CASE WriterStop /\ pdu' # pdu
  <2>1. /\ pdu'.time = fileTime /\ pdu'.data = data /\ pdu'.torn = torn /\ nwritten > 0
    BY <1>8 DEF WriterStop, Publish
  <2>2. data.len > 0
    BY <2>1, QuietFacts
  <2>3. QED
    BY <1>2, <1>4, <2>1, <2>2
<1>9. QED
  BY <1>6, <1>7, <1>8, FileSteps
  DEF Opening, ManualOpen, BurstOpen, WriterOpen, WriteEnter, WriteWhole

(* A start that is due stays due until the file is open, or a later        *)
(* reconfiguration brings it; a call that closes its file makes no start.  *)
DueInv ==
  /\ StartInv
  /\ mode = "MANUAL" /\ doStop =>
       /\ pc # "start"
       /\ pc = "tagged" => ~checkStart /\ ~issueStart

LEMMA StartStep ==
  ASSUME IInv, DueInv, [Next]_vars
  PROVE  StartInv'
<1>1. ConfigTags' = ConfigTags
  BY GivenStream
<1>2. \A i \in ConfigTags : i \in Int
  BY SinkAssumption DEF ConfigTags
<1>3. /\ nread \in Nat /\ nprocessed \in Nat /\ ntoconsume \in Nat
      /\ pc \in {"idle", "tagged", "start", "finished"} => nprocessed = 0
  BY DEF IInv, TypeOK, CallInv
<1> DEFINE Ahead(p) == \E i \in ConfigTags : i >= p
           Open == mode = "MANUAL" /\ recording /\ (isStarted => doStop)
<1>4. Open /\ pc # "finished" => checkStart \/ issueStart \/ Ahead(CallEnd)
  BY DEF DueInv, StartInv
<1> SUFFICES ASSUME Open', pc' # "finished"
             PROVE  checkStart' \/ issueStart' \/ Ahead(CallEnd')
  BY <1>1 DEF StartInv
<1>5. CASE \E n \in 1 .. MaxItems : HandleTags(n)
  <2>1. PICK n \in 1 .. MaxItems : HandleTags(n)
    BY <1>5
  <2> DEFINE config == Tagged({"rx_cfg", "rx_time"}, n)
             begins == config # {} /\ Max(config) = nread /\ ~isStarted
  <2>2. /\ pc = "idle" /\ pc' = "tagged" /\ nread' = nread
        /\ UNCHANGED << mode, recording, isStarted >>
    BY <2>1 DEF HandleTags, fileVars
  <2>8. CallEnd = nread + 0 /\ CallEnd' = nread + ntoconsume'
    BY <1>3, <2>2 DEF CallEnd
  <2>9. CallEnd = nread
    BY <1>3, <2>8
  <2>3. n \in Nat /\ \A i \in ConfigTags : i >= nread => i >= nread + n \/ i \in config
    BY <1>3, SinkAssumption DEF ConfigTags, Tagged
  <2>4. CASE config = {}
    <3>1. /\ UNCHANGED << checkStart, issueStart >>
          /\ ~doStop' /\ ntoconsume' = n
      BY <2>1, <2>4 DEF HandleTags
    <3>2. Open
      BY <2>2, <3>1
    <3>3. Ahead(nread) => Ahead(nread + n)
      BY <2>3, <2>4
    <3>4. QED
      BY <1>4, <2>2, <2>8, <2>9, <3>1, <3>2, <3>3
  <2>5. CASE begins
    BY <2>1, <2>5 DEF HandleTags
  <2>6. CASE config # {} /\ ~begins
    <3>1. ntoconsume' = Max(config) - nread
      BY <2>1, <2>6 DEF HandleTags, UpToChange
    <3>2. Max(config) \in config
      BY <2>1, <2>6, LastTag
    <3>3. Max(config) \in ConfigTags
      <4>1. \A x \in config : x \in ConfigTags
        BY <1>3, <2>3, SinkAssumption DEF Tagged, ConfigTags
      <4>2. QED
        BY <3>2, <4>1
    <3> HIDE DEF config
    <3>4. nread + ntoconsume' = Max(config)
      BY <1>2, <1>3, <3>1, <3>3
    <3>5. QED
      BY <1>2, <2>8, <3>3, <3>4
  <2>7. QED
    BY <2>4, <2>5, <2>6
<1>6. CASE SkipCall \/ FindBurst
  <2>0. /\ pc = "tagged" /\ pc' = "end" /\ ~doStop'
        /\ UNCHANGED << mode, recording, isStarted, nread >>
    BY <1>6, SkipNoFile DEF writerVars
  <2>1. /\ pc = "tagged" /\ pc' = "end" /\ ~isStarted
        /\ UNCHANGED << mode, recording, isStarted, nread >>
    BY <2>0
  <2>2. mode = "MANUAL"
    BY <2>0
  <2>3. CASE ManualIdle \/ ManualWait
    <3>1. nprocessed' = ntoconsume /\ UNCHANGED << checkStart, issueStart >>
      BY <2>3 DEF ManualIdle, ManualWait, Skip, ctrlVars
    <3>2. CallEnd' = CallEnd
      BY <2>1, <3>1 DEF CallEnd
    <3>3. QED
      BY <1>4, <2>1, <3>1, <3>2
  <2>4. CASE \E extra \in Rounding : ManualDiscard(extra)
    <3>1. PICK extra \in Rounding : ManualDiscard(extra)
      BY <2>4
    <3>2. issueStart' = (checkStart \/ issueStart)
      BY <3>1 DEF ManualDiscard, StartDue
    <3>3. nprocessed' \in Nat /\ nprocessed' <= ntoconsume
      <4>1. IInv'
        BY <1>6, SkipInv
      <4>2. nprocessed' = IF ToDiscard(extra) < ntoconsume THEN ToDiscard(extra)
                                                           ELSE ntoconsume
        BY <3>1 DEF ManualDiscard, Skip
      <4>3. nprocessed' \in Nat
        BY <4>1 DEF IInv, TypeOK
      <4> HIDE DEF ToDiscard
      <4>4. QED
        BY <1>3, <4>2, <4>3
    <3>4. CallEnd = nread + ntoconsume /\ CallEnd' = nread + nprocessed'
      BY <2>1 DEF CallEnd
    <3>5. Ahead(CallEnd) => Ahead(CallEnd')
      BY <1>2, <1>3, <3>3, <3>4
    <3>6. QED
      BY <1>4, <2>1, <3>2, <3>5
  <2>5. QED
    BY <1>6, <2>2, <2>3, <2>4 DEF SkipCall, SeekBurst, FindBurst, TriggeredCall
<1>7. CASE Starting
  BY <1>7 DEF Starting, ManualStart, BurstStart, TriggeredCall, ctrlVars
<1>8. CASE Opening
  <2>1. pc = "start" /\ mode' = mode /\ isStarted' = TRUE /\ doStop' = doStop
    BY <1>8, OpenFacts DEF Opening, WriterOpen
  <2>2. QED
    BY <2>1 DEF DueInv
<1>9. CASE GoOn \/ BurstCrash
  <2>1. CASE ManualContinue
    <3>1. /\ UNCHANGED << mode, recording, isStarted, checkStart, issueStart, doStop,
                          nread >>
          /\ pc = "tagged" /\ pc' = "write" /\ nprocessed' = ntoconsume
      BY <2>1 DEF ManualContinue, ManualCall, Write, ctrlVars, writerVars
    <3>2. CallEnd' = CallEnd
      BY <3>1 DEF CallEnd
    <3>3. QED
      BY <1>4, <3>1, <3>2
  <2>2. QED
    BY <1>9, <2>1 DEF GoOn, BurstData, BurstEnd, BurstCrash, TriggeredCall, ctrlVars
<1>10. CASE WriteEnter \/ WriteLoop \/ WriteRolled \/ WriteDone
  <2>1. /\ UNCHANGED << mode, recording, checkStart, issueStart, doStop, nread,
                        nprocessed >>
        /\ pc \in Writing /\ (pc' \in Writing \/ pc' = "end")
    BY <1>10 DEF WriteEnter, WriteLoop, WriteRolled, WriteDone, ctrlVars, Writing
  <2>2. isStarted = TRUE
    BY <2>1 DEF IInv, ModeInv, TypeOK, WriterTypeOK
  <2>3. isStarted' = isStarted
    BY <1>10, <2>2 DEF WriteEnter, WriteWhole, WriteLoop, WriteChunk, WriteAndRoll,
       WriteRolled, MoveTime, WriteDone, writerVars, fileVars
  <2>4. CallEnd' = CallEnd
    BY <2>1 DEF CallEnd, Writing
  <2>5. pc # "finished"
    BY <2>1 DEF Writing
  <2>6. QED
    BY <1>4, <2>1, <2>3, <2>4, <2>5
<1>11. CASE WorkEnd
  <2>1. /\ UNCHANGED << mode, recording, checkStart, issueStart >>
        /\ nread' = nread + nprocessed /\ nprocessed' = 0
        /\ pc = "end" /\ pc' = "idle"
        /\ ~doStop'
        /\ doStop \/ isStarted' = isStarted
    BY <1>11 DEF WorkEnd, ctrlVars, fileVars
  <2>2. CallEnd' = CallEnd
    BY <1>3, <2>1 DEF CallEnd
  <2>3. Open
    BY <2>1
  <2>4. QED
    BY <1>4, <2>1, <2>2, <2>3
<1>12. CASE Stopping
  BY <1>12 DEF Stopping, SetRecording, SetMode, Stop
<1>13. CASE Setter
  <2>1. TypeOK
    BY DEF IInv
  <2>2. UNCHANGED << mode, recording, checkStart, issueStart, isStarted, pc, nread,
                     ntoconsume, nprocessed, doStop >>
    BY <1>13, <2>1, SetterFacts DEF callVars
  <2>3. QED
    BY <1>4, <2>2 DEF CallEnd
<1>14. CASE UNCHANGED vars
  BY <1>4, <1>14 DEF vars, sinkVars, writerVars, CallEnd
<1>15. QED
  BY <1>5, <1>6, <1>7, <1>8, <1>9, <1>10, <1>11, <1>12, <1>13, <1>14, Steps

LEMMA DueStep ==
  ASSUME IInv, DueInv, [Next]_vars
  PROVE  DueInv'
<1>1. StartInv'
  BY StartStep
<1> DEFINE Quiet == mode = "MANUAL" /\ doStop =>
                    /\ pc # "start"
                    /\ pc = "tagged" => ~checkStart /\ ~issueStart
<1>2. Quiet
  BY DEF DueInv
<1> SUFFICES Quiet'
  BY <1>1 DEF DueInv
<1>3. CASE \E n \in 1 .. MaxItems : HandleTags(n)
  BY <1>3 DEF HandleTags
<1>4. CASE Starting
  BY <1>2, <1>4 DEF Starting, ManualStart, ManualCall, StartDue, BurstStart, TriggeredCall,
                    ctrlVars
<1>5. CASE Opening
  BY <1>2, <1>5, OpenFacts DEF Opening, Write
<1>6. CASE SkipCall \/ FindBurst
  BY <1>6, SkipNoFile
<1>7. CASE GoOn \/ WriteEnter \/ WriteLoop \/ WriteRolled \/ WriteDone \/ WorkEnd \/ BurstCrash
  <2>1. pc' \notin {"start", "tagged"}
    BY <1>7, GoOnFacts
    DEF Write, WriteEnter, WriteLoop, WriteRolled, WriteDone, WorkEnd, BurstCrash
  <2>2. QED
    BY <2>1
<1>8. CASE Stopping
  BY <1>8, StoppingSteps
<1>9. CASE Setter
  <2>1. TypeOK
    BY DEF IInv
  <2>2. UNCHANGED << mode, checkStart, issueStart, pc, doStop >>
    BY <1>9, <2>1, SetterFacts DEF callVars
  <2>3. QED
    BY <1>2, <2>2
<1>10. CASE UNCHANGED vars
  BY <1>2, <1>10 DEF vars, sinkVars
<1>11. QED
  BY <1>3, <1>4, <1>5, <1>6, <1>7, <1>8, <1>9, <1>10, Steps

-----------------------------------------------------------------------------
LEMMA NextSecond ==
  ASSUME NEW S \in Nat \ {0}, NEW a \in Nat, NEW e \in 0 .. 1
  PROVE  (a + (S - (a % S)) + e) % S <= 1
<1> DEFINE b == a + (S - (a % S)) + e
           q == a \div S
           p == b \div S
           r == b % S
<1>1. /\ a % S \in 0 .. S - 1 /\ q \in Int /\ a = S * q + (a % S)
  OBVIOUS
<1>2. b \in Nat
  BY <1>1
<1>3. /\ r \in 0 .. S - 1 /\ p \in Int /\ b = S * p + r
  <2> HIDE DEF b
  <2>1. QED
    BY <1>2
<1>4. b = S * q + S + e
  BY <1>1
<1> HIDE DEF b, p, q, r
<1> DEFINE d == (q + 1) - p
<1>5. d \in Int
  BY <1>1, <1>3
<1>6. S * d = r - e
  <2>1. S * d = S * q + S - S * p
    BY <1>1, <1>3
  <2>2. S * q \in Int /\ S * p \in Int
    BY <1>1, <1>3
  <2>3. S * q + S + e = S * p + r
    BY <1>3, <1>4
  <2> HIDE DEF d
  <2>4. QED
    BY <2>1, <2>2, <2>3, <1>3
<1> HIDE DEF d
<1>7. CASE d >= 1
  <2>1. S * d >= S
    BY <1>5, <1>7
  <2>2. QED
    BY <1>3, <1>6, <2>1
<1>8. CASE d <= 0
  <2>1. S * d <= 0
    BY <1>5, <1>8
  <2>2. QED
    BY <1>3, <1>6, <2>1 DEF r, b
<1>9. QED
  BY <1>5, <1>7, <1>8

(* A start that waits for its discard will find the second begun.          *)
AlignInv ==
  /\ align
  /\ mode = "MANUAL" /\ recording /\ issueStart =>
       (sampTime + nprocessed + ndiscard) % Second <= 1

(* A recording that starts has nothing left to discard.                    *)
LEMMA StartsAligned ==
  ASSUME IInv, AlignInv, NEW extra \in Rounding, ManualStart(extra)
  PROVE  sampTime \in Nat /\ sampTime % Second <= 1
<1>1. /\ StartDue /\ ToDiscard(extra) = 0 /\ recording /\ mode = "MANUAL"
      /\ nprocessed = 0
  BY DEF ManualStart, ManualCall, IInv, CallInv
<1>2. /\ sampTime \in Nat /\ Second \in Nat \ {0} /\ extra \in Nat
      /\ sampTime % Second \in 0 .. Second - 1
  BY SinkAssumption DEF IInv, TypeOK
<1>3. CASE checkStart
  BY <1>1, <1>2, <1>3 DEF ToDiscard, AlignDiscard, AlignInv
<1>4. CASE ~checkStart
  <2>1. issueStart /\ ndiscard = 0
    BY <1>1, <1>4 DEF ToDiscard, StartDue
  <2>2. (sampTime + 0 + 0) % Second <= 1
    BY <1>1, <2>1 DEF AlignInv
  <2>3. sampTime + 0 + 0 = sampTime
    BY <1>2
  <2>4. QED
    BY <1>2, <2>2, <2>3
<1>5. QED
  BY <1>3, <1>4

LEMMA AlignStep ==
  ASSUME "set_second_align" \notin Calls, IInv, AlignInv, [Next]_vars
  PROVE  AlignInv'
<1>1. /\ sampTime \in Nat /\ nprocessed \in Nat /\ ndiscard \in Nat
      /\ ntoconsume \in Nat /\ Second \in Nat \ {0}
      /\ pc \in {"idle", "tagged", "start"} => nprocessed = 0
  BY SinkAssumption DEF IInv, TypeOK, CallInv
<1>2. align' = align
  BY DEF Next, WorkStep, ControlCall, HandleTags, ManualIdle, ManualDiscard, ManualStart,
     ManualOpen, ManualContinue, ManualWait, SeekBurst, FindBurst, BurstStart, BurstOpen,
     BurstData, BurstEnd, BurstCrash, WriteEnter, WriteLoop, WriteRolled, WriteDone,
     WorkEnd, SetRecording, SetMode, SetSecondAlign, SetNsamples, SetPeriod,
     SetFileNumRollover, SetFreq, Stop, sinkVars, ctrlVars, vars
<1> SUFFICES ASSUME mode' = "MANUAL", recording', issueStart'
             PROVE  (sampTime' + nprocessed' + ndiscard') % Second <= 1
  BY <1>2 DEF AlignInv
<1>3. mode = "MANUAL" /\ recording /\ issueStart =>
        (sampTime + nprocessed + ndiscard) % Second <= 1
  BY DEF AlignInv
<1>4. CASE UNCHANGED << recording, issueStart, mode, sampTime, nprocessed, ndiscard >>
  BY <1>3, <1>4
<1>5. CASE \E n \in 1 .. MaxItems : HandleTags(n)
  <2>1. PICK n \in 1 .. MaxItems : HandleTags(n)
    BY <1>5
  <2>2. Tagged({"rx_cfg", "rx_time"}, n) = {}
    BY <2>1 DEF HandleTags
  <2>3. Tagged({"rx_time"}, n) = {}
    BY <2>2 DEF Tagged
  <2>4. QED
    BY <1>4, <2>1, <2>2, <2>3 DEF HandleTags
<1>6. CASE ManualIdle \/ ManualWait
  BY <1>3, <1>6 DEF ManualIdle, ManualWait, StartDue, ctrlVars
<1>7. CASE SeekBurst \/ FindBurst \/ BurstStart \/ BurstOpen \/ BurstData \/ BurstEnd \/ BurstCrash
  BY <1>7 DEF SeekBurst, FindBurst, BurstStart, BurstOpen, BurstData, BurstEnd, BurstCrash,
              TriggeredCall, ctrlVars
<1>8. CASE \E extra \in Rounding : ManualDiscard(extra)
  <2>1. PICK extra \in Rounding : ManualDiscard(extra)
    BY <1>8
  <2> DEFINE todo == ToDiscard(extra)
  <2>2. /\ mode = "MANUAL" /\ sampTime' = sampTime /\ recording
        /\ pc = "tagged" /\ StartDue
        /\ todo > 0
    BY <2>1 DEF ManualDiscard, ManualCall
  <2>3. todo \in Nat /\ extra \in 0 .. 1
    <3>1. sampTime % Second \in 0 .. Second - 1 /\ extra \in 0 .. 1
      BY <1>1, SinkAssumption
    <3>2. QED
      BY <1>1, <3>1 DEF ToDiscard, AlignDiscard
  <2>4. (sampTime + todo) % Second <= 1
    <3>1. CASE checkStart
      <4>1. todo = (Second - (sampTime % Second)) + extra
        BY <2>2, <3>1 DEF ToDiscard, AlignDiscard
      <4>2. (sampTime + (Second - (sampTime % Second)) + extra) % Second <= 1
        BY <1>1, <2>3, NextSecond
      <4>3. sampTime + (Second - (sampTime % Second)) + extra
              = sampTime + ((Second - (sampTime % Second)) + extra)
        <5>1. sampTime % Second \in Int
          BY <1>1
        <5>2. QED
          BY <1>1, <2>3, <5>1
      <4>4. QED
        BY <4>1, <4>2, <4>3
    <3>2. CASE ~checkStart
      <4>1. todo = ndiscard /\ nprocessed = 0 /\ issueStart
        BY <1>1, <2>2, <3>2 DEF ToDiscard, StartDue
      <4>2. (sampTime + 0 + ndiscard) % Second <= 1
        BY <1>3, <2>2, <4>1
      <4>3. sampTime + 0 + ndiscard = sampTime + ndiscard
        BY <1>1
      <4>4. QED
        BY <4>1, <4>2, <4>3
    <3>3. QED
      BY <3>1, <3>2
  <2>5. sampTime' + nprocessed' + ndiscard' = sampTime + todo
    <3>1. \E k \in Nat : nprocessed' = k /\ ndiscard' = todo - k
      BY <1>1, <2>1, <2>3 DEF ManualDiscard, Skip
    <3> HIDE DEF todo
    <3>2. QED
      BY <1>1, <2>2, <2>3, <3>1
  <2>6. QED
    BY <2>4, <2>5
<1>9. CASE \E extra \in Rounding : ManualStart(extra)
  <2>1. PICK extra \in Rounding : ManualStart(extra)
    BY <1>9
  <2>2. sampTime \in Nat /\ sampTime % Second <= 1
    BY <2>1, StartsAligned
  <2>3. sampTime' = sampTime /\ nprocessed' = 0 /\ ndiscard' = 0
    BY <1>1, <2>1 DEF ManualStart, ManualCall
  <2>4. sampTime + 0 + 0 = sampTime
    BY <1>1
  <2>5. QED
    BY <2>2, <2>3, <2>4
<1>10. CASE ManualOpen \/ ManualContinue
  BY <1>10 DEF ManualOpen, ManualContinue, StartDue, ctrlVars
<1>11. CASE WriteEnter \/ WriteLoop \/ WriteRolled \/ WriteDone
  BY <1>4, <1>11 DEF WriteEnter, WriteLoop, WriteRolled, WriteDone, ctrlVars
<1>12. CASE WorkEnd
  <2>1. /\ UNCHANGED << recording, issueStart, mode, ndiscard >>
        /\ sampTime' = sampTime + nprocessed /\ nprocessed' = 0
    BY <1>12 DEF WorkEnd, ctrlVars
  <2>2. sampTime' + nprocessed' + ndiscard' = sampTime + nprocessed + ndiscard
    BY <1>1, <2>1
  <2>3. QED
    BY <1>3, <2>1, <2>2
<1>13. CASE Setter
  <2>1. TypeOK
    BY DEF IInv
  <2>2. QED
    BY <1>4, <1>13, <2>1, SetterFacts DEF callVars
<1>14. CASE Stopping
  BY <1>4, <1>14 DEF Stopping, SetRecording, SetMode, Stop, ctrlVars, callVars
<1>15. CASE UNCHANGED vars
  BY <1>4, <1>15 DEF vars, sinkVars
<1>16. QED
  BY <1>5, <1>6, <1>7, <1>8, <1>9, <1>10, <1>11, <1>12, <1>13, <1>14, <1>15, Steps
  DEF SkipCall, Starting, Opening, GoOn

-----------------------------------------------------------------------------
(* What holds of the files beside IInv: their length in every stream, the  *)
(* rest in streams without bursts.                                         *)
FilesInv ==
  /\ FileSizeBounded
  /\ NoBursts => FileHasOneConfig /\ StampedWithFirstSample /\ WindowInv /\ TimeInv

LEMMA FilesInductive ==
  /\ Init => FilesInv
  /\ IInv /\ FilesInv /\ [Next]_vars => FilesInv'
<1>1. ASSUME Init PROVE FilesInv
  BY <1>1
  DEF Init, WriterInit, NoPdu, NoData, FileSizeBounded, FileHasOneConfig,
      StampedWithFirstSample, WindowInv, TimeInv, FilesInv, Writing
<1>2. ASSUME IInv, FilesInv, [Next]_vars PROVE FilesInv'
  <2>1. FileSizeBounded'
    BY <1>2, SizeStep DEF FilesInv
  <2>2. NoBursts' => NoBursts
    BY <1>2, GivenStream DEF NoBursts
  <2>3. NoBursts => (FileHasOneConfig /\ StampedWithFirstSample /\ WindowInv /\ TimeInv)'
    BY <1>2, ConfigStep, StampStep, WindowStep, TimeStep DEF FilesInv
  <2>4. QED
    BY <2>1, <2>2, <2>3 DEF FilesInv
<1>3. QED
  BY <1>1, <1>2

(* With types kept, no file outgrows its limit, in either mode; and in a   *)
(* stream without bursts none spans a reconfiguration or carries another   *)
(* sample's time, unless set_nsamples fell between the two reads of its    *)
(* opening: for every cutting into windows, every file length and every    *)
(* control call between the steps of a start or of a write.                *)
THEOREM FilesCorrect == Spec => []SinkInv
<1>1. Init => FilesInv
  BY FilesInductive
<1>2. IInv /\ FilesInv /\ [Next]_vars => FilesInv'
  BY FilesInductive
<1>3. IInv /\ FilesInv => SinkInv
  BY DEF IInv, FilesInv, SinkInv, FileHasOneConfig, StampedWithFirstSample, NoBursts
<1>4. QED
  BY <1>1, <1>2, <1>3, Invariance, PTL DEF Spec

(* A start of manual recording is never forgotten, wherever the windows,   *)
(* the reconfigurations and the bursts fall.                               *)
THEOREM StartCorrect == Spec => []StartNotForgotten
<1>1. Init => DueInv
  BY DEF Init, StartInv, DueInv
<1>2. IInv /\ DueInv /\ [Next]_vars => DueInv'
  BY DueStep
<1>3. IInv /\ DueInv => StartNotForgotten
  <2> SUFFICES ASSUME IInv, DueInv, pc = "idle"
               PROVE  StartNotForgotten
    BY DEF StartNotForgotten
  <2>1. CallEnd = nread
    BY SinkAssumption DEF IInv, CallInv, TypeOK, CallEnd
  <2>2. QED
    BY <2>1 DEF DueInv, StartInv, StartNotForgotten
<1>4. QED
  BY <1>1, <1>2, <1>3, Invariance, PTL DEF Spec

(* While second alignment stays on, every manual recording starts on a     *)
(* second boundary or one sample after it, for every sample rate and every *)
(* rounding of the discard.                                                *)
THEOREM AlignCorrect ==
  ASSUME "set_second_align" \notin Calls
  PROVE  Spec => AlignedStart
<1>1. Init => AlignInv
  BY DEF Init, AlignInv
<1>2. IInv /\ AlignInv /\ [Next]_vars => AlignInv'
  BY AlignStep
<1> DEFINE A == pc = "tagged" /\ mode = "MANUAL" /\ pc' = "start"
                  => (fileTime' % Second) <= 1
<1>3. IInv /\ AlignInv /\ [Next]_vars => [A]_vars
  <2> SUFFICES ASSUME IInv, AlignInv, [Next]_vars, pc = "tagged", mode = "MANUAL",
                      pc' = "start"
               PROVE  fileTime' % Second <= 1
    OBVIOUS
  <2>1. \E extra \in Rounding : ManualStart(extra)
    <3>1. Next
      BY DEF vars, sinkVars
    <3>2. ~Stopping
      BY StoppingSteps
    <3>3. ~(SkipCall \/ FindBurst)
      BY SkipNoFile
    <3>4. ~Setter
      <4>1. TypeOK
        BY DEF IInv
      <4>2. QED
        BY <4>1, SetterFacts DEF callVars
    <3>5. ~GoOn
      BY GoOnFacts DEF Write
    <3>6. QED
      BY <3>1, <3>2, <3>3, <3>4, <3>5, Steps
      DEF HandleTags, Starting, Opening, ManualOpen, BurstOpen, BurstStart, TriggeredCall,
          BurstCrash, WriteEnter, WriteLoop, WriteRolled, WriteDone, WorkEnd
  <2>2. PICK extra \in Rounding : ManualStart(extra)
    BY <2>1
  <2>3. fileTime' = sampTime
    BY <2>2 DEF ManualStart, WriterStart
  <2>4. QED
    BY <2>2, <2>3, StartsAligned
<1>4. QED
  BY <1>1, <1>2, <1>3, Invariance, PTL DEF Spec, AlignedStart

-----------------------------------------------------------------------------
(***************************************************************************)
(* The file of a burst, while the files are of unlimited length and        *)
(* set_mode is not called.                                                 *)
(***************************************************************************)
WholeFiles == NSampleChoices = {0}
ModeFixed == "set_mode" \notin Calls

(* A call of work() in triggered mode: what it has counted, and what it    *)
(* has still to write.                                                     *)
BurstCall ==
  /\ nread \in Nat /\ nitems \in Nat /\ ntoconsume \in Nat
  /\ nprocessed \in Nat /\ nleft \in Nat
  /\ nsamples = 0
  /\ burstState \in {0, 1}
  /\ pc \notin {"write", "end"} => nprocessed = 0
  /\ pc # "write" => nleft = 0
  /\ pc = "write" => nleft = nprocessed /\ burstState = 1 /\ ~issueStart
  /\ pc \notin {"loop", "rolled"}

(* A start that is due is due at the first sample of a burst, which no     *)
(* file can precede; an open file starts at such a sample and reaches to   *)
(* the write position; one about to be closed ends with an end-of-burst.   *)
BurstFileInv ==
  /\ data \in FileData
  /\ burstState = 0 \/ issueStart => ofs = "closed"
  /\ issueStart => burstState = 1 /\ nread + nprocessed \in TagsAt("sob")
  /\ pc = "start" => issueStart
  /\ ofs = "open" =>
       /\ data.next - data.first = data.len
       /\ data.len = 0 => WritePos \in TagsAt("sob")
       /\ data.len > 0 => data.first \in TagsAt("sob") /\ data.next = WritePos
  /\ pc \in {"write", "end"} /\ doStop =>
       /\ nread + nprocessed - 1 \in TagsAt("eob")
       /\ pc = "write" => nleft > 0
       /\ pc = "end" /\ ofs = "open" => data.len > 0

BurstInv == mode = "TRIGGERED" => BurstCall /\ BurstFileInv

(* Looking at the tags: a reconfiguration may call a due start off.        *)
LEMMA HandleTagsBurst ==
  ASSUME mode = "TRIGGERED", BurstCall, BurstFileInv, NEW n \in 1 .. MaxItems, HandleTags(n)
  PROVE  BurstCall' /\ BurstFileInv'
<1>1. /\ pc = "idle" /\ pc' = "tagged" /\ nitems' = n
      /\ issueStart' => issueStart
      /\ UNCHANGED << burstState, nread, nprocessed, nleft, nsamples, data, ofs, stream >>
  BY DEF HandleTags, fileVars
<1>2. ntoconsume' \in Nat
  <2> DEFINE S == Tagged({"rx_cfg", "rx_time"}, n)
  <2>1. n \in Nat /\ nread \in Nat /\ StreamLen \in Nat
    BY SinkAssumption DEF BurstCall
  <2>2. CASE S = {}
    BY <2>1, <2>2 DEF HandleTags
  <2>3. CASE S # {}
    <3>1. S \in SUBSET (0 .. StreamLen)
      BY <2>1 DEF Tagged
    <3>2. \A i \in S : i \in Int /\ i >= nread
      BY <2>1 DEF Tagged
    <3> HIDE DEF S
    <3>3. Max(S) \in S
      BY <2>1, <2>3, <3>1, MaxInSet
    <3>4. Max(S) - nread \in Nat
      BY <2>1, <3>2, <3>3
    <3>5. ntoconsume' = n \/ ntoconsume' = Max(S) - nread
      BY DEF HandleTags, UpToChange, S
    <3>6. QED
      BY <2>1, <3>4, <3>5
  <2>4. QED
    BY <2>2, <2>3
<1>3. n \in Nat
  BY SinkAssumption
<1>4. BurstCall'
  BY <1>1, <1>2, <1>3 DEF BurstCall
<1>5. BurstFileInv'
  BY <1>1 DEF BurstFileInv, WritePos, TagsAt
<1>6. QED
  BY <1>4, <1>5

(* A call that looks for a burst skips what precedes it.                   *)
LEMMA SeekStep ==
  ASSUME mode = "TRIGGERED", BurstCall, BurstFileInv, SeekBurst \/ FindBurst
  PROVE  BurstCall' /\ BurstFileInv'
<1>1. /\ pc = "tagged" /\ pc' = "end" /\ burstState = 0 /\ ofs = "closed" /\ ~issueStart
      /\ nprocessed = 0 /\ nleft = 0 /\ nleft' = 0 /\ ~doStop'
      /\ UNCHANGED << nread, nitems, ntoconsume, nsamples, data, ofs, stream >>
  BY DEF SeekBurst, FindBurst, TriggeredCall, Skip, BurstCall, BurstFileInv, writerVars
<1>2. CASE SeekBurst
  <2>1. nprocessed' = ntoconsume /\ UNCHANGED << burstState, issueStart >>
    BY <1>2 DEF SeekBurst, Skip, ctrlVars
  <2>2. BurstCall'
    BY <1>1, <2>1 DEF BurstCall
  <2>3. BurstFileInv'
    BY <1>1, <2>1 DEF BurstFileInv
  <2>4. QED
    BY <2>2, <2>3
<1>3. CASE FindBurst
  <2>1. burstState' = 1 /\ nprocessed' = Min(StartOfBurst) - nread /\ StartOfBurst # {}
    BY <1>3 DEF FindBurst, Skip, BurstOffset
  <2>2. nread \in Nat /\ nitems \in Nat
    BY DEF BurstCall
  <2>3. Min(StartOfBurst) \in TagsAt("sob") /\ Min(StartOfBurst) \in nread .. nread + nitems - 1
    BY <2>1, <2>2, FirstTag DEF StartOfBurst
  <2>4. nprocessed' \in Nat /\ nread + nprocessed' = Min(StartOfBurst)
    BY <2>1, <2>2, <2>3
  <2>5. BurstCall'
    BY <1>1, <2>1, <2>4 DEF BurstCall
  <2>6. BurstFileInv'
    BY <1>1, <2>1, <2>3, <2>4 DEF BurstFileInv, TagsAt
  <2>7. QED
    BY <2>5, <2>6
<1>4. QED
  BY <1>2, <1>3

(* The file of a burst is opened at its first sample.                      *)
LEMMA BurstStartStep ==
  ASSUME BurstCall, BurstFileInv, BurstStart
  PROVE  BurstCall' /\ BurstFileInv'
<1>1. /\ pc = "tagged" /\ pc' = "start" /\ issueStart
      /\ UNCHANGED << burstState, issueStart, nread, nitems, ntoconsume, nprocessed, nleft,
                      doStop, nsamples, data, ofs, stream >>
  BY DEF BurstStart, TriggeredCall, WriterStart, ctrlVars, paramVars
<1>2. BurstCall'
  BY <1>1 DEF BurstCall
<1>3. BurstFileInv'
  BY <1>1 DEF BurstFileInv, TagsAt, WritePos
<1>4. QED
  BY <1>2, <1>3

LEMMA BurstOpenStep ==
  ASSUME BurstCall, BurstFileInv, BurstOpen
  PROVE  BurstCall' /\ BurstFileInv' /\ ofs' = "open" /\ data' = NoData
<1>1. /\ pc = "start" /\ pc' = "tagged" /\ issueStart' = FALSE /\ ofs = "closed"
      /\ ofs' = "open" /\ data' = NoData /\ burstState = 1
      /\ nread + nprocessed \in TagsAt("sob")
      /\ UNCHANGED << burstState, nread, nitems, ntoconsume, nprocessed, nleft,
                      doStop, nsamples, stream >>
  BY DEF BurstOpen, BurstFileInv, WriterOpen, paramVars
<1>2. BurstCall'
  BY <1>1 DEF BurstCall
<1>3. /\ NoData \in FileData /\ NoData.next - NoData.first = NoData.len /\ NoData.len = 0
  BY DEF NoData, FileData
<1>4. WritePos' = nread + nprocessed
  BY <1>1 DEF WritePos, BurstCall
<1>5. TagsAt("sob")' = TagsAt("sob")
  BY <1>1 DEF TagsAt
<1>6. BurstFileInv'
  BY <1>1, <1>3, <1>4, <1>5 DEF BurstFileInv
<1>7. QED
  BY <1>1, <1>2, <1>6

(* Entering write() with samples of the burst, up to its end-of-burst tag  *)
(* if it is in the window.                                                 *)
LEMMA BurstWriteStep ==
  ASSUME mode = "TRIGGERED", BurstCall, BurstFileInv, BurstData \/ BurstEnd
  PROVE  BurstCall' /\ BurstFileInv'
<1>1. /\ pc = "tagged" /\ pc' = "write" /\ ~issueStart /\ burstState = 1
      /\ nprocessed = 0 /\ nleft = 0 /\ nleft' = nprocessed'
      /\ UNCHANGED << burstState, issueStart, nread, nitems, ntoconsume, nsamples,
                      data, ofs, stream >>
  BY DEF BurstData, BurstEnd, TriggeredCall, Write, BurstCall, ctrlVars, writerVars
<1>2. nread \in Nat /\ nitems \in Nat
  BY DEF BurstCall
<1>3. /\ nprocessed' \in Nat
      /\ doStop' => nprocessed' > 0 /\ nread + nprocessed' - 1 \in TagsAt("eob")
  <2>1. CASE BurstData
    BY <1>2, <2>1 DEF BurstData, Write
  <2>2. CASE BurstEnd
    <3>1. nprocessed' = Min(EndOfBurst) - nread + 1 /\ EndOfBurst # {}
      BY <2>2 DEF BurstEnd, Write, BurstLength
    <3>2. Min(EndOfBurst) \in TagsAt("eob") /\ Min(EndOfBurst) \in nread .. nread + nitems - 1
      BY <1>2, <3>1, FirstTag DEF EndOfBurst
    <3>3. nprocessed' \in Nat /\ nprocessed' > 0 /\ nread + nprocessed' - 1 = Min(EndOfBurst)
      BY <1>2, <3>1, <3>2
    <3>4. QED
      BY <3>2, <3>3
  <2>3. QED
    BY <2>1, <2>2
<1>4. BurstCall'
  BY <1>1, <1>3 DEF BurstCall
<1>5. WritePos' = WritePos
  <2>1. \A k \in Nat : nread + k - k = nread + 0 - 0
    BY <1>2
  <2>2. QED
    BY <1>1, <1>3, <2>1 DEF WritePos
<1>6. TagsAt("sob")' = TagsAt("sob") /\ TagsAt("eob")' = TagsAt("eob")
  BY <1>1 DEF TagsAt
<1>7. BurstFileInv'
  BY <1>1, <1>3, <1>5, <1>6 DEF BurstFileInv
<1>8. QED
  BY <1>4, <1>7

(* The samples of the burst go to its file, if it is open.                 *)
LEMMA BurstWritten ==
  ASSUME mode = "TRIGGERED", BurstCall, BurstFileInv, WriteEnter
  PROVE  BurstCall' /\ BurstFileInv'
<1> DEFINE d == Extended(WritePos, nleft)
<1>1. /\ pc = "write" /\ pc' = "end" /\ nleft = nprocessed /\ nleft' = 0
      /\ burstState = 1 /\ ~issueStart /\ data' = d
      /\ UNCHANGED << burstState, issueStart, nread, nitems, ntoconsume, nprocessed,
                      doStop, nsamples, ofs, stream >>
  BY DEF WriteEnter, WriteWhole, BurstCall, ctrlVars, paramVars
<1>2. /\ nread \in Nat /\ nprocessed \in Nat /\ nleft \in Nat
      /\ data.first \in Nat /\ data.next \in Nat /\ data.len \in Nat
  BY DEF BurstCall, BurstFileInv, FileData
<1>3. BurstCall'
  BY <1>1 DEF BurstCall
<1>4. WritePos = nread + 0 /\ WritePos \in Nat /\ WritePos' = WritePos + nleft
  <2>1. \A k \in Nat : nread + k - k = nread + 0 /\ nread + k - 0 = (nread + 0) + k
    BY <1>2
  <2>2. QED
    BY <1>1, <1>2, <2>1 DEF WritePos
<1>5. TagsAt("sob")' = TagsAt("sob") /\ TagsAt("eob")' = TagsAt("eob")
  BY <1>1 DEF TagsAt
<1> HIDE DEF WritePos
<1>6. CASE ofs # "open" \/ nleft = 0
  <2>1. data' = data
    BY <1>1, <1>6 DEF Extended
  <2>2. WritePos' = WritePos \/ ofs # "open"
    BY <1>2, <1>4, <1>6
  <2>3. doStop => ofs # "open"
    BY <1>1, <1>6 DEF BurstFileInv
  <2>4. QED
    BY <1>1, <1>3, <1>5, <2>1, <2>2, <2>3 DEF BurstFileInv
<1>7. CASE ofs = "open" /\ nleft # 0
  <2>1. d = [first |-> IF data.len = 0 THEN WritePos ELSE data.first,
             next |-> WritePos + nleft, len |-> data.len + nleft]
    BY <1>7 DEF Extended
  <2>2. d.first = IF data.len = 0 THEN WritePos ELSE data.first
    BY <2>1
  <2>3. d.next = WritePos + nleft /\ d.len = data.len + nleft
    BY <2>1
  <2>4. d \in FileData
    BY <1>2, <1>4, <2>1 DEF FileData
  <2>5. /\ data.next - data.first = data.len
        /\ data.len = 0 => WritePos \in TagsAt("sob")
        /\ data.len > 0 => data.first \in TagsAt("sob") /\ data.next = WritePos
        /\ doStop => nread + nprocessed - 1 \in TagsAt("eob")
    BY <1>1, <1>7 DEF BurstFileInv
  <2>6. d.next - d.first = d.len
    BY <1>2, <1>4, <2>2, <2>3, <2>5
  <2>7. d.len > 0 /\ d.first \in TagsAt("sob")
    BY <1>2, <1>7, <2>2, <2>3, <2>5
  <2> HIDE DEF d
  <2>8. data'.first = d.first /\ data'.next = WritePos' /\ data'.len = d.len
    BY <1>1, <1>4, <2>3
  <2>9. /\ data' \in FileData
        /\ data'.next - data'.first = data'.len
        /\ data'.len > 0 /\ data'.len # 0
        /\ data'.first \in TagsAt("sob")'
    BY <1>1, <1>5, <2>4, <2>6, <2>7
  <2>10. BurstFileInv'
    BY <1>1, <1>5, <2>5, <2>8, <2>9 DEF BurstFileInv
  <2>11. QED
    BY <1>3, <2>10
<1>8. QED
  BY <1>6, <1>7

(* work() returns.                                                         *)
LEMMA BurstReturns ==
  ASSUME mode = "TRIGGERED", BurstCall, BurstFileInv, WorkEnd
  PROVE  BurstCall' /\ BurstFileInv'
<1>1. /\ pc = "end" /\ pc' = "idle" /\ nleft = 0 /\ nleft' = 0
      /\ nread' = nread + nprocessed /\ nprocessed' = 0 /\ nitems' = 0 /\ ntoconsume' = 0
      /\ UNCHANGED << burstState, issueStart, nsamples, stream >>
      /\ \/ UNCHANGED << data, ofs >>
         \/ data' = NoData /\ ofs' = "closed"
  BY DEF WorkEnd, BurstCall, WriterStop, fileVars, ctrlVars, paramVars
<1>2. nread \in Nat /\ nprocessed \in Nat
  BY DEF BurstCall
<1>3. nread' \in Nat /\ nread' + nprocessed' = nread + nprocessed
  BY <1>1, <1>2
<1>4. BurstCall'
  BY <1>1, <1>3 DEF BurstCall
<1>5. WritePos' = WritePos
  <2>1. nread + nprocessed + 0 - 0 = nread + nprocessed - 0
    BY <1>2
  <2>2. QED
    BY <1>1, <2>1 DEF WritePos
<1>6. TagsAt("sob")' = TagsAt("sob")
  BY <1>1 DEF TagsAt
<1>7. CASE UNCHANGED << data, ofs >>
  BY <1>1, <1>3, <1>4, <1>5, <1>6, <1>7 DEF BurstFileInv
<1>8. CASE data' = NoData /\ ofs' = "closed"
  <2>1. NoData \in FileData
    BY DEF NoData, FileData
  <2>2. QED
    BY <1>1, <1>3, <1>4, <1>6, <1>8, <2>1 DEF BurstFileInv
<1>9. QED
  BY <1>1, <1>7, <1>8

(* The calls of other threads: they may close the file, or call a due      *)
(* start off.                                                              *)
LEMMA ControlBurst ==
  ASSUME WholeFiles, mode = "TRIGGERED", mode' = mode, BurstCall, BurstFileInv, ControlCall
  PROVE  BurstCall' /\ BurstFileInv'
<1>1. /\ UNCHANGED << burstState, nread, nitems, ntoconsume, nprocessed, nleft, doStop, stream >>
      /\ issueStart' => issueStart
      /\ pc = "start" => issueStart' = issueStart
      /\ \/ UNCHANGED << data, ofs, pc >>
         \/ /\ pc \in {"idle", "finished"} /\ pc' \in {"idle", "finished"}
            /\ data' = NoData /\ ofs' = "closed"
  <2>1. ASSUME NEW state \in BOOLEAN, SetRecording(state)
        PROVE  /\ UNCHANGED << burstState, nread, nitems, ntoconsume, nprocessed, nleft,
                               doStop, stream >>
               /\ issueStart' => issueStart
               /\ pc = "start" => issueStart' = issueStart
               /\ \/ UNCHANGED << data, ofs, pc >>
                  \/ /\ pc \in {"idle", "finished"} /\ pc' \in {"idle", "finished"}
                     /\ data' = NoData /\ ofs' = "closed"
    BY <2>1 DEF SetRecording, WriterStop, Unlocked, callVars, fileVars
  <2>2. ASSUME NEW m \in Modes, SetMode(m)
        PROVE  FALSE
    BY <2>2 DEF SetMode
  <2>3. CASE Stop
    BY <2>3 DEF Stop, WriterStop, ctrlVars
  <2>4. CASE \/ \E b \in BOOLEAN : SetSecondAlign(b)
             \/ \E n \in NSampleChoices : SetNsamples(n)
             \/ SetPeriod
             \/ \E r \in RolloverChoices : SetFileNumRollover(r)
             \/ SetFreq
    BY <2>4 DEF SetSecondAlign, SetNsamples, SetPeriod, SetFileNumRollover, SetFreq, Tear,
       sinkVars, callVars, writerVars, fileVars
  <2>5. QED
    BY <2>1, <2>2, <2>3, <2>4 DEF ControlCall
<1>2. nsamples' = 0
  BY DEF WholeFiles, BurstCall, ControlCall, SetRecording, SetMode, SetSecondAlign,
     SetNsamples, SetPeriod, Tear, SetFileNumRollover, SetFreq, Stop, paramVars, writerVars
<1>3. BurstCall'
  BY <1>1, <1>2 DEF BurstCall
<1>4. TagsAt("sob")' = TagsAt("sob") /\ TagsAt("eob")' = TagsAt("eob") /\ WritePos' = WritePos
  BY <1>1 DEF TagsAt, WritePos
<1>5. CASE UNCHANGED << data, ofs, pc >>
  BY <1>1, <1>3, <1>4, <1>5 DEF BurstFileInv
<1>6. CASE /\ pc' \in {"idle", "finished"}
           /\ data' = NoData /\ ofs' = "closed"
  <2>1. NoData \in FileData
    BY DEF NoData, FileData
  <2>2. QED
    BY <1>1, <1>3, <1>4, <1>6, <2>1 DEF BurstFileInv
<1>7. QED
  BY <1>1, <1>5, <1>6

LEMMA InitBurst ==
  ASSUME WholeFiles, Init
  PROVE  BurstInv
<1>1. NoData \in FileData
  BY DEF NoData, FileData
<1>2. BurstCall
  BY DEF Init, WriterInit, WholeFiles, BurstCall
<1>3. BurstFileInv
  BY <1>1 DEF Init, WriterInit, BurstFileInv
<1>4. QED
  BY <1>2, <1>3 DEF BurstInv

(* Each step keeps the invariant of triggered recording.                   *)
LEMMA NextBurst ==
  ASSUME WholeFiles, BurstInv, [Next]_vars, mode' = mode
  PROVE  BurstInv'
<1> SUFFICES ASSUME mode = "TRIGGERED"
             PROVE  BurstCall' /\ BurstFileInv'
  BY DEF BurstInv
<1>1. BurstCall /\ BurstFileInv
  BY DEF BurstInv
<1>2. CASE \E n \in 1 .. MaxItems : HandleTags(n)
  BY <1>1, <1>2, HandleTagsBurst
<1>3. CASE WorkStep
  <2>1. ~ManualCall /\ pc \notin {"loop", "rolled"}
    BY <1>1 DEF ManualCall, BurstCall
  <2>2. \/ SeekBurst \/ FindBurst \/ BurstStart \/ BurstOpen \/ BurstData \/ BurstEnd \/ BurstCrash
        \/ WriteEnter \/ WorkEnd
    BY <1>3, <2>1 DEF WorkStep, ManualIdle, ManualDiscard, ManualStart, ManualOpen, ManualContinue,
       ManualWait, WriteLoop, WriteRolled, WriteDone
  <2>3. CASE BurstCrash
    <3>1. BurstCall'
      BY <1>1, <2>3 DEF BurstCrash, BurstCall, TriggeredCall, ctrlVars, writerVars
    <3>2. BurstFileInv'
      BY <1>1, <2>3 DEF BurstCrash, BurstFileInv, TagsAt, WritePos, ctrlVars, writerVars
    <3>3. QED
      BY <3>1, <3>2
  <2>4. QED
    BY <1>1, <2>2, <2>3, SeekStep, BurstStartStep, BurstOpenStep, BurstWriteStep, BurstWritten, BurstReturns
<1>4. CASE ControlCall
  BY <1>1, <1>4, ControlBurst
<1>5. CASE UNCHANGED vars
  <2>1. BurstCall'
    BY <1>1, <1>5 DEF BurstCall, vars, sinkVars, writerVars
  <2>2. BurstFileInv'
    BY <1>1, <1>5 DEF BurstFileInv, TagsAt, WritePos, vars, sinkVars, writerVars
  <2>3. QED
    BY <2>1, <2>2
<1>6. QED
  BY <1>2, <1>3, <1>4, <1>5 DEF Next

(* The mode changes only where set_mode is called.                         *)
LEMMA ModeStep ==
  ASSUME [Next]_vars, "set_mode" \notin Calls \/ \A m, l \in Modes : m = l, mode \in Modes
  PROVE  mode' = mode
<1>1. CASE ControlCall
  BY <1>1 DEF ControlCall, SetRecording, SetMode, SetSecondAlign, SetNsamples,
     SetPeriod, Tear, SetFileNumRollover, SetFreq, Stop, sinkVars, ctrlVars
<1>2. CASE WorkStep
  BY <1>2 DEF WorkStep, ManualIdle, ManualDiscard, ManualStart, ManualOpen, ManualContinue, ManualWait,
     SeekBurst, FindBurst, BurstStart, BurstOpen, BurstData, BurstEnd, BurstCrash, WriteEnter,
     WriteLoop, WriteRolled, WriteDone, WorkEnd, ctrlVars
<1>3. QED
  BY <1>1, <1>2 DEF Next, HandleTags, vars, sinkVars

(* A file closed at an end-of-burst tag starts at a start-of-burst tag,    *)
(* ends with that tag and has no hole: for every stream, window, setter    *)
(* and reconfiguration, as long as the mode stays and files are whole.     *)
THEOREM BurstFileCorrect ==
  ASSUME WholeFiles, ModeFixed
  PROVE  Spec => BurstFile
<1> DEFINE J == BurstInv /\ mode \in Modes
<1>1. Init => J
  BY InitBurst DEF Init
<1>2. J /\ [Next]_vars => J'
  BY ModeStep, NextBurst DEF ModeFixed
<1> DEFINE A == mode = "TRIGGERED" /\ pc = "end" /\ doStop /\ ofs = "open"
                  => /\ data.first \in TagsAt("sob")
                     /\ data.next - 1 \in TagsAt("eob")
                     /\ data.next - data.first = data.len
<1>3. BurstInv => A
  <2> SUFFICES ASSUME BurstInv, mode = "TRIGGERED", pc = "end", doStop, ofs = "open"
               PROVE  /\ data.first \in TagsAt("sob")
                      /\ data.next - 1 \in TagsAt("eob")
                      /\ data.next - data.first = data.len
    OBVIOUS
  <2>1. BurstCall /\ BurstFileInv
    BY DEF BurstInv
  <2>2. nleft = 0 /\ nread \in Nat /\ nprocessed \in Nat
    BY <2>1 DEF BurstCall
  <2>3. /\ data.next = WritePos /\ data.first \in TagsAt("sob")
        /\ data.next - data.first = data.len
        /\ nread + nprocessed - 1 \in TagsAt("eob")
    BY <2>1 DEF BurstFileInv
  <2>4. nread + nprocessed - 1 = (nread + nprocessed - 0) - 1
    BY <2>2
  <2>5. QED
    BY <2>2, <2>3, <2>4 DEF WritePos
<1>4. J /\ [Next]_vars => [A]_vars
  BY <1>3
<1> HIDE DEF J
<1>5. QED
  BY <1>1, <1>2, <1>4, PTL DEF Spec, BurstFile

(* The first burst of a stream, from its first sample to its last.         *)
FirstStart == Min(TagsAt("sob"))
FirstEnd == Min({i \in TagsAt("eob") : i >= FirstStart})

HasBurst ==
  /\ ConfigTags = {}
  /\ TagsAt("sob") # {}
  /\ \E i \in TagsAt("eob") : i >= FirstStart

(* Until the first burst has been read, the sink seeks its first sample,   *)
(* is about to start a file there, or has it in the open file so far.      *)
CaptureInv ==
  HasBurst =>
    /\ pc \in {"tagged", "start"} => ~doStop /\ ntoconsume = nitems
    /\ burstState = 0 => nread + nprocessed <= FirstStart
    /\ burstState = 1 => nread + nprocessed >= FirstStart
    /\ issueStart => nread + nprocessed = FirstStart
    /\ burstState = 1 /\ ~issueStart /\ nread <= FirstEnd /\ pc # "finished" =>
         /\ ofs = "open"
         /\ nwritten = data.len
         /\ data.len = 0 => WritePos = FirstStart
         /\ data.len > 0 => data.first = FirstStart
         /\ IF pc \in {"write", "end"} /\ doStop
            THEN nread + nprocessed = FirstEnd + 1
            ELSE nread + nprocessed <= FirstEnd

LEMMA FirstBurst ==
  ASSUME HasBurst
  PROVE  /\ FirstStart \in Nat /\ FirstEnd \in Nat /\ FirstStart <= FirstEnd
         /\ FirstStart \in TagsAt("sob") /\ FirstEnd \in TagsAt("eob")
         /\ \A i \in TagsAt("sob") : FirstStart <= i
         /\ \A i \in TagsAt("eob") : i >= FirstStart => FirstEnd <= i
<1> DEFINE B == TagsAt("sob")
           E == {i \in TagsAt("eob") : i >= FirstStart}
<1>1. StreamLen \in Nat
  BY SinkAssumption
<1>2. B \in SUBSET Nat /\ E \in SUBSET Nat /\ B # {} /\ E # {}
  BY <1>1 DEF TagsAt, HasBurst
<1> HIDE DEF B, E
<1>3. /\ Min(B) \in B /\ \A i \in B : Min(B) <= i
      /\ Min(E) \in E /\ \A i \in E : Min(E) <= i
  BY <1>2, MinInSet
<1>4. FirstStart = Min(B) /\ FirstEnd = Min(E)
  BY DEF FirstStart, FirstEnd, B, E
<1> HIDE DEF FirstStart, FirstEnd
<1>5. FirstStart \in Nat /\ FirstEnd \in Nat /\ FirstStart \in B /\ FirstEnd \in E
  BY <1>2, <1>3, <1>4
<1>6. FirstStart <= FirstEnd /\ FirstEnd \in TagsAt("eob")
  BY <1>5 DEF E
<1>7. \A i \in TagsAt("eob") : i >= FirstStart => FirstEnd <= i
  BY <1>3, <1>4 DEF E
<1>8. QED
  BY <1>3, <1>4, <1>5, <1>6, <1>7 DEF B

(* A tag within the window is seen.                                        *)
LEMMA TagSeen ==
  ASSUME nread \in Nat, NEW n \in Nat, NEW kind, NEW i \in TagsAt(kind),
         nread <= i, i < nread + n
  PROVE  i \in Tagged({kind}, n)
<1>1. StreamLen \in Nat
  BY SinkAssumption
<1>2. i \in 0 .. StreamLen - 1 /\ kind \in stream[i]
  BY DEF TagsAt
<1>3. i \in nread .. nread + n - 1 /\ i < StreamLen
  BY <1>1, <1>2
<1>4. stream[i] \cap {kind} # {}
  BY <1>2
<1>5. QED
  BY <1>3, <1>4 DEF Tagged

(* The stream is given: so are its bursts.                                 *)
LEMMA SameBurst ==
  ASSUME stream' = stream
  PROVE  /\ HasBurst' <=> HasBurst
         /\ FirstStart' = FirstStart /\ FirstEnd' = FirstEnd
BY DEF HasBurst, FirstStart, FirstEnd, TagsAt, ConfigTags

(* Nothing cuts a call short.                                              *)
LEMMA HandleTagsCapture ==
  ASSUME BurstCall, HasBurst, CaptureInv, NEW n \in 1 .. MaxItems, HandleTags(n)
  PROVE  CaptureInv'
<1>1. Tagged({"rx_cfg", "rx_time"}, n) = {}
  <2> SUFFICES ASSUME NEW i \in Tagged({"rx_cfg", "rx_time"}, n) PROVE FALSE
    OBVIOUS
  <2>1. StreamLen \in Nat /\ nread \in Nat /\ n \in Nat
    BY SinkAssumption DEF BurstCall
  <2>2. i \in nread .. nread + n - 1 /\ i < StreamLen
        /\ stream[i] \cap {"rx_cfg", "rx_time"} # {}
    BY DEF Tagged
  <2>3. i \in 0 .. StreamLen - 1
    BY <2>1, <2>2
  <2>4. QED
    BY <2>2, <2>3 DEF HasBurst, ConfigTags
<1>2. /\ pc = "idle" /\ pc' = "tagged" /\ nprocessed = 0 /\ ~doStop'
      /\ ntoconsume' = n /\ nitems' = n
      /\ UNCHANGED << issueStart, burstState, nread, nprocessed, nleft, data, ofs, nwritten, stream >>
  BY <1>1 DEF HandleTags, fileVars, BurstCall
<1>3. WritePos' = WritePos
  BY <1>2 DEF WritePos
<1>4. QED
  BY <1>2, <1>3, SameBurst DEF CaptureInv

(* The first start-of-burst is found, and not passed.                      *)
LEMMA SeekCapture ==
  ASSUME BurstCall, BurstFileInv, HasBurst, CaptureInv, mode = "TRIGGERED",
         SeekBurst \/ FindBurst
  PROVE  CaptureInv'
<1>1. /\ pc = "tagged" /\ pc' = "end" /\ burstState = 0 /\ ~issueStart /\ nprocessed = 0
      /\ ~doStop' /\ UNCHANGED << nread, stream >> /\ ntoconsume = nitems
      /\ nread + nprocessed <= FirstStart
  BY DEF SeekBurst, FindBurst, TriggeredCall, Skip, BurstCall, BurstFileInv, CaptureInv, writerVars
<1>2. nread \in Nat /\ nitems \in Nat /\ nread <= FirstStart
  BY <1>1, FirstBurst DEF BurstCall
<1>3. CASE SeekBurst
  <2>1. nprocessed' = nitems /\ burstState' = 0 /\ ~issueStart' /\ StartOfBurst = {}
    BY <1>1, <1>3 DEF SeekBurst, Skip, ctrlVars
  <2>2. ~(FirstStart < nread + nitems)
    BY <1>2, <2>1, FirstBurst, TagSeen DEF StartOfBurst
  <2>3. nread + nitems <= FirstStart
    BY <1>2, <2>2, FirstBurst
  <2>4. QED
    BY <1>1, <2>1, <2>3, SameBurst DEF CaptureInv
<1>4. CASE FindBurst
  <2> DEFINE m == Min(StartOfBurst)
  <2>1. burstState' = 1 /\ issueStart' /\ nprocessed' = m - nread /\ StartOfBurst # {}
    BY <1>4 DEF FindBurst, Skip, BurstOffset
  <2>2. /\ m \in TagsAt("sob") /\ m \in nread .. nread + nitems - 1
        /\ \A i \in StartOfBurst : m <= i
    BY <1>2, <2>1, FirstTag DEF StartOfBurst
  <2> HIDE DEF m
  <2>3. FirstStart <= m /\ FirstStart < nread + nitems
    BY <1>2, <2>2, FirstBurst
  <2>4. m <= FirstStart
    BY <1>2, <2>2, <2>3, FirstBurst, TagSeen DEF StartOfBurst
  <2>5. nread + nprocessed' = FirstStart /\ FirstStart >= FirstStart
    BY <1>2, <2>1, <2>2, <2>3, <2>4, FirstBurst
  <2>6. QED
    BY <1>1, <2>1, <2>5, SameBurst DEF CaptureInv
<1>5. QED
  BY <1>3, <1>4

(* A file is opened for it.                                                *)
LEMMA StartCapture ==
  ASSUME BurstCall, HasBurst, CaptureInv, BurstStart
  PROVE  CaptureInv'
<1>1. /\ pc = "tagged" /\ pc' = "start" /\ issueStart
      /\ UNCHANGED << burstState, issueStart, nread, nitems, ntoconsume, nprocessed, nleft,
                      doStop, data, ofs, nwritten, stream >>
  BY DEF BurstStart, TriggeredCall, WriterStart, ctrlVars
<1>2. FirstStart' = FirstStart /\ FirstEnd' = FirstEnd
  BY <1>1, SameBurst
<1>3. QED
  BY <1>1, <1>2 DEF CaptureInv

LEMMA OpenCapture ==
  ASSUME BurstCall, BurstFileInv, HasBurst, CaptureInv, BurstOpen
  PROVE  CaptureInv'
<1>1. /\ pc = "start" /\ ~doStop /\ ntoconsume = nitems /\ burstState = 1
      /\ nread + nprocessed = FirstStart /\ nleft = 0
  BY DEF BurstOpen, CaptureInv, BurstCall, BurstFileInv
<1>2. /\ ~issueStart' /\ nwritten' = 0 /\ pc' = "tagged"
      /\ UNCHANGED << burstState, nread, nitems, ntoconsume, nprocessed, nleft, doStop, stream >>
  BY DEF BurstOpen, WriterOpen
<1>3. ofs' = "open" /\ data' = NoData
  BY BurstOpenStep
<1>4. nread \in Nat /\ nprocessed \in Nat
  BY DEF BurstCall
<1>5. FirstStart <= FirstEnd /\ FirstStart \in Nat
  BY FirstBurst
<1>6. WritePos' = FirstStart
  BY <1>1, <1>2, <1>4 DEF WritePos
<1>7. nread' + nprocessed' = FirstStart /\ NoData.len = 0
  BY <1>1, <1>2 DEF NoData
<1>8. FirstStart' = FirstStart /\ FirstEnd' = FirstEnd
  BY <1>2, SameBurst
<1>9. QED
  BY <1>1, <1>2, <1>3, <1>5, <1>6, <1>7, <1>8 DEF CaptureInv

(* Its samples are written, up to its end-of-burst tag and no further.     *)
LEMMA WriteCapture ==
  ASSUME BurstCall, BurstFileInv, HasBurst, CaptureInv, mode = "TRIGGERED",
         BurstData \/ BurstEnd
  PROVE  CaptureInv'
<1>1. /\ pc = "tagged" /\ pc' = "write" /\ burstState = 1 /\ ~issueStart /\ nprocessed = 0
      /\ nleft = 0 /\ nleft' = nprocessed'
      /\ UNCHANGED << burstState, issueStart, nread, data, ofs, nwritten, stream >>
  BY DEF BurstData, BurstEnd, TriggeredCall, Write, BurstCall, ctrlVars, writerVars
<1>2. nread \in Nat /\ nitems \in Nat
  BY DEF BurstCall
<1>3. nread >= FirstStart /\ FirstStart \in Nat /\ FirstEnd \in Nat
  <2>1. nread + 0 >= FirstStart
    BY <1>1 DEF CaptureInv
  <2>2. QED
    BY <1>2, <2>1, FirstBurst
<1>4. /\ nprocessed' \in Nat
      /\ nread <= FirstEnd =>
           IF doStop' THEN nread + nprocessed' = FirstEnd + 1
                      ELSE nread + nprocessed' <= FirstEnd
  <2>1. CASE BurstData
    <3>1. ~doStop' /\ nprocessed' = nitems /\ EndOfBurst = {}
      BY <2>1 DEF BurstData, Write
    <3>2. nread <= FirstEnd => ~(FirstEnd < nread + nitems)
      BY <1>2, <3>1, FirstBurst, TagSeen DEF EndOfBurst
    <3>3. QED
      BY <1>2, <1>3, <3>1, <3>2
  <2>2. CASE BurstEnd
    <3> DEFINE m == Min(EndOfBurst)
    <3>1. doStop' /\ nprocessed' = m - nread + 1 /\ EndOfBurst # {}
      BY <2>2 DEF BurstEnd, Write, BurstLength
    <3>2. /\ m \in TagsAt("eob") /\ m \in nread .. nread + nitems - 1
          /\ \A i \in EndOfBurst : m <= i
      BY <1>2, <3>1, FirstTag DEF EndOfBurst
    <3> HIDE DEF m
    <3>3. m >= FirstStart
      BY <1>2, <1>3, <3>2
    <3>4. FirstEnd <= m /\ FirstEnd < nread + nitems
      BY <1>2, <1>3, <3>2, <3>3, FirstBurst
    <3>5. nread <= FirstEnd => m <= FirstEnd
      BY <1>2, <3>2, <3>4, FirstBurst, TagSeen DEF EndOfBurst
    <3>6. nprocessed' \in Nat /\ nread + nprocessed' = m + 1
      BY <1>2, <3>1, <3>2
    <3>7. nread <= FirstEnd => m = FirstEnd
      BY <1>2, <1>3, <3>2, <3>4, <3>5
    <3>8. QED
      BY <3>1, <3>6, <3>7
  <2>3. QED
    BY <2>1, <2>2
<1>5. WritePos' = WritePos
  <2>1. \A k \in Nat : nread + k - k = nread + 0 - 0
    BY <1>2
  <2>2. QED
    BY <1>1, <1>4, <2>1 DEF WritePos
<1>6. nread + nprocessed' >= FirstStart
  <2>1. \A k \in Nat : nread + k >= FirstStart
    BY <1>2, <1>3
  <2>2. QED
    BY <1>4, <2>1
<1>7. FirstStart' = FirstStart /\ FirstEnd' = FirstEnd
  BY <1>1, SameBurst
<1>8. QED
  BY <1>1, <1>4, <1>5, <1>6, <1>7 DEF CaptureInv

LEMMA WrittenCapture ==
  ASSUME BurstCall, BurstFileInv, HasBurst, CaptureInv, mode = "TRIGGERED", WriteEnter
  PROVE  CaptureInv'
<1>1. /\ pc = "write" /\ pc' = "end" /\ nleft = nprocessed /\ nleft' = 0
      /\ data' = Extended(WritePos, nleft) /\ nwritten' = nwritten + nleft
      /\ UNCHANGED << burstState, issueStart, nread, nprocessed, doStop, ofs, stream >>
  BY DEF WriteEnter, WriteWhole, BurstCall, ctrlVars
<1>2. FirstStart' = FirstStart /\ FirstEnd' = FirstEnd
  BY <1>1, SameBurst
<1>3. CASE burstState = 1 /\ ~issueStart /\ nread <= FirstEnd
  <2>1. /\ nread \in Nat /\ nleft \in Nat /\ nprocessed \in Nat
        /\ data.len \in Nat
    BY DEF BurstCall, BurstFileInv, FileData
  <2>2. /\ ofs = "open" /\ nwritten = data.len
        /\ data.len = 0 => WritePos = FirstStart
        /\ data.len > 0 => data.first = FirstStart
        /\ IF doStop THEN nread + nprocessed = FirstEnd + 1
                     ELSE nread + nprocessed <= FirstEnd
    BY <1>1, <1>3 DEF CaptureInv
  <2>3. WritePos = nread + 0 /\ WritePos' = nread + nleft
    <3>1. \A k \in Nat : nread + k - k = nread + 0 /\ nread + k - 0 = nread + k
      BY <2>1
    <3>2. QED
      BY <1>1, <2>1, <3>1 DEF WritePos
  <2> HIDE DEF WritePos
  <2>4. CASE nleft = 0
    <3>1. data' = data /\ nwritten' = nwritten /\ WritePos' = WritePos
      BY <1>1, <2>1, <2>2, <2>3, <2>4 DEF Extended
    <3>2. QED
      BY <1>1, <1>2, <2>2, <3>1 DEF CaptureInv
  <2>5. CASE nleft # 0
    <3>1. data'.len = data.len + nleft
          /\ data'.first = IF data.len = 0 THEN WritePos ELSE data.first
      BY <1>1, <2>2, <2>5 DEF Extended
    <3>2. data'.len > 0 /\ data'.len # 0 /\ nwritten' = data'.len /\ data'.first = FirstStart
      BY <1>1, <2>1, <2>2, <2>5, <3>1
    <3>3. QED
      BY <1>1, <1>2, <2>2, <3>2 DEF CaptureInv
  <2>6. QED
    BY <2>4, <2>5
<1>4. CASE ~(burstState = 1 /\ ~issueStart /\ nread <= FirstEnd)
  BY <1>1, <1>2, <1>4 DEF CaptureInv
<1>5. QED
  BY <1>3, <1>4

LEMMA ReturnCapture ==
  ASSUME BurstCall, HasBurst, CaptureInv, WorkEnd
  PROVE  CaptureInv'
<1>1. /\ pc = "end" /\ pc' = "idle" /\ nleft = 0 /\ nleft' = 0
      /\ nread' = nread + nprocessed /\ nprocessed' = 0
      /\ UNCHANGED << burstState, issueStart, stream >>
      /\ ~doStop => UNCHANGED << data, ofs, nwritten >>
  BY DEF WorkEnd, BurstCall, fileVars, ctrlVars
<1>2. nread \in Nat /\ nprocessed \in Nat /\ FirstEnd \in Nat /\ FirstStart \in Nat
  BY FirstBurst DEF BurstCall
<1>3. nread' + nprocessed' = nread + nprocessed
  BY <1>1, <1>2
<1>4. WritePos' = WritePos
  <2>1. nread + nprocessed + 0 - 0 = nread + nprocessed - 0
    BY <1>2
  <2>2. QED
    BY <1>1, <2>1 DEF WritePos
<1>5. FirstStart' = FirstStart /\ FirstEnd' = FirstEnd
  BY <1>1, SameBurst
<1>6. CASE burstState = 1 /\ ~issueStart /\ nread' <= FirstEnd
  <2>1. nread <= FirstEnd /\ nread + nprocessed <= FirstEnd
    BY <1>1, <1>2, <1>6
  <2>2. ~(nread + nprocessed = FirstEnd + 1)
    BY <1>2, <2>1
  <2>3. ~doStop
    BY <1>1, <1>6, <2>1, <2>2 DEF CaptureInv
  <2>4. QED
    BY <1>1, <1>3, <1>4, <1>5, <1>6, <2>1, <2>3 DEF CaptureInv
<1>7. CASE ~(burstState = 1 /\ ~issueStart /\ nread' <= FirstEnd)
  BY <1>1, <1>3, <1>5, <1>7 DEF CaptureInv
<1>8. QED
  BY <1>6, <1>7

LEMMA ControlCapture ==
  ASSUME "set_recording" \notin Calls, mode' = mode, HasBurst, CaptureInv, ControlCall
  PROVE  CaptureInv'
<1>1. ~(\E state \in BOOLEAN : SetRecording(state)) /\ ~(\E m \in Modes : SetMode(m))
  BY DEF SetRecording, SetMode
<1>2. CASE Stop
  <2>1. /\ pc = "idle" /\ pc' = "finished"
        /\ UNCHANGED << burstState, issueStart, nread, nprocessed, stream >>
    BY <1>2 DEF Stop, ctrlVars
  <2>2. QED
    BY <2>1, SameBurst DEF CaptureInv
<1>3. CASE \/ \E b \in BOOLEAN : SetSecondAlign(b)
           \/ \E n \in NSampleChoices : SetNsamples(n)
           \/ SetPeriod
           \/ \E r \in RolloverChoices : SetFileNumRollover(r)
           \/ SetFreq
  <2>1. UNCHANGED << burstState, issueStart, nread, pc, nitems, ntoconsume, doStop,
                     nprocessed, nleft, data, ofs, nwritten, stream >>
    BY <1>3 DEF SetSecondAlign, SetNsamples, SetPeriod, SetFileNumRollover, SetFreq, Tear,
       sinkVars, callVars, writerVars, fileVars
  <2>2. QED
    BY <2>1, SameBurst DEF CaptureInv, WritePos
<1>4. QED
  BY <1>1, <1>2, <1>3 DEF ControlCall

LEMMA NextCapture ==
  ASSUME "set_recording" \notin Calls, mode = "TRIGGERED", mode' = mode,
         BurstInv, CaptureInv, [Next]_vars
  PROVE  stream' = stream /\ CaptureInv'
<1>1. BurstCall /\ BurstFileInv
  BY DEF BurstInv
<1>2. \/ \E n \in 1 .. MaxItems : HandleTags(n)
      \/ SeekBurst \/ FindBurst \/ BurstStart \/ BurstOpen \/ BurstData \/ BurstEnd \/ BurstCrash
      \/ WriteEnter \/ WorkEnd
      \/ ControlCall
      \/ UNCHANGED vars
  <2>1. ~ManualCall /\ pc \notin {"loop", "rolled"}
    BY <1>1 DEF ManualCall, BurstCall
  <2>2. QED
    BY <2>1 DEF Next, WorkStep, ManualIdle, ManualDiscard, ManualStart, ManualOpen, ManualContinue,
       ManualWait, WriteLoop, WriteRolled, WriteDone
<1>3. stream' = stream
  <2>1. CASE ControlCall
    BY <2>1 DEF ControlCall, SetRecording, SetMode, SetSecondAlign, SetNsamples,
       SetPeriod, SetFileNumRollover, SetFreq, Stop, sinkVars
  <2>2. CASE ~ControlCall
    BY <1>2, <2>2 DEF HandleTags, SeekBurst, FindBurst, BurstStart, BurstOpen, BurstData, BurstEnd,
       BurstCrash, WriteEnter, WorkEnd, vars, sinkVars
  <2>3. QED
    BY <2>1, <2>2
<1>4. CASE ~HasBurst
  BY <1>3, <1>4, SameBurst DEF CaptureInv
<1>5. CASE HasBurst
  <2>1. CASE BurstCrash
    BY <1>5, <2>1 DEF BurstCrash, TriggeredCall, CaptureInv
  <2>2. CASE UNCHANGED vars
    BY <1>3, <2>2, SameBurst DEF CaptureInv, WritePos, vars, sinkVars, writerVars
  <2>3. QED
    BY <1>1, <1>2, <1>3, <1>5, <2>1, <2>2, HandleTagsCapture, SeekCapture, StartCapture,
       OpenCapture,
       WriteCapture, WrittenCapture, ReturnCapture, ControlCapture
<1>6. QED
  BY <1>3, <1>4, <1>5

(* When the stream is read past the end of its first burst, the file of    *)
(* that burst is published.                                                *)
LEMMA CaptureStep ==
  ASSUME mode = "TRIGGERED", BurstInv, CaptureInv, [Next]_vars, HasBurst,
         nread <= FirstEnd, nread' > FirstEnd
  PROVE  pdu'.data = [first |-> FirstStart, next |-> FirstEnd + 1,
                      len |-> FirstEnd + 1 - FirstStart]
<1>1. BurstCall /\ BurstFileInv
  BY DEF BurstInv
<1>2. FirstStart \in Nat /\ FirstEnd \in Nat /\ FirstStart <= FirstEnd
  BY FirstBurst
<1>3. nread' # nread
  BY <1>1, <1>2 DEF BurstCall
<1>4. ~ControlCall
  BY <1>3 DEF ControlCall, SetRecording, SetMode, SetSecondAlign, SetNsamples,
     SetPeriod, Tear, SetFileNumRollover, SetFreq, Stop, sinkVars
<1>5. WorkEnd
  BY <1>3, <1>4 DEF Next, WorkStep, HandleTags, ManualIdle, ManualDiscard, ManualStart,
     ManualOpen, ManualContinue, ManualWait, SeekBurst, FindBurst, BurstStart, BurstOpen, BurstData, BurstEnd,
     BurstCrash, WriteEnter, WriteLoop, WriteRolled, WriteDone, vars, sinkVars
<1>6. /\ pc = "end" /\ nread' = nread + nprocessed /\ nleft = 0
      /\ nread \in Nat /\ nprocessed \in Nat /\ burstState \in {0, 1}
  BY <1>1, <1>5 DEF WorkEnd, BurstCall
<1>7. nread + nprocessed > FirstEnd
  BY <1>6
<1>8. burstState = 1 /\ ~issueStart
  BY <1>2, <1>6, <1>7 DEF CaptureInv
<1>9. /\ ofs = "open" /\ nwritten = data.len
      /\ data.len > 0 => data.first = FirstStart
      /\ IF doStop THEN nread + nprocessed = FirstEnd + 1 ELSE nread + nprocessed <= FirstEnd
  BY <1>6, <1>8 DEF CaptureInv
<1>10. doStop /\ nread + nprocessed = FirstEnd + 1
  BY <1>2, <1>6, <1>7, <1>9
<1>11. /\ data.len > 0 /\ data.next = WritePos /\ data.next - data.first = data.len
       /\ data \in FileData
  BY <1>1, <1>6, <1>9, <1>10 DEF BurstFileInv
<1>12. data.next = FirstEnd + 1 /\ data.first = FirstStart
  <2>1. WritePos = nread + nprocessed
    BY <1>6 DEF WritePos
  <2>2. QED
    BY <1>9, <1>10, <1>11, <2>1
<1>13. data = [first |-> FirstStart, next |-> FirstEnd + 1, len |-> FirstEnd + 1 - FirstStart]
  <2>1. data.len = FirstEnd + 1 - FirstStart
    BY <1>2, <1>11, <1>12
  <2>2. data = [first |-> data.first, next |-> data.next, len |-> data.len]
    BY <1>11 DEF FileData
  <2>3. QED
    BY <1>12, <2>1, <2>2
<1>14. pdu' = [fname |-> fname, time |-> fileTime, nameCfg |-> nameCfg, cfg |-> cfg,
               samples |-> nwritten, data |-> data, ofs |-> ofs, torn |-> torn]
  BY <1>5, <1>9, <1>10, <1>11 DEF WorkEnd, WriterStop, Publish
<1>15. QED
  BY <1>13, <1>14

(* The first burst of a stream without reconfigurations is published as    *)
(* one file, both its tags included, however the windows cut it, while     *)
(* triggered mode is kept and set_recording is not called.                 *)
THEOREM BurstCapturedCorrect ==
  ASSUME WholeFiles, Modes = {"TRIGGERED"}, "set_recording" \notin Calls
  PROVE  Spec => BurstCaptured
<1> DEFINE J == mode = "TRIGGERED" /\ BurstInv /\ CaptureInv
<1>1. Init => J
  <2> SUFFICES ASSUME Init PROVE J
    OBVIOUS
  <2>1. mode = "TRIGGERED" /\ BurstInv
    BY InitBurst DEF Init
  <2>2. CaptureInv
    BY FirstBurst DEF Init, CaptureInv
  <2>3. QED
    BY <2>1, <2>2
<1>2. J /\ [Next]_vars => J'
  BY ModeStep, NextBurst, NextCapture
<1> DEFINE C == LET sob == Min(TagsAt("sob"))
                    eob == Min({i \in TagsAt("eob") : i >= sob})
                IN  (/\ ConfigTags = {}
                     /\ TagsAt("sob") # {}
                     /\ \E i \in TagsAt("eob") : i >= sob
                     /\ nread <= eob /\ nread' > eob)
                      => pdu'.data = [first |-> sob, next |-> eob + 1, len |-> eob + 1 - sob]
<1>3. J /\ [Next]_vars => [C]_vars
  BY CaptureStep DEF HasBurst, FirstStart, FirstEnd
<1> HIDE DEF J
<1>4. QED
  BY <1>1, <1>2, <1>3, PTL DEF Spec, BurstCaptured

=============================================================================
