----------------------------- MODULE BlockBuffer -----------------------------
(***************************************************************************)
(* The block_buffer block (lib/block_buffer_impl.{h,cc}): input is read    *)
(* into one of three buffers while the latest full one is written out, and *)
(* a buffer in which the source changed is started over.                   *)
(*                                                                         *)
(* general_work() holds work_mutex, which set_nsamples and set_pass_data   *)
(* take, so these fall between two calls.  One call is WorkBegin, the      *)
(* turns of the read loop, Consume, the turns of the write loop and        *)
(* WorkReturn.                                                             *)
(***************************************************************************)
EXTENDS Integers, Sequences, FiniteSetsExt

CONSTANTS
  StreamLen,       (* Number of samples of the input stream.               *)
  Streams,         (* The tags a stream may carry: functions on offsets.   *)
  TagTime,         (* The time the rx_time tag at an offset carries.       *)
  SampPeriod,      (* The sample period at d_samp_rate, which only the     *)
                   (* constructor sets.                                    *)
  RatePeriod,      (* The sample period from an rx_rate tag on.            *)
  MaxItems,        (* Largest ninput_items of a call.                      *)
  MaxRoom,         (* Largest noutput_items - d_nreserved of a call.       *)
  NSampleChoices,  (* The block sizes in use.                              *)
  Word,            (* 2^64                                                 *)
  Calls            (* The setters that are called while the block runs.    *)

(* rx_time and rx_rate tags, and overflow tags that are true or false, in  *)
(* any combination.                                                        *)
TagKinds == {"rx_time", "rx_rate", "overflow", "no_overflow"}

ASSUME BufferAssumption ==
  /\ StreamLen \in Nat
  /\ Streams \subseteq [0 .. StreamLen - 1 -> SUBSET TagKinds]
  /\ TagTime \in [0 .. StreamLen - 1 -> Nat]
  /\ SampPeriod \in Nat
  /\ RatePeriod \in [0 .. StreamLen - 1 -> Nat]
  /\ MaxItems \in Nat
  /\ MaxRoom \in Nat
  /\ NSampleChoices \subseteq Nat \ {0}
  /\ Word \in Nat \ {0}
  /\ Calls \subseteq {"set_nsamples", "set_pass_data"}

VARIABLES
  nsamples,      (* d_nsamples                                             *)
  nextNsamples,  (* d_next_nsamples                                        *)
  readIdx,       (* d_read_idx                                             *)
  writeIdx,      (* d_write_idx                                            *)
  reading,       (* d_reading                                              *)
  writing,       (* d_writing                                              *)
  latest,        (* d_latest                                               *)
  latestValid,   (* d_latest_valid                                         *)
  passData,      (* d_pass_data                                            *)
  lastAbs,       (* d_last_abs_read_idx                                    *)
  rxTags,        (* d_rx_time_tags                                         *)
  currentRx,     (* d_current_rx_time_tag                                  *)
  mem,           (* d_buf[].ptr: the sample at each place of each buffer   *)
  bufAbs,        (* d_buf[].abs_read_idx                                   *)
  bufTags,       (* d_buf[].tags: the offsets they were read at            *)
  bufTime,       (* d_buf[].rx_time                                        *)
  stream,        (* the tags of the input stream                           *)
  nread,         (* nitems_read(0)                                         *)
  pc,            (* where general_work() is, or "dead"                     *)
  ninput,        (* ninput_items[0]                                        *)
  inIdx,         (* in_idx                                                 *)
  room,          (* noutput_items - d_nreserved                            *)
  outIdx,        (* out_idx                                                *)
  block,         (* what was sent since the last BLOCK tag                 *)
  blockLen,      (* how many samples that is                               *)
  blockTags,     (* the places in the block that input tags were sent at   *)
  blockTime,     (* the rx_time tag estimated for the block, or NoTime     *)
  blockSkipped   (* the value of its BLOCK tag                             *)

ringVars == << reading, writing, latest, latestValid >>
bufVars == << mem, bufAbs, bufTags, bufTime >>
timeVars == << lastAbs, currentRx >>
blockVars == << block, blockLen, blockTags, blockTime, blockSkipped >>
vars == << nsamples, nextNsamples, readIdx, writeIdx, ringVars, passData, timeVars,
           rxTags, bufVars, stream, nread, pc, ninput, inIdx, room, outIdx,
           blockVars >>

Bufs == 0 .. 2
NoTime == -1
Junk == -1   (* What malloc returns is not set. *)
Offsets == 0 .. StreamLen - 1
RxTag == [offset : Nat, time : Nat]

BufferTypeOK ==
  /\ nsamples \in NSampleChoices
  /\ nextNsamples \in NSampleChoices \cup {0}
  /\ readIdx \in 0 .. nsamples - 1
  /\ writeIdx \in 0 .. nsamples
  /\ reading \in Bufs /\ writing \in Bufs /\ latest \in Bufs \cup {-1}
  /\ latestValid \in BOOLEAN
  /\ mem \in [Bufs -> [0 .. nsamples - 1 -> Int]]
  /\ bufAbs \in [Bufs -> Nat]
  /\ nread \in 0 .. StreamLen
  /\ pc \in {"idle", "read", "write", "dead"}
  /\ ninput \in Nat /\ inIdx \in Nat
  /\ room \in Nat /\ outIdx \in Nat
  /\ blockLen \in Nat
  /\ block \in [0 .. blockLen - 1 -> Int]

TypeOK ==
  /\ BufferTypeOK
  /\ passData \in BOOLEAN
  /\ lastAbs \in Nat
  /\ rxTags \in Seq(RxTag)
  /\ currentRx \in RxTag
  /\ bufTags \in [Bufs -> SUBSET Nat]
  /\ bufTime \in [Bufs -> Int]
  /\ stream \in Streams
  /\ blockTags \subseteq Int
  /\ blockTime \in Int
  /\ blockSkipped \in Nat

(* init_buffers                                                            *)
InitBuffers(n) ==
  /\ nsamples' = n
  /\ mem' = [b \in Bufs |-> [j \in 0 .. n - 1 |-> Junk]]
  /\ writeIdx' = 0
  /\ readIdx' = 0
  /\ reading' = 0
  /\ writing' = 1
  /\ latest' = -1
  /\ latestValid' = FALSE
  /\ nextNsamples' = 0

Init ==
  /\ nsamples \in NSampleChoices
  /\ mem = [b \in Bufs |-> [j \in 0 .. nsamples - 1 |-> Junk]]
  /\ writeIdx = 0
  /\ readIdx = 0
  /\ reading = 0
  /\ writing = 1
  /\ latest = -1
  /\ latestValid = FALSE
  /\ nextNsamples = 0
  /\ passData \in IF "set_pass_data" \in Calls THEN BOOLEAN ELSE {TRUE}
  /\ lastAbs = 0
  /\ currentRx = [offset |-> 0, time |-> 0]
  /\ rxTags = << currentRx >>
  /\ bufAbs = [b \in Bufs |-> 0]
  /\ bufTags = [b \in Bufs |-> {}]
  /\ bufTime = [b \in Bufs |-> NoTime]
  /\ stream \in Streams
  /\ nread = 0
  /\ pc = "idle"
  /\ ninput = 0 /\ inIdx = 0
  /\ room = 0 /\ outIdx = 0
  /\ blockLen = 0
  /\ block = [j \in 0 .. blockLen - 1 |-> Junk]
  /\ blockTags = {}
  /\ blockTime = NoTime
  /\ blockSkipped = 0

-----------------------------------------------------------------------------
(* Entry of general_work().                                                *)

(* Without input, or when data is not passed, nothing is read or written.  *)
WorkDrop(n) ==
  /\ pc = "idle"
  /\ nread + n <= StreamLen
  /\ ~passData \/ n = 0
  /\ nread' = nread + n
  /\ UNCHANGED << nsamples, nextNsamples, readIdx, writeIdx, ringVars, passData,
                  timeVars, rxTags, bufVars, stream, pc, ninput, inIdx, room, outIdx,
                  blockVars >>

WorkBegin(n, space) ==
  /\ pc = "idle"
  /\ nread + n <= StreamLen
  /\ passData
  /\ n > 0
  /\ ninput' = n
  /\ inIdx' = 0
  /\ room' = space
  /\ outIdx' = 0
  /\ pc' = "read"
  /\ UNCHANGED << nsamples, nextNsamples, readIdx, writeIdx, ringVars, passData,
                  timeVars, rxTags, bufVars, stream, nread, blockVars >>

-----------------------------------------------------------------------------
(* The read loop.                                                          *)

Pos == nread + inIdx

(* How much goes into the buffer: what there is, and what it has room for; *)
(* mutant: all there is.                                                   *)
ToReadAll == ninput - inIdx
ToRead == IF ninput - inIdx < nsamples - readIdx THEN ninput - inIdx
                                                 ELSE nsamples - readIdx
Window == Pos .. Pos + ToRead - 1
Tagged(kinds) == {i \in Window : i < StreamLen /\ stream[i] \cap kinds # {}}

TimeTags == Tagged({"rx_time"})
OverflowTags == Tagged({"overflow", "no_overflow"})

(* Where the buffer that is read into starts.                              *)
StartAbs == IF readIdx = 0 THEN Pos ELSE bufAbs[reading]

(* The tags read before, unless the buffer starts here; mutant: they stay. *)
KeptTagsAll == bufTags[reading]
KeptTags == IF readIdx = 0 THEN {} ELSE bufTags[reading]

(* Something happened in the window: the rx_time and the overflow tags do  *)
(* not pair up, or one says it is an overflow.                             *)
(* Mutant: only tags that say so count.                                    *)
OverflowsFlagged == Tagged({"overflow"}) # {}
Overflows == TimeTags # OverflowTags \/ Tagged({"overflow"}) # {}

(* The one rx_time tag of the window is where the buffer starts; mutant:   *)
(* no such exception.                                                      *)
TagNeverAtStart == FALSE
TagAtStart == TimeTags = {StartAbs}
MustRestart == ~TagAtStart /\ Overflows

(* The tag to start over from.                                             *)
LastTag == Max(TimeTags)

(* The tags in the order of their offsets.                                 *)
InOrder(offsets) ==
  [i \in 1 .. Cardinality(offsets) |->
     CHOOSE o \in offsets : Cardinality({p \in offsets : p < o}) = i - 1]

RxTagAt(o) == [offset |-> o, time |-> TagTime[o]]

(* The rx_time tags of the window are queued, the one queued last not      *)
(* again.  back() of an empty queue reads a tag that is no longer there,   *)
(* which is none of the window's.                                          *)
QueueTags ==
  LET seen == {o \in TimeTags : /\ \A p \in TimeTags : o <= p
                                /\ rxTags # << >>
                                /\ rxTags[Len(rxTags)] = RxTagAt(o)}
      new  == TimeTags \ seen
  IN  rxTags' = rxTags \o [i \in 1 .. Cardinality(new) |-> RxTagAt(InOrder(new)[i])]

ReadTurn == pc = "read" /\ inIdx < ninput

(* A buffer starts, and set_nsamples was called.                           *)
Reinitialize ==
  /\ ReadTurn
  /\ readIdx = 0
  /\ nextNsamples # 0
  /\ InitBuffers(nextNsamples)
  /\ UNCHANGED << passData, timeVars, rxTags, bufAbs, bufTags, bufTime, stream,
                  nread, pc, ninput, inIdx, room, outIdx, blockVars >>

NoReinit == ~(readIdx = 0 /\ nextNsamples # 0)

(* Start the buffer over from the last rx_time tag.                        *)
Restart ==
  /\ ReadTurn
  /\ NoReinit
  /\ MustRestart
  /\ TimeTags # {}
  /\ QueueTags
  /\ readIdx' = 0
  /\ inIdx' = LastTag - nread
  /\ bufAbs' = [bufAbs EXCEPT ![reading] = StartAbs]
  /\ bufTags' = [bufTags EXCEPT ![reading] = KeptTags]
  /\ bufTime' = [bufTime EXCEPT ![reading] = IF readIdx = 0 THEN NoTime ELSE @]
  /\ UNCHANGED << nsamples, nextNsamples, writeIdx, ringVars, passData, timeVars, mem,
                  stream, nread, pc, ninput, room, outIdx, blockVars >>

(* The overflow tags of the window come without an rx_time tag: the last   *)
(* of no tags is taken, from below an address that is null.                *)
RestartNowhere ==
  /\ ReadTurn
  /\ NoReinit
  /\ MustRestart
  /\ TimeTags = {}
  /\ pc' = "dead"
  /\ UNCHANGED << nsamples, nextNsamples, readIdx, writeIdx, ringVars, passData,
                  timeVars, rxTags, bufVars, stream, nread, ninput, inIdx, room,
                  outIdx, blockVars >>

(* The buffer to read into next: neither of the two that may be written    *)
(* out.  Mutant: the first two in turn.                                    *)
NextBufOfTwo == 1 - reading
NextBuf == 3 - writing - reading

(* A full buffer is the latest, and is written out next when the writer    *)
(* has been waiting.                                                       *)
SwitchReading ==
  /\ latest' = reading
  /\ latestValid' = TRUE
  /\ IF latestValid
     THEN /\ reading' = NextBuf
          /\ UNCHANGED << writeIdx, writing >>
     ELSE /\ reading' = NextBuf
          /\ writeIdx' = 0
          /\ writing' = reading

Read ==
  /\ ReadTurn
  /\ NoReinit
  /\ ~MustRestart
  /\ QueueTags
  /\ bufAbs' = [bufAbs EXCEPT ![reading] = StartAbs]
  /\ bufTime' = [bufTime EXCEPT ![reading] =
                   IF TagAtStart THEN TagTime[StartAbs]
                   ELSE IF readIdx = 0 THEN NoTime ELSE @]
  /\ bufTags' = [bufTags EXCEPT ![reading] = KeptTags \cup Tagged(TagKinds)]
  /\ mem' = [mem EXCEPT ![reading] =
               [j \in DOMAIN @ |-> IF j \in readIdx .. readIdx + ToRead - 1
                                   THEN Pos + j - readIdx ELSE @[j]]]
  /\ inIdx' = inIdx + ToRead
  /\ IF readIdx + ToRead = nsamples
     THEN readIdx' = 0 /\ SwitchReading
     ELSE readIdx' = readIdx + ToRead /\ UNCHANGED << writeIdx, ringVars >>
  /\ UNCHANGED << nsamples, nextNsamples, passData, timeVars, stream, nread, pc,
                  ninput, room, outIdx, blockVars >>

Consume ==
  /\ pc = "read"
  /\ inIdx = ninput
  /\ nread' = nread + ninput
  /\ inIdx' = 0
  /\ ninput' = 0
  /\ pc' = "write"
  /\ UNCHANGED << nsamples, nextNsamples, readIdx, writeIdx, ringVars, passData,
                  timeVars, rxTags, bufVars, stream, room, outIdx, blockVars >>

-----------------------------------------------------------------------------
(* The write loop.                                                         *)

ToWrite == IF room - outIdx < nsamples - writeIdx THEN room - outIdx
                                                  ELSE nsamples - writeIdx

(* How many queued rx_time tags the block has reached, which are taken off;*)
(* mutant: passed.                                                         *)
PassedTagsFewer(first) ==
  Max({i \in 0 .. Len(rxTags) : \A j \in 1 .. i : first > rxTags[j].offset})
PassedTags(first) ==
  Max({i \in 0 .. Len(rxTags) : \A j \in 1 .. i : first >= rxTags[j].offset})

(* Samples skipped since the last block, unsigned; mutant: from its start. *)
SkippedFromStart(first) == IF first = 0 THEN 0 ELSE (first - lastAbs) % Word
Skipped(first) == IF first = 0 THEN 0 ELSE (first - lastAbs - nsamples) % Word

(* As an int64_t it is positive.                                           *)
SomeSkipped(first) == 2 * Skipped(first) < Word /\ Skipped(first) > 0

(* The time after a tag, at the constructor's rate.                        *)
TimeAfter(tag, first) == tag.time + (first - tag.offset) * SampPeriod

(* The tags a block starts with.                                           *)
SendTags ==
  LET first  == bufAbs[writing]
      passed == PassedTags(first)
      base   == IF passed = 0 THEN currentRx ELSE rxTags[passed]
  IN
    /\ blockTags' = {o - first : o \in bufTags[writing]}
    /\ currentRx' = base
    /\ rxTags' = SubSeq(rxTags, passed + 1, Len(rxTags))
    /\ blockTime' = IF bufTime[writing] = NoTime /\ SomeSkipped(first)
                    THEN TimeAfter(base, first) ELSE NoTime
    /\ bufTime' = [bufTime EXCEPT ![writing] =
                     IF bufTime[writing] = NoTime /\ SomeSkipped(first)
                     THEN TimeAfter(base, first) ELSE @]
    /\ blockSkipped' = Skipped(first)
    /\ lastAbs' = first

(* The samples sent: after those of the block so far, or as a new block.   *)
Send(sent, k) ==
  /\ blockLen' = sent + k
  /\ block' = [j \in 0 .. sent + k - 1 |->
                 IF j < sent THEN block[j] ELSE mem[writing][writeIdx + j - sent]]

Write ==
  /\ pc = "write"
  /\ latestValid
  /\ outIdx < room
  /\ IF writeIdx = 0
     THEN SendTags /\ Send(0, ToWrite)
     ELSE /\ Send(blockLen, ToWrite)
          /\ UNCHANGED << timeVars, rxTags, bufTime, blockTags, blockTime,
                          blockSkipped >>
  /\ outIdx' = outIdx + ToWrite
  /\ IF writeIdx + ToWrite < nsamples
     THEN writeIdx' = writeIdx + ToWrite /\ UNCHANGED << writing, latestValid >>
     ELSE IF latest = writing
          THEN /\ latestValid' = FALSE
               /\ writeIdx' = nsamples
               /\ UNCHANGED writing
          ELSE /\ writeIdx' = 0
               /\ writing' = latest
               /\ UNCHANGED latestValid
  /\ UNCHANGED << nsamples, nextNsamples, readIdx, reading, latest, passData, mem,
                  bufAbs, bufTags, stream, nread, pc, ninput, inIdx, room >>

WorkReturn ==
  /\ pc = "write"
  /\ ~latestValid \/ outIdx >= room
  /\ pc' = "idle"
  /\ room' = 0
  /\ outIdx' = 0
  /\ UNCHANGED << nsamples, nextNsamples, readIdx, writeIdx, ringVars, passData,
                  timeVars, rxTags, bufVars, stream, nread, ninput, inIdx,
                  blockVars >>

-----------------------------------------------------------------------------
(* Control calls.                                                          *)

SetNsamples(n) ==
  /\ "set_nsamples" \in Calls
  /\ pc = "idle"
  /\ nextNsamples' = n
  /\ readIdx' = 0
  /\ UNCHANGED << nsamples, writeIdx, ringVars, passData, timeVars, rxTags, bufVars,
                  stream, nread, pc, ninput, inIdx, room, outIdx, blockVars >>

SetPassData(b) ==
  /\ "set_pass_data" \in Calls
  /\ pc = "idle"
  /\ passData' = b
  /\ UNCHANGED << nsamples, nextNsamples, readIdx, writeIdx, ringVars, timeVars,
                  rxTags, bufVars, stream, nread, pc, ninput, inIdx, room, outIdx,
                  blockVars >>

WorkStep ==
  \/ Reinitialize
  \/ Restart
  \/ RestartNowhere
  \/ Read
  \/ Consume
  \/ Write
  \/ WorkReturn

Next ==
  \/ \E n \in 0 .. MaxItems : WorkDrop(n)
  \/ \E n \in 1 .. MaxItems, space \in 0 .. MaxRoom : WorkBegin(n, space)
  \/ WorkStep
  \/ \E n \in NSampleChoices \cup {0} : SetNsamples(n)
  \/ \E b \in BOOLEAN : SetPassData(b)

Spec == Init /\ [][Next]_vars

(* A call of general_work() that has begun keeps running.                  *)
FairSpec == Spec /\ WF_vars(WorkStep)

-----------------------------------------------------------------------------
(* Properties.                                                             *)

(* The block sends blocks of consecutive samples, in order and each sample *)
(* once, whichever of the three buffers they went through.                 *)
BlocksView == INSTANCE Blocks WITH len <- blockLen
SendsBlocks == BlocksView!Spec

(* "Guarantee blocks of continuous samples": the samples of a block are    *)
(* consecutive samples of the input.                                       *)
(* With set_pass_data it does not hold (README, 5.2).                      *)
ContinuousBlock == block = BlocksView!Stretch(block[0], blockLen)

(* A block is broken off and taken up again when set_pass_data is called   *)
(* inside it; still no sample comes out twice or before an earlier one,    *)
(* neither in a block nor from a block to the next.                        *)
OutputInOrder ==
  /\ [](\A i, j \in 0 .. blockLen - 1 : i < j => block[i] < block[j])
  /\ [][writeIdx = 0 /\ blockLen > 0 /\ block' # block
           => block'[0] > block[blockLen - 1]]_vars

(* "free of overflows or rate changes": inside a block there is no rx_time *)
(* tag but one whose overflow tag says there was none, and no overflow tag *)
(* without an rx_time tag unless the block starts with one: the window of  *)
(* such a tag is not looked at further.                                    *)
OverflowTag == {"overflow", "no_overflow"}
Calm(tags, firstTags) ==
  /\ "rx_time" \in tags => tags \cap OverflowTag = {"no_overflow"}
  /\ tags \cap OverflowTag # {} => "rx_time" \in tags \cup firstTags
NoChangeInBlock ==
  \A j \in 1 .. blockLen - 1 : Calm(stream[block[j]], stream[block[0]])

(* The tags of the samples come out on the samples they came in on: none   *)
(* is lost, and none is sent at another or at an earlier block.            *)
TagsStayOnSamples ==
  /\ \A j \in 0 .. blockLen - 1 : j \in blockTags <=> stream[block[j]] # {}
  /\ \A j \in blockTags : j >= 0

(* The period of a sample: that of the last rx_rate tag.                   *)
PeriodAt(i) ==
  LET past == {j \in Offsets : j <= i /\ "rx_rate" \in stream[j]}
  IN  IF past = {} THEN SampPeriod ELSE RatePeriod[Max(past)]

(* The time of a sample: that of the last rx_time tag and a period for each*)
(* sample since, when they have the constructor's.                         *)
TimeTagsUpTo(i) == {j \in Offsets : j <= i /\ "rx_time" \in stream[j]}
LastTime(i) ==
  IF TimeTagsUpTo(i) = {} THEN [offset |-> 0, time |-> 0]
                          ELSE RxTagAt(Max(TimeTagsUpTo(i)))
SteadyRate(i) == \A j \in LastTime(i).offset .. i - 1 : PeriodAt(j) = SampPeriod
TrueTime(i) == LastTime(i).time + (i - LastTime(i).offset) * SampPeriod

(* The time estimated for a block after a skip is that of its first sample,*)
(* whatever rx_time tags were queued, passed or restarted from meanwhile,  *)
(* unless the rate changed: d_samp_rate stays the constructor's.           *)
EstimatedTimeTrue ==
  blockLen > 0 /\ blockTime # NoTime /\ SteadyRate(block[0])
    => blockTime = TrueTime(block[0])

(* "The value of the tag is the number of samples which have been skipped  *)
(* since the last block": the last block was sent whole, and the next one  *)
(* has its size.                                                           *)
SkipCountAfterWholeBlock ==
  [][pc = "write" /\ writeIdx = 0 /\ blockLen = nsamples /\ lastAbs' # lastAbs
       => blockSkipped' = block'[0] - (block[0] + blockLen)]_vars

(* The same of every block, the first included, before which all the       *)
(* samples ahead of it were skipped.                                       *)
(* It does not hold (README, 5.2).                                         *)
SkipCount ==
  [][pc = "write" /\ lastAbs' # lastAbs
       => blockSkipped' = block'[0] - (IF blockLen = 0 THEN 0
                                       ELSE block[0] + blockLen)]_vars

(* A call of general_work() returns: starting over from a tag ends, when   *)
(* there is one (README, 5.2).                                             *)
WorkReturns == pc # "idle" ~> pc \in {"idle", "dead"}

(* The invariants of a block sent, together: free of overflows, its tags on *)
(* their samples, its time that of its first sample.                        *)
BufferInv == TypeOK /\ NoChangeInBlock /\ TagsStayOnSamples /\ EstimatedTimeTrue

=============================================================================
