------------------------------ MODULE FileSink ------------------------------
(***************************************************************************)
(* The file_sink block (lib/file_sink_impl.{h,cc}) on a finite input       *)
(* stream, recording manually or on burst tags, with the control calls     *)
(* other threads make while its work() method runs.                        *)
(*                                                                         *)
(* work() holds d_mutex from its first line to its last, and so do         *)
(* set_recording and set_mode; every other setter takes no lock work()     *)
(* holds, so it may fall between any two steps of it.  One call of work()  *)
(* is the sequence HandleTags, the actions of the mode, the turns of the   *)
(* writer's loop, and WorkEnd.                                             *)
(***************************************************************************)
EXTENDS FileWriter, FiniteSetsExt

CONSTANTS
  StreamLen,   (* Number of samples of the input stream.                   *)
  Streams,     (* The tags a stream may carry: functions on its offsets.   *)
  TagTime,     (* The time an rx_time tag at an offset carries.            *)
  MaxItems,    (* Largest noutput_items of a work() call.                  *)
  Second,      (* Sample periods in one second.                            *)
  Rounding,    (* Samples that inexact arithmetic adds to a discard.       *)
  Modes,       (* The recording modes in use.                              *)
  Calls        (* The setters that are called while the block runs.        *)

TagKinds == {"rx_cfg", "rx_time", "sob", "eob"}
CallNames == {"set_recording", "set_mode", "set_second_align", "set_nsamples",
              "set_file_num_rollover", "set_freq", "stop"}

ASSUME SinkAssumption ==
  /\ StreamLen \in Nat
  /\ Streams \subseteq [0 .. StreamLen - 1 -> SUBSET TagKinds]
  /\ TagTime \in [0 .. StreamLen - 1 -> Nat]
  /\ MaxItems \in Nat \ {0}
  /\ Second \in Nat \ {0}
  /\ Rounding \subseteq {0, 1} /\ 0 \in Rounding
  /\ Modes \subseteq {"MANUAL", "TRIGGERED"}
  /\ Calls \subseteq CallNames

VARIABLES
  mode,        (* d_mode                                                   *)
  recording,   (* d_recording                                              *)
  checkStart,  (* d_check_start                                            *)
  issueStart,  (* d_issue_start                                            *)
  burstState,  (* d_burst_state                                            *)
  ndiscard,    (* d_ndiscard                                               *)
  align,       (* d_align                                                  *)
  sampTime,    (* d_samp_time                                              *)
  stream,      (* the tags of the input stream                             *)
  nread,       (* nitems_read(0)                                           *)
  pc,          (* where work() is                                          *)
  nitems,      (* noutput_items of this call                               *)
  ntoconsume,  (* local of work()                                          *)
  doStop,      (* local of work(): the writer is stopped before it returns *)
  nprocessed,  (* local of work()                                          *)
  nleft        (* local of the writer's write()                            *)

ctrlVars == << mode, recording, checkStart, issueStart, burstState, ndiscard, align >>
callVars == << pc, nitems, ntoconsume, doStop, nprocessed, nleft >>
sinkVars == << mode, recording, checkStart, issueStart, burstState, ndiscard,
               align, sampTime, stream, nread, pc, nitems, ntoconsume, doStop,
               nprocessed, nleft >>
vars == << sinkVars, writerVars >>

PcStates == {"idle", "tagged", "start", "write", "loop", "rolled", "end", "crashed",
             "finished"}

TypeOK ==
  /\ WriterTypeOK
  /\ mode \in Modes
  /\ recording \in BOOLEAN
  /\ checkStart \in BOOLEAN
  /\ issueStart \in BOOLEAN
  /\ burstState \in {0, 1}
  /\ ndiscard \in Nat
  /\ align \in BOOLEAN
  /\ sampTime \in Nat
  /\ stream \in Streams
  /\ nread \in 0 .. StreamLen
  /\ pc \in PcStates
  /\ nitems \in Nat
  /\ ntoconsume \in Nat
  /\ doStop \in BOOLEAN
  /\ nprocessed \in Nat
  /\ nleft \in Nat

Init ==
  /\ WriterInit
  /\ mode \in Modes
  /\ recording = FALSE
  /\ checkStart = FALSE
  /\ issueStart = FALSE
  /\ burstState = 0
  /\ ndiscard = 0
  /\ align = TRUE
  /\ sampTime = 0
  /\ stream \in Streams
  /\ nread = 0
  /\ pc = "idle"
  /\ nitems = 0
  /\ ntoconsume = 0
  /\ doStop = FALSE
  /\ nprocessed = 0
  /\ nleft = 0

-----------------------------------------------------------------------------
(* The tags of this call: get_tags_in_range over its window.               *)
Tagged(kinds, n) ==
  {i \in nread .. nread + n - 1 : i < StreamLen /\ stream[i] \cap kinds # {}}

(* How much of the window precedes the last reconfiguration; mutant: its   *)
(* own sample too.                                                         *)
ThroughChange(change) == change - nread + 1
UpToChange(change) == change - nread

(* do_handle_tags: the last tag of each kind wins, its value is taken over *)
(* at once, and the call is cut short at the last reconfiguration.         *)
HandleTags(n) ==
  LET config  == Tagged({"rx_cfg", "rx_time"}, n)
      cfgs    == Tagged({"rx_cfg"}, n)
      times   == Tagged({"rx_time"}, n)
      changed == config # {}
      change  == Max(config)
      begins  == changed /\ change = nread /\ ~isStarted
  IN
    /\ pc = "idle"
    /\ nread + n <= StreamLen
    /\ nitems' = n
    /\ cfg' = IF cfgs = {} THEN cfg ELSE Max(cfgs)
    /\ sampTime' = IF times = {} THEN sampTime ELSE TagTime[Max(times)]
    /\ checkStart' = IF changed THEN begins ELSE checkStart
    /\ issueStart' = IF changed THEN FALSE ELSE issueStart
    /\ doStop' = (changed /\ isStarted)
    /\ ntoconsume' = IF changed /\ ~begins THEN UpToChange(change) ELSE n
    /\ pc' = "tagged"
    /\ UNCHANGED << mode, recording, burstState, ndiscard, align, stream, nread,
                    nprocessed, nleft, nsamples, period, rollover, fileVars >>

(* Return without writing: the samples are consumed and lost.              *)
Skip(k) ==
  /\ nprocessed' = k
  /\ nleft' = 0
  /\ doStop' = FALSE
  /\ pc' = "end"
  /\ UNCHANGED << nitems, ntoconsume >>

(* Enter the writer's write() with k samples.                              *)
Write(k) ==
  /\ nprocessed' = k
  /\ nleft' = k
  /\ pc' = "write"
  /\ UNCHANGED << nitems, ntoconsume >>

-----------------------------------------------------------------------------
(* Manual mode.                                                            *)

(* Samples to the next second, as computed when d_check_start is seen;     *)
(* mutant: one too few.                                                    *)
AlignDiscardShort(extra) ==
  IF ~align \/ (sampTime % Second) <= 1 THEN 0
  ELSE (Second - (sampTime % Second)) + extra - 1

AlignDiscard(extra) ==
  IF ~align \/ (sampTime % Second) <= 1 THEN 0
  ELSE (Second - (sampTime % Second)) + extra

ToDiscard(extra) == IF checkStart THEN AlignDiscard(extra) ELSE ndiscard
StartDue == checkStart \/ issueStart

ManualCall == pc = "tagged" /\ mode = "MANUAL"

ManualIdle ==
  /\ ManualCall
  /\ ~recording
  /\ Skip(ntoconsume)
  /\ UNCHANGED << ctrlVars, sampTime, stream, nread, writerVars >>

ManualDiscard(extra) ==
  LET todo == ToDiscard(extra)
      k    == IF todo < ntoconsume THEN todo ELSE ntoconsume
  IN
    /\ ManualCall
    /\ recording
    /\ todo > 0
    /\ ndiscard' = todo - k
    /\ issueStart' = StartDue
    /\ checkStart' = FALSE
    /\ Skip(k)
    /\ UNCHANGED << mode, recording, burstState, align, sampTime, stream, nread,
                    writerVars >>

ManualStart(extra) ==
  /\ ManualCall
  /\ recording
  /\ ToDiscard(extra) = 0
  /\ StartDue
  /\ WriterStart(sampTime)
  /\ ndiscard' = 0
  /\ checkStart' = FALSE
  /\ issueStart' = TRUE
  /\ pc' = "start"
  /\ UNCHANGED << mode, recording, burstState, align, sampTime, stream, nread, nitems,
                  ntoconsume, doStop, nprocessed, nleft, paramVars >>

(* start() ends, and what is left of the window is written.                *)
ManualOpen ==
  /\ pc = "start"
  /\ mode = "MANUAL"
  /\ WriterOpen
  /\ issueStart' = FALSE
  /\ Write(ntoconsume)
  /\ UNCHANGED << mode, recording, checkStart, burstState, ndiscard, align, sampTime,
                  stream, nread, doStop, paramVars >>

ManualContinue ==
  /\ ManualCall
  /\ recording
  /\ ndiscard = 0
  /\ ~StartDue
  /\ isStarted
  /\ Write(ntoconsume)
  /\ UNCHANGED << ctrlVars, sampTime, stream, nread, doStop, writerVars >>

(* Recording was asked for, but the next tag must be reached first.        *)
ManualWait ==
  /\ ManualCall
  /\ recording
  /\ ndiscard = 0
  /\ ~StartDue
  /\ ~isStarted
  /\ Skip(ntoconsume)
  /\ UNCHANGED << ctrlVars, sampTime, stream, nread, writerVars >>

-----------------------------------------------------------------------------
(* Triggered mode.                                                         *)

TriggeredCall == pc = "tagged" /\ mode = "TRIGGERED"
StartOfBurst == Tagged({"sob"}, nitems)
EndOfBurst == Tagged({"eob"}, nitems)

(* What precedes the burst, which is skipped; mutant: its first sample too.*)
BurstOffsetLate == Min(StartOfBurst) - nread + 1
BurstOffset == Min(StartOfBurst) - nread

(* What is left of the burst, its last sample included; mutant: excluded.  *)
BurstLengthShort == Min(EndOfBurst) - nread
BurstLength == Min(EndOfBurst) - nread + 1

SeekBurst ==
  /\ TriggeredCall
  /\ burstState = 0
  /\ StartOfBurst = {}
  /\ Skip(ntoconsume)
  /\ UNCHANGED << ctrlVars, sampTime, stream, nread, writerVars >>

FindBurst ==
  /\ TriggeredCall
  /\ burstState = 0
  /\ StartOfBurst # {}
  /\ burstState' = 1
  /\ issueStart' = TRUE
  /\ Skip(BurstOffset)
  /\ UNCHANGED << mode, recording, checkStart, ndiscard, align, sampTime, stream,
                  nread, writerVars >>

BurstStart ==
  /\ TriggeredCall
  /\ burstState = 1
  /\ issueStart
  /\ WriterStart(sampTime)
  /\ pc' = "start"
  /\ UNCHANGED << ctrlVars, sampTime, stream, nread, nitems, ntoconsume, doStop,
                  nprocessed, nleft, paramVars >>

(* start() ends, and the window is looked at for the end of the burst.     *)
BurstOpen ==
  /\ pc = "start"
  /\ mode = "TRIGGERED"
  /\ WriterOpen
  /\ issueStart' = FALSE
  /\ pc' = "tagged"
  /\ UNCHANGED << mode, recording, checkStart, burstState, ndiscard, align, sampTime,
                  stream, nread, nitems, ntoconsume, doStop, nprocessed, nleft,
                  paramVars >>

BurstData ==
  /\ TriggeredCall
  /\ burstState = 1
  /\ ~issueStart
  /\ EndOfBurst = {}
  /\ ~doStop
  /\ Write(nitems)
  /\ UNCHANGED << ctrlVars, sampTime, stream, nread, doStop, writerVars >>

BurstEnd ==
  /\ TriggeredCall
  /\ burstState = 1
  /\ ~issueStart
  /\ EndOfBurst # {}
  /\ Write(BurstLength)
  /\ doStop' = TRUE
  /\ UNCHANGED << ctrlVars, sampTime, stream, nread, writerVars >>

(* burst_tags[0] of an empty vector is read: a null pointer is followed.   *)
BurstCrash ==
  /\ TriggeredCall
  /\ burstState = 1
  /\ ~issueStart
  /\ EndOfBurst = {}
  /\ doStop
  /\ pc' = "crashed"
  /\ UNCHANGED << ctrlVars, sampTime, stream, nread, nitems, ntoconsume, doStop,
                  nprocessed, nleft, writerVars >>

-----------------------------------------------------------------------------
(* The writer's write(), and the return of work().                         *)

(* The sample write() is at.                                               *)
WritePos == nread + nprocessed - nleft

WriteEnter ==
  /\ pc = "write"
  /\ IF nsamples = 0
     THEN WriteWhole(WritePos, nleft) /\ nleft' = 0 /\ pc' = "end"
     ELSE pc' = "loop" /\ UNCHANGED << nleft, fileVars >>
  /\ UNCHANGED << ctrlVars, sampTime, stream, nread, nitems, ntoconsume, doStop,
                  nprocessed, paramVars >>

WriteLoop ==
  LET k == Chunk(nleft)
  IN
    /\ pc = "loop"
    /\ nleft > 0
    /\ nleft' = nleft - k
    /\ IF nremaining = k THEN WriteAndRoll(WritePos, k) /\ pc' = "rolled"
                         ELSE WriteChunk(WritePos, k) /\ pc' = pc
    /\ UNCHANGED << ctrlVars, sampTime, stream, nread, nitems, ntoconsume, doStop,
                    nprocessed, paramVars >>

WriteRolled ==
  /\ pc = "rolled"
  /\ MoveTime
  /\ pc' = "loop"
  /\ UNCHANGED << ctrlVars, sampTime, stream, nread, nitems, ntoconsume, doStop,
                  nprocessed, nleft, paramVars >>

WriteDone ==
  /\ pc = "loop"
  /\ nleft = 0
  /\ pc' = "end"
  /\ UNCHANGED << ctrlVars, sampTime, stream, nread, nitems, ntoconsume, doStop,
                  nprocessed, nleft, writerVars >>

WorkEnd ==
  /\ pc = "end"
  /\ IF doStop THEN WriterStop ELSE UNCHANGED fileVars
  /\ sampTime' = sampTime + nprocessed
  /\ nread' = nread + nprocessed
  /\ nprocessed' = 0
  /\ nitems' = 0
  /\ ntoconsume' = 0
  /\ doStop' = FALSE
  /\ pc' = "idle"
  /\ UNCHANGED << ctrlVars, stream, nleft, paramVars >>

-----------------------------------------------------------------------------
(* Control calls.  The first two wait for d_mutex, the others do not.      *)

(* No work() call holds d_mutex; mutant: nobody takes it.                  *)
UnlockedAlways == pc # "crashed"
Unlocked == pc \in {"idle", "finished"}

(* do_set_recording                                                        *)
SetRecording(state) ==
  /\ "set_recording" \in Calls
  /\ Unlocked
  /\ recording # state
  /\ recording' = state
  /\ IF state
     THEN /\ issueStart' = FALSE
          /\ checkStart' = TRUE
          /\ UNCHANGED fileVars
     ELSE /\ WriterStop
          /\ UNCHANGED << issueStart, checkStart >>
  /\ UNCHANGED << mode, burstState, ndiscard, align, sampTime, stream, nread,
                  callVars, paramVars >>

(* A mode that was not recording leaves the file as it is.                 *)
LeaveOpen ==
  /\ leftOpen' = isStarted
  /\ UNCHANGED << isStarted, ofs, data, fname, nameCfg, nremaining, nwritten, fileNum,
                  fileTime, fileTimeNext, pdu, torn >>

(* do_set_mode                                                             *)
SetMode(m) ==
  /\ "set_mode" \in Calls
  /\ Unlocked
  /\ mode # m
  /\ mode' = m
  /\ burstState' = 0
  /\ recording' = FALSE
  /\ IF recording THEN WriterStop ELSE LeaveOpen
  /\ UNCHANGED << checkStart, issueStart, ndiscard, align, sampTime, stream,
                  nread, callVars, paramVars >>

SetSecondAlign(b) ==
  /\ "set_second_align" \in Calls
  /\ align' = b
  /\ UNCHANGED << mode, recording, checkStart, issueStart, burstState, ndiscard,
                  sampTime, stream, nread, callVars, writerVars >>

(* start() or write() is between its two reads of the size of a file.      *)
Between == pc \in {"start", "rolled"}
Tear ==
  /\ torn' = (torn \/ Between)
  /\ UNCHANGED << isStarted, ofs, data, fname, nameCfg, nremaining, nwritten, fileNum,
                  fileTime, fileTimeNext, pdu, leftOpen >>

(* The writer's set_nsamples, once no other call of it holds the writer's  *)
(* d_mutex: d_nsamples, then d_T.                                          *)
SetNsamples(n) ==
  /\ "set_nsamples" \in Calls
  /\ ~HalfSet
  /\ n # nsamples
  /\ nsamples' = n
  /\ Tear
  /\ UNCHANGED << sinkVars, period, rollover, cfg >>

SetPeriod ==
  /\ HalfSet
  /\ period' = nsamples
  /\ Tear
  /\ UNCHANGED << sinkVars, nsamples, rollover, cfg >>

SetFileNumRollover(r) ==
  /\ "set_file_num_rollover" \in Calls
  /\ rollover' = r
  /\ UNCHANGED << sinkVars, nsamples, period, cfg, fileVars >>

(* set_freq and set_rate                                                   *)
SetFreq ==
  /\ "set_freq" \in Calls
  /\ cfg' = UserCfg
  /\ UNCHANGED << sinkVars, nsamples, period, rollover, fileVars >>

(* The scheduler calls stop() when the last work() has returned.           *)
Stop ==
  /\ "stop" \in Calls
  /\ pc = "idle"
  /\ WriterStop
  /\ pc' = "finished"
  /\ UNCHANGED << ctrlVars, sampTime, stream, nread, nitems, ntoconsume, doStop,
                  nprocessed, nleft, paramVars >>

-----------------------------------------------------------------------------
WorkStep ==
  \/ ManualIdle
  \/ \E extra \in Rounding : ManualDiscard(extra) \/ ManualStart(extra)
  \/ ManualOpen
  \/ ManualContinue
  \/ ManualWait
  \/ SeekBurst
  \/ FindBurst
  \/ BurstStart
  \/ BurstOpen
  \/ BurstData
  \/ BurstEnd
  \/ BurstCrash
  \/ WriteEnter
  \/ WriteLoop
  \/ WriteRolled
  \/ WriteDone
  \/ WorkEnd

ControlCall ==
  \/ \E state \in BOOLEAN : SetRecording(state)
  \/ \E m \in Modes : SetMode(m)
  \/ \E b \in BOOLEAN : SetSecondAlign(b)
  \/ \E n \in NSampleChoices : SetNsamples(n)
  \/ SetPeriod
  \/ \E r \in RolloverChoices : SetFileNumRollover(r)
  \/ SetFreq
  \/ Stop

Next ==
  \/ \E n \in 1 .. MaxItems : HandleTags(n)
  \/ WorkStep
  \/ ControlCall

Spec == Init /\ [][Next]_vars

(* A call of work() that has begun keeps running.                          *)
FairSpec == Spec /\ WF_vars(WorkStep)

-----------------------------------------------------------------------------
(* Properties.                                                             *)

ConfigTags == {i \in 0 .. StreamLen - 1 : stream[i] \cap {"rx_cfg", "rx_time"} # {}}
TimeTags == {i \in 0 .. StreamLen - 1 : "rx_time" \in stream[i]}
TagsAt(kind) == {i \in 0 .. StreamLen - 1 : kind \in stream[i]}

(* The time of a sample: that of the last rx_time tag, and a period for    *)
(* each sample since.                                                      *)
TrueTime(i) ==
  LET past == {j \in TimeTags : j <= i}
  IN  IF past = {} THEN i ELSE TagTime[Max(past)] + i - Max(past)

(* What the writer reports of a file is what the file holds: the count it  *)
(* keeps, and the count of each update it published, is the number of      *)
(* samples the stream took, whatever control calls fall between the steps  *)
(* of a write.  After a burst the sink writes to a stream that is closed,  *)
(* and counts and announces that, too; without bursts it never does        *)
(* (README, 5.2).                                                          *)
CountMatchesFile ==
  /\ ofs = "open" => nwritten = data.len
  /\ pdu.ofs = "open" => pdu.samples = pdu.data.len
  /\ TagsAt("sob") = {} => nwritten = data.len /\ pdu.samples = pdu.data.len

(* "Waiting for end of burst" (d_burst_state = 1) means what it says: a    *)
(* burst is being recorded, or is about to be.                             *)
(* It does not hold (README, 5.2).                                         *)
BurstBeingRecorded ==
  pc = "idle" /\ burstState = 1 => isStarted \/ issueStart

(* "Ensure we're no longer recording": a change of mode leaves no file open.*)
(* It does not hold (README, 5.2).                                         *)
NewModeNotRecording == [][mode' # mode => ~isStarted']_vars

(* The sink records, in either mode: a file has no hole, and is announced  *)
(* as it stands when it is closed; the Recorder's position is the next     *)
(* sample that is neither written nor dropped.  In a stream with bursts it *)
(* may go astray while no file is open, or one that a change of mode left  *)
(* open (README, 5.2).                                                     *)
Astray == TagsAt("sob") # {} /\ (ofs = "closed" \/ leftOpen)
RecorderView == INSTANCE Recorder
                WITH pos <- WritePos, open <- data, closed <- pdu.data, astray <- Astray
Recording == RecorderView!Spec

(* While the writer runs, what is written and what remains make one file   *)
(* of a length set_nsamples asked for, so that no file outgrows it.        *)
FileSizeBounded ==
  0 \notin NSampleChoices =>
    /\ isStarted => \E limit \in NSampleChoices :
                      nwritten + nremaining = limit /\ nwritten < limit
    /\ pdu.fname # NoName => \E limit \in NSampleChoices : pdu.samples <= limit

(* A start of manual recording is never forgotten: while no file is open,  *)
(* a start is due or a reconfiguration tag that triggers it is still       *)
(* ahead, whatever windows work() is given.                                *)
StartNotForgotten ==
  mode = "MANUAL" /\ recording /\ ~isStarted /\ pc = "idle" =>
    checkStart \/ issueStart \/ \E i \in ConfigTags : i >= nread

(* With second alignment, a manual recording starts on a second boundary   *)
(* or one sample after it, by the time the sink has then.                  *)
AlignedStart ==
  [][pc = "tagged" /\ mode = "MANUAL" /\ pc' = "start" => (fileTime' % Second) <= 1]_vars

(* When a window never holds two reconfigurations, no file spans one; a    *)
(* burst that does is ended by its tag or the program's (README, 5.2).     *)
Spaced == \A i, j \in ConfigTags : i # j => i - j >= MaxItems \/ j - i >= MaxItems
FileHasOneConfig ==
  Spaced /\ TagsAt("sob") = {} =>
    \A d \in {data, pdu.data} :
      d.len > 0 => \A i \in ConfigTags : i <= d.first \/ i >= d.next

(* Without rx_time tags and bursts, and with files of a bounded length, a  *)
(* file is stamped with the time of its first sample, the first of a       *)
(* recording and those that follow it by rollover alike, unless            *)
(* set_nsamples fell between the two reads of an opening (README, 5.2).    *)
StampedWithFirstSample ==
  TimeTags = {} /\ TagsAt("sob") = {} /\ 0 \notin NSampleChoices =>
    /\ data.len > 0 /\ ~torn => fileTime = TrueTime(data.first)
    /\ pdu.samples > 0 /\ ~pdu.torn => pdu.time = TrueTime(pdu.data.first)

(* A call of work() returns, unless a limit of 0 is set inside a write, or *)
(* a burst meets a reconfiguration (README, 5.2).                          *)
WorkReturns ==
  pc # "idle" ~> pc \in {"idle", "finished", "crashed"} \/ nsamples = 0

(* "Number of samples, where 0 will result in a single file": when the     *)
(* number of samples per file stays 0 and the recording goes on, the sink  *)
(* settles on one file.                                                    *)
(* It does not hold (README, 5.2).                                         *)
SingleFile ==
  <>[](nsamples = 0 /\ recording)
    => \E n \in NoName .. FileNumWidth - 1 : <>[](fname = n)

(* A file closed at an end-of-burst tag starts at a start-of-burst tag,    *)
(* ends with that tag and has no hole.                                     *)
BurstFile ==
  [][mode = "TRIGGERED" /\ pc = "end" /\ doStop /\ ofs = "open"
       => /\ data.first \in TagsAt("sob")
          /\ data.next - 1 \in TagsAt("eob")
          /\ data.next - data.first = data.len]_vars

(* A stream without reconfiguration has its first burst, both its tags     *)
(* included, published as one file, however the windows cut it.            *)
BurstCaptured ==
  [][LET sob == Min(TagsAt("sob"))
         eob == Min({i \in TagsAt("eob") : i >= sob})
     IN  (/\ ConfigTags = {}
          /\ TagsAt("sob") # {}
          /\ \E i \in TagsAt("eob") : i >= sob
          /\ nread <= eob /\ nread' > eob)
           => pdu'.data = [first |-> sob, next |-> eob + 1, len |-> eob + 1 - sob]]_vars

(* The invariants of the files, together: with types kept, no file outgrows *)
(* its limit, spans a reconfiguration or carries another sample's time.     *)
SinkInv == TypeOK /\ FileSizeBounded /\ FileHasOneConfig /\ StampedWithFirstSample

=============================================================================
