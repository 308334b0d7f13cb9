----------------------------- MODULE FileSource -----------------------------
(***************************************************************************)
(* The file_source block (lib/file_source_impl.{h,cc}) with its reader     *)
(* (lib/file_source/file_reader_base.*, file_reader_raw_header.cc): files  *)
(* that messages and scripts ask for are queued, or opened at once, and    *)
(* their items become the output stream.                                   *)
(*                                                                         *)
(* work() and open() hold d_setlock; messages are handled by the thread    *)
(* that runs work().  close() and seek() hold no lock, and may fall        *)
(* between any two steps of work().                                        *)
(*                                                                         *)
(* A file is the number of the open() that asks for it.                    *)
(***************************************************************************)
EXTENDS Integers, Sequences, FiniteSets

CONSTANTS
  MaxOpens,      (* Bound: number of calls of open().                      *)
  LengthChoices, (* Numbers of items a file may have.                      *)
  DepthChoices,  (* Values of d_file_queue_depth.                          *)
  MaxItems,      (* Largest noutput_items of a call.                       *)
  MaxInt,        (* Largest int, in items: d_file_size is one.             *)
  MaxLong,       (* Bound: number of files longer than MaxInt.             *)
  MayVanish,     (* A file may be gone when it is opened.                  *)
  Calls          (* The other methods that are called.                     *)

ASSUME SourceAssumption ==
  /\ MaxOpens \in Nat
  /\ LengthChoices \subseteq Nat
  /\ DepthChoices \subseteq Nat
  /\ MaxItems \in Nat \ {0}
  /\ MaxInt \in Nat \ {0}
  /\ MaxLong \in Nat
  /\ MayVanish \in BOOLEAN
  /\ Calls \subseteq {"close", "seek", "add_file_tags", "set_file_queue_depth"}

VARIABLES
  lens,        (* the lengths of the files asked for                       *)
  dropped,     (* the files that were cleared from the queue               *)
  tagAsked,    (* the files asked for while d_tag_on_open was set, or      *)
               (* opened at once                                           *)
  disturbed,   (* close() or seek() was called                             *)
  forceNew,    (* d_force_new                                              *)
  repeat,      (* d_repeat                                                 *)
  firstPass,   (* d_first_pass                                             *)
  tagOnOpen,   (* d_tag_on_open                                            *)
  tagNow,      (* d_tag_now                                                *)
  queue,       (* d_file_queue                                             *)
  depth,       (* d_file_queue_depth                                       *)
  isOpen,      (* the reader's d_is_open, and d_fp is not NULL             *)
  file,        (* the file the reader has or had open last, or NoFile      *)
  pos,         (* where d_fp is, in items                                  *)
  pc,          (* where work() is                                          *)
  noutput,     (* noutput_items                                            *)
  size,        (* local of work(): items still to be produced              *)
  got,         (* local of work(): nread                                   *)
  carry,       (* the files whose tags ride on the next item               *)
  out          (* the items produced last: their file, first and next item,*)
               (* and the files whose tags rode on the first               *)

historyVars == << lens, dropped, tagAsked, disturbed >>
settingVars == << forceNew, repeat, firstPass, tagOnOpen, depth >>
readerVars == << isOpen, file, pos >>
callVars == << pc, noutput, size, got >>
outputVars == << carry, out >>
vars == << historyVars, settingVars, tagNow, queue, readerVars, callVars, outputVars >>

NoFile == 0
Requested == 1 .. Len(lens)
Length(f) == lens[f]

(* d_file_size: the length, as far as an int holds it.                     *)
FileSize(f) == ((Length(f) + MaxInt + 1) % (2 * (MaxInt + 1))) - (MaxInt + 1)

TypeOK ==
  /\ lens \in Seq(LengthChoices)
  /\ dropped \subseteq Requested
  /\ tagAsked \subseteq Requested
  /\ {disturbed, forceNew, repeat, firstPass, tagOnOpen, tagNow, isOpen} \subseteq BOOLEAN
  /\ queue \in Seq([file : Requested, tags : BOOLEAN])
  /\ depth \in DepthChoices
  /\ file \in Requested \cup {NoFile}
  /\ isOpen => file # NoFile /\ pos \in 0 .. Length(file)
  /\ pc \in {"idle", "loop", "check", "zero", "end", "done", "raised", "crashed"}
  /\ noutput \in 0 .. MaxItems
  /\ size \in 0 .. noutput
  /\ got \in 0 .. noutput
  /\ carry \subseteq Requested

Init ==
  /\ lens = << >>
  /\ dropped = {}
  /\ tagAsked = {}
  /\ disturbed = FALSE
  /\ forceNew \in BOOLEAN
  /\ repeat \in BOOLEAN
  /\ firstPass = TRUE
  /\ tagOnOpen = FALSE
  /\ tagNow = FALSE
  /\ queue = << >>
  /\ depth \in DepthChoices
  /\ isOpen = FALSE
  /\ file = NoFile
  /\ pos = 0
  /\ pc = "idle"
  /\ noutput = 0
  /\ size = 0
  /\ got = 0
  /\ carry = {}
  /\ out = [file |-> NoFile, first |-> 0, next |-> 0, tags |-> {}]

-----------------------------------------------------------------------------
(* open_next(), on a queue.                                                *)

(* The entry that is opened next, and what is left of the queue; mutant:   *)
(* the entry that was queued last.                                         *)
NextEntryNewest(q) == q[Len(q)]
NextEntry(q) == Head(q)

(* Nothing to open, or a file is open.                                     *)
KeepReader(q) ==
  /\ isOpen \/ q = << >>
  /\ queue' = q
  /\ UNCHANGED << readerVars, tagNow >>

(* The reader is closed: the first file is opened.                         *)
OpenFirst(q) ==
  /\ q # << >>
  /\ isOpen' = TRUE
  /\ file' = NextEntry(q).file
  /\ pos' = 0
  /\ tagNow' = NextEntry(q).tags
  /\ queue' = Tail(q)

(* The open throws before the entry is taken off.                          *)
OpenFirstFails(q) ==
  /\ MayVanish
  /\ q # << >>
  /\ queue' = q
  /\ isOpen' = FALSE
  /\ UNCHANGED << file, pos, tagNow >>

-----------------------------------------------------------------------------
(* open(), which the constructor, a message or a script calls.             *)

NewFile == Len(lens) + 1
LongFiles == {f \in Requested : Length(f) > MaxInt}
Full == Len(queue) >= depth

(* Tags for a file that is queued; mutant: those of the first file only.   *)
EntryTagsFirst == firstPass
EntryTags == firstPass \/ tagNow \/ tagOnOpen

Queued ==
  IF Full THEN << [file |-> NewFile, tags |-> TRUE] >>
          ELSE Append(queue, [file |-> NewFile, tags |-> EntryTags])

Ask(length, again) ==
  /\ pc = "idle"
  /\ Len(lens) < MaxOpens
  /\ length > MaxInt => Cardinality(LongFiles) < MaxLong
  /\ lens' = Append(lens, length)
  /\ repeat' = again
  /\ UNCHANGED << disturbed, forceNew, tagOnOpen, depth, noutput, size, got,
                  outputVars >>

(* An exception ends the block's thread, which handles messages, but not a *)
(* script's.                                                               *)
Raised(by) == pc' = IF by = "message" THEN "raised" ELSE pc

OpenForced(length, again) ==
  /\ forceNew
  /\ Ask(length, again)
  /\ isOpen' = TRUE
  /\ file' = NewFile
  /\ pos' = 0
  /\ tagNow' = TRUE
  /\ tagAsked' = tagAsked \cup {NewFile}
  /\ UNCHANGED << dropped, firstPass, queue, pc >>

OpenForcedFails(length, again, by) ==
  /\ forceNew
  /\ MayVanish
  /\ Ask(length, again)
  /\ isOpen' = FALSE
  /\ Raised(by)
  /\ UNCHANGED << dropped, tagAsked, firstPass, queue, tagNow, file, pos >>

Enqueue(length, again) ==
  /\ ~forceNew
  /\ Ask(length, again)
  /\ dropped' = IF Full THEN dropped \cup {queue[i].file : i \in 1 .. Len(queue)}
                        ELSE dropped
  /\ tagAsked' = IF tagOnOpen THEN tagAsked \cup {NewFile} ELSE tagAsked
  /\ firstPass' = (firstPass /\ Full)

Open(length, again) ==
  /\ Enqueue(length, again)
  /\ KeepReader(Queued) \/ (~isOpen /\ OpenFirst(Queued))
  /\ UNCHANGED pc

OpenFails(length, again, by) ==
  /\ Enqueue(length, again)
  /\ ~isOpen
  /\ OpenFirstFails(Queued)
  /\ Raised(by)

-----------------------------------------------------------------------------
(* The methods that hold no lock, until the block is done.  Bound: one     *)
(* call of close() or seek().                                              *)

Alive == pc \notin {"done", "raised", "crashed"}

Close ==
  /\ "close" \in Calls
  /\ Alive
  /\ ~disturbed
  /\ isOpen
  /\ isOpen' = FALSE
  /\ disturbed' = TRUE
  /\ UNCHANGED << lens, dropped, tagAsked, settingVars, tagNow, queue, file, pos,
                  callVars, outputVars >>

Seek(p) ==
  /\ "seek" \in Calls
  /\ Alive
  /\ ~disturbed
  /\ isOpen
  /\ p <= Length(file)
  /\ pos' = p
  /\ disturbed' = TRUE
  /\ UNCHANGED << lens, dropped, tagAsked, settingVars, tagNow, queue, isOpen, file,
                  callVars, outputVars >>

AddFileTags(b) ==
  /\ "add_file_tags" \in Calls
  /\ Alive
  /\ tagOnOpen' = b
  /\ UNCHANGED << historyVars, forceNew, repeat, firstPass, depth, tagNow, queue,
                  readerVars, callVars, outputVars >>

SetFileQueueDepth(d) ==
  /\ "set_file_queue_depth" \in Calls
  /\ Alive
  /\ depth' = d
  /\ UNCHANGED << historyVars, forceNew, repeat, firstPass, tagOnOpen, tagNow, queue,
                  readerVars, callVars, outputVars >>

-----------------------------------------------------------------------------
(* work().  Without an open file it returns at once, and nothing changes.  *)

WorkBegin(n) ==
  /\ pc = "idle"
  /\ isOpen
  /\ noutput' = n
  /\ size' = n
  /\ got' = 0
  /\ pc' = "loop"
  /\ UNCHANGED << historyVars, settingVars, tagNow, queue, readerVars, outputVars >>

(* Tags are sent once; mutant: d_tag_now is not reset.                     *)
TagNowKept == tagNow
TagNowReset == FALSE

(* What the reader has for this turn; mutant: it does not mind the end of  *)
(* the file.                                                               *)
AvailableUnbounded == IF isOpen THEN size ELSE 0
Available ==
  IF ~isOpen THEN 0
  ELSE IF size < Length(file) - pos THEN size ELSE Length(file) - pos

(* A turn of the loop: the tags that are due ride on the next item.        *)
Read ==
  LET k   == Available
      due == IF tagNow THEN carry \cup {file} ELSE carry
  IN
    /\ pc = "loop"
    /\ tagNow' = TagNowReset
    /\ got' = k
    /\ size' = size - k
    /\ pos' = pos + k
    /\ IF k = 0
       THEN carry' = due /\ UNCHANGED out
       ELSE /\ out' = [file |-> file, first |-> pos, next |-> pos + k, tags |-> due]
            /\ carry' = {}
    /\ pc' = "check"
    /\ UNCHANGED << historyVars, settingVars, queue, isOpen, file, noutput >>

(* nread is not used after this.                                           *)
Check ==
  /\ pc = "check"
  /\ pc' = IF size = 0 THEN "end" ELSE IF got > 0 /\ isOpen THEN "loop" ELSE "zero"
  /\ got' = 0
  /\ UNCHANGED << historyVars, settingVars, tagNow, queue, readerVars, noutput, size,
                  outputVars >>

(* Where the file is played from again; mutant: it is not taken back.      *)
RewoundNot == pos
Rewound == 0

Rewind ==
  /\ pc = "zero"
  /\ repeat
  /\ pos' = IF isOpen THEN Rewound ELSE pos
  /\ pc' = "loop"
  /\ UNCHANGED << historyVars, settingVars, tagNow, queue, isOpen, file, noutput, size,
                  got, outputVars >>

AtEnd == pc = "zero" /\ ~repeat /\ isOpen /\ pos = FileSize(file)

(* The file is closed, and the next one opened, if there is one.           *)
LastFile ==
  /\ AtEnd
  /\ queue = << >>
  /\ isOpen' = FALSE
  /\ pc' = "end"
  /\ UNCHANGED << historyVars, settingVars, tagNow, queue, file, pos, noutput, size,
                  got, outputVars >>

NextFile ==
  /\ AtEnd
  /\ OpenFirst(queue)
  /\ pc' = "end"
  /\ UNCHANGED << historyVars, settingVars, noutput, size, got, outputVars >>

NextFileFails ==
  /\ AtEnd
  /\ OpenFirstFails(queue)
  /\ pc' = "raised"
  /\ UNCHANGED << historyVars, settingVars, noutput, size, got, outputVars >>

(* seek() took the file back from its end, or the file is longer than an   *)
(* int says: the call ends short.                                          *)
Short ==
  /\ pc = "zero"
  /\ ~repeat
  /\ isOpen
  /\ pos # FileSize(file)
  /\ pc' = "end"
  /\ UNCHANGED << historyVars, settingVars, tagNow, queue, readerVars, noutput, size,
                  got, outputVars >>

(* close() came first: eof() asks for the position in no file.             *)
EofCrash ==
  /\ pc = "zero"
  /\ ~repeat
  /\ ~isOpen
  /\ pc' = "crashed"
  /\ UNCHANGED << historyVars, settingVars, tagNow, queue, readerVars, noutput, size,
                  got, outputVars >>

(* A call that produced nothing says that the source is done.              *)
WorkEnd ==
  /\ pc = "end"
  /\ pc' = IF size = noutput THEN "done" ELSE "idle"
  /\ noutput' = 0
  /\ size' = 0
  /\ got' = 0
  /\ UNCHANGED << historyVars, settingVars, tagNow, queue, readerVars, outputVars >>

-----------------------------------------------------------------------------
WorkStep ==
  \/ Read
  \/ Check
  \/ Rewind
  \/ LastFile
  \/ NextFile
  \/ NextFileFails
  \/ Short
  \/ EofCrash
  \/ WorkEnd

Request ==
  \E length \in LengthChoices, again \in BOOLEAN :
    \/ OpenForced(length, again)
    \/ Open(length, again)
    \/ \E by \in {"message", "script"} :
         OpenForcedFails(length, again, by) \/ OpenFails(length, again, by)

ControlCall ==
  \/ Close
  \/ \E length \in LengthChoices : \E p \in 0 .. length : Seek(p)
  \/ \E b \in BOOLEAN : AddFileTags(b)
  \/ \E d \in DepthChoices : SetFileQueueDepth(d)

Next ==
  \/ Request
  \/ ControlCall
  \/ \E n \in 1 .. MaxItems : WorkBegin(n)
  \/ WorkStep

Spec == Init /\ [][Next]_vars

(* A call of work() that has begun keeps running.                          *)
FairSpec == Spec /\ WF_vars(WorkStep)

-----------------------------------------------------------------------------
(* Properties.                                                             *)

(* As long as close() and seek() are not called, the output is the files   *)
(* in the order they were asked for, each from its first item to its last  *)
(* without a gap before the next one starts, unless new files are forced;  *)
(* a file is left out only if it was cleared from a full queue, or empty;  *)
(* and a file is played again only in repeat mode, when it was played out. *)
PlayedInOrder ==
  [][out' # out /\ ~disturbed =>
       \/ out'.file = out.file /\ out'.first = out.next
       \/ out'.file = out.file /\ out'.first = 0 /\ out.next = Length(out.file) /\ repeat
       \/ /\ out'.file > out.file
          /\ out'.first = 0
          /\ \/ forceNew
             \/ /\ out.file # NoFile => out.next = Length(out.file)
                /\ \A f \in out.file + 1 .. out'.file - 1 :
                     f \in dropped \/ Length(f) = 0]_vars

(* Tags ride on the first item of the file they belong to: not on a later  *)
(* one, not on another file's, however calls and opens cut the stream.     *)
TagsOnFirstItem ==
  ~disturbed /\ out.tags # {} => out.tags = {out.file} /\ out.first = 0

(* "Adding file tags will cause the stream tags ... to be added to the     *)
(* output stream at the first sample of the file": every file asked for    *)
(* then, once it is played, was tagged.                                    *)
TagsOnEveryFile ==
  [][out' # out /\ ~disturbed /\ out'.file # out.file /\ out'.file \in tagAsked
       => out'.tags = {out'.file}]_vars

(* A call of work() returns, or ends with the source; but not when an      *)
(* empty or closed file is played in repeat mode, with d_setlock held.     *)
WorkReturns ==
  pc = "loop" ~> \/ pc \in {"idle", "done", "raised", "crashed"}
                 \/ repeat /\ (~isOpen \/ Length(file) = 0)
                 \/ disturbed

(* "If !d_force_new, file is added to the queue for later playing": the    *)
(* source is not done while a file is queued or open.                      *)
(* It does not hold (README, 5.2).                                         *)
DoneWhenPlayed == pc = "done" => queue = << >> /\ ~isOpen

(* Tags are where they belong, and all of them are: on the first item of    *)
(* their file, on every file they were asked for.                           *)
TagsInPlace == [](TypeOK /\ TagsOnFirstItem) /\ TagsOnEveryFile

=============================================================================
