----------------------------- MODULE FileMonitor ----------------------------
(***************************************************************************)
(* The file_monitor block (python/sandia_utils/file_monitor.py): it keeps  *)
(* the newest files a file sink announces, removes the others, and copies  *)
(* files elsewhere while it is told to.                                    *)
(*                                                                         *)
(* Three threads share it: the block's own thread handles messages and     *)
(* runs stop(), a script calls the setters, the flusher copies.  A step is *)
(* what a thread does between two points where another one may see or      *)
(* change shared state; what it does with the mutex held is one step,      *)
(* unless stop(), which takes no mutex, can interleave with it.            *)
(*                                                                         *)
(* A file is the number of the update that announces it: names are not     *)
(* used again while the monitor keeps them.                                *)
(***************************************************************************)
EXTENDS Integers, Sequences

CONSTANTS
  MaxFiles,       (* Number of files the sink writes.                      *)
  NFilesChoices,  (* Values of nfiles_max.                                 *)
  Calls,          (* The setters that are called while the block runs.     *)
  MaxCalls        (* Bound: number of calls the script makes.              *)

CallNames == {"copy_on", "copy_off", "set_nfiles"}

ASSUME MonitorAssumption ==
  /\ MaxFiles \in Nat
  /\ NFilesChoices \subseteq Nat \ {0}
  /\ Calls \subseteq CallNames
  /\ MaxCalls \in Nat

VARIABLES
  announced,    (* How many files the sink has written and announced.      *)
  received,     (* How many of these updates were handled.                 *)
  disk,         (* The files where the sink wrote them.                    *)
  output,       (* The files in output_path.                               *)
  copy,         (* self.copy                                               *)
  nfilesMax,    (* self.nfiles_max                                         *)
  fileQueue,    (* self.file_queue                                         *)
  copyQueue,    (* self.copy_queue                                         *)
  stopCalled,   (* self.stop_signal_called                                 *)
  calls,        (* How many calls the script made.                         *)
  blockPc,      (* where the block's thread is                             *)
  scriptPc,     (* where the script's thread is                            *)
  flushPc,      (* where the flusher is                                    *)
  flushing      (* fname of flush(): the file being copied, or 0           *)

queueVars == << fileQueue, copyQueue >>
fileVars == << announced, disk, output >>
callVars == << copy, nfilesMax, calls >>
flushVars == << flushPc, flushing >>
vars == << fileVars, received, queueVars, callVars, stopCalled, blockPc, scriptPc,
           flushVars >>

Files == 1 .. MaxFiles

TypeOK ==
  /\ announced \in 0 .. MaxFiles
  /\ received \in 0 .. announced
  /\ disk \subseteq Files
  /\ output \subseteq Files
  /\ copy \in BOOLEAN
  /\ nfilesMax \in NFilesChoices
  /\ fileQueue \in Seq(Files)
  /\ copyQueue \in Seq(Files)
  /\ stopCalled \in BOOLEAN
  /\ calls \in 0 .. MaxCalls
  /\ blockPc \in {"running", "join", "clear", "clear_pop", "stopped", "raised"}
  /\ scriptPc \in {"idle", "copy_on", "copy_off", "lock", "trim", "trim_pop", "raised"}
  /\ flushPc \in {"loop", "pop", "copy", "ended", "raised"}
  /\ flushing \in IF flushPc = "copy" THEN Files ELSE {0}

Init ==
  /\ announced = 0
  /\ received = 0
  /\ disk = {}
  /\ output = {}
  /\ copy \in BOOLEAN
  /\ nfilesMax \in NFilesChoices
  /\ fileQueue = << >>
  /\ copyQueue = << >>
  /\ stopCalled = FALSE
  /\ calls = 0
  /\ blockPc = "running"
  /\ scriptPc = "idle"
  /\ flushPc = "loop"
  /\ flushing = 0

(* set_nfiles holds the mutex while it removes files.                      *)
MutexFree == scriptPc \notin {"trim", "trim_pop"}

-----------------------------------------------------------------------------
(* The file sink writes a file, closes it and announces it.                *)
Announce ==
  /\ announced < MaxFiles
  /\ announced' = announced + 1
  /\ disk' = disk \cup {announced + 1}
  /\ UNCHANGED << output, received, queueVars, callVars, stopCalled, blockPc,
                  scriptPc, flushVars >>

-----------------------------------------------------------------------------
(* The block's thread.                                                     *)

(* More files than may be kept; mutant: one more than that.                *)
ExcessLate(queue) == Len(queue) > nfilesMax + 1
Excess(queue) == Len(queue) > nfilesMax

(* What stays when one file goes: the oldest goes; mutant: the newest is   *)
(* dropped from the queue.                                                 *)
LeftNewest(queue) == SubSeq(queue, 1, Len(queue) - 1)
Left(queue) == Tail(queue)

(* popleft() and delete(), of a queue that is not empty.  The flusher can  *)
(* copy the file between the two: that is as if it had copied it before.   *)
(* Mutant: the newest file is deleted.                                     *)
RemoveNewest(queue) ==
  /\ fileQueue' = Left(queue)
  /\ disk' = disk \ {queue[Len(queue)]}
RemoveOldest(queue) ==
  /\ fileQueue' = Left(queue)
  /\ disk' = disk \ {Head(queue)}

(* handler()                                                               *)
Handler ==
  LET fname == received + 1
      queue == Append(fileQueue, fname)
  IN
    /\ blockPc = "running"
    /\ MutexFree
    /\ received < announced
    /\ received' = received + 1
    /\ copyQueue' = IF copy THEN Append(copyQueue, fname) ELSE copyQueue
    /\ IF Excess(queue) THEN RemoveOldest(queue)
                        ELSE fileQueue' = queue /\ UNCHANGED disk
    /\ UNCHANGED << announced, output, callVars, stopCalled, blockPc, scriptPc,
                    flushVars >>

(* stop(): the flusher is signaled and joined, then what is left is        *)
(* removed, without the mutex.                                             *)
Stop ==
  /\ blockPc = "running"
  /\ stopCalled' = TRUE
  /\ blockPc' = "join"
  /\ UNCHANGED << fileVars, received, queueVars, callVars, scriptPc, flushVars >>

StopJoin ==
  /\ blockPc = "join"
  /\ flushPc \in {"ended", "raised"}
  /\ blockPc' = "clear"
  /\ UNCHANGED << fileVars, received, queueVars, callVars, stopCalled, scriptPc,
                  flushVars >>

(* Is there a file left?  Mutant: the last one is overlooked.              *)
NoneLeftButOne == Len(fileQueue) <= 1
NoneLeft == fileQueue = << >>

StopClear ==
  /\ blockPc = "clear"
  /\ blockPc' = IF NoneLeft THEN "stopped" ELSE "clear_pop"
  /\ UNCHANGED << fileVars, received, queueVars, callVars, stopCalled, scriptPc,
                  flushVars >>

(* set_nfiles may have taken the last file meanwhile.                      *)
StopRemove ==
  /\ blockPc = "clear_pop"
  /\ IF fileQueue = << >>
     THEN blockPc' = "raised" /\ UNCHANGED << fileQueue, disk >>
     ELSE blockPc' = "clear" /\ RemoveOldest(fileQueue)
  /\ UNCHANGED << announced, output, received, copyQueue, callVars, stopCalled,
                  scriptPc, flushVars >>

-----------------------------------------------------------------------------
(* The script's thread; it is lost to an exception that a setter raises.   *)

Call(name) ==
  /\ scriptPc = "idle"
  /\ name \in Calls
  /\ calls < MaxCalls
  /\ calls' = calls + 1
  /\ UNCHANGED << fileVars, received, queueVars, stopCalled, blockPc, flushVars >>

(* set_copy: the flag, then the queue under the mutex.                     *)
SetCopyOn ==
  /\ ~copy
  /\ Call("copy_on")
  /\ copy' = TRUE
  /\ scriptPc' = "copy_on"
  /\ UNCHANGED nfilesMax

SetCopyOff ==
  /\ copy
  /\ Call("copy_off")
  /\ copy' = FALSE
  /\ scriptPc' = "copy_off"
  /\ UNCHANGED nfilesMax

(* What is copied first; mutant: only the files of updates to come.        *)
CurrentDataNone == copyQueue
CurrentData == fileQueue

(* The debug message that follows is passed two arguments, one more than   *)
(* the logger takes: the call raises with its work done, and the script    *)
(* catches the exception or is lost to it.                                 *)
CopyOn ==
  /\ scriptPc = "copy_on"
  /\ copyQueue' = CurrentData
  /\ scriptPc' \in {"idle", "raised"}
  /\ UNCHANGED << fileVars, received, fileQueue, callVars, stopCalled, blockPc,
                  flushVars >>

(* stop() takes a file while deepcopy iterates over the queue.             *)
CopyOnRaises ==
  /\ scriptPc = "copy_on"
  /\ blockPc = "clear_pop"
  /\ fileQueue # << >>
  /\ scriptPc' = "raised"
  /\ UNCHANGED << fileVars, received, queueVars, callVars, stopCalled, blockPc,
                  flushVars >>

CopyOff ==
  /\ scriptPc = "copy_off"
  /\ copyQueue' = << >>
  /\ scriptPc' = "idle"
  /\ UNCHANGED << fileVars, received, fileQueue, callVars, stopCalled, blockPc,
                  flushVars >>

(* set_nfiles: the limit, then the queue under the mutex.                  *)
SetNfiles(n) ==
  /\ Call("set_nfiles")
  /\ nfilesMax' = n
  /\ scriptPc' = "lock"
  /\ UNCHANGED copy

Lock ==
  /\ scriptPc = "lock"
  /\ scriptPc' = "trim"
  /\ UNCHANGED << fileVars, received, queueVars, callVars, stopCalled, blockPc,
                  flushVars >>

Trim ==
  /\ scriptPc = "trim"
  /\ scriptPc' = IF Excess(fileQueue) THEN "trim_pop" ELSE "idle"
  /\ UNCHANGED << fileVars, received, queueVars, callVars, stopCalled, blockPc,
                  flushVars >>

(* stop() may have taken the files meanwhile.                              *)
TrimRemove ==
  /\ scriptPc = "trim_pop"
  /\ IF fileQueue = << >>
     THEN scriptPc' = "raised" /\ UNCHANGED << fileQueue, disk >>
     ELSE scriptPc' = "trim" /\ RemoveOldest(fileQueue)
  /\ UNCHANGED << announced, output, received, copyQueue, callVars, stopCalled,
                  blockPc, flushVars >>

-----------------------------------------------------------------------------
(* The flusher, flush(): it sleeps when there is nothing to copy.          *)

(* stop() was called; mutant: the flusher copies what is queued first, and *)
(* waits for more.                                                         *)
MayEndDrained == stopCalled /\ copyQueue = << >> /\ copy
MayEnd == stopCalled

FlushEnd ==
  /\ flushPc = "loop"
  /\ MayEnd
  /\ flushPc' = "ended"
  /\ UNCHANGED << fileVars, received, queueVars, callVars, stopCalled, blockPc,
                  scriptPc, flushing >>

(* There is something to copy; mutant: it waits for a second file.         *)
SomeToCopyTwo == Len(copyQueue) > 1
SomeToCopy == copyQueue # << >>

FlushCheck ==
  /\ flushPc = "loop"
  /\ ~stopCalled
  /\ copy
  /\ SomeToCopy
  /\ flushPc' = "pop"
  /\ UNCHANGED << fileVars, received, queueVars, callVars, stopCalled, blockPc,
                  scriptPc, flushing >>

(* set_copy(False) may have cleared the queue meanwhile.  Mutant: the      *)
(* flusher goes on with a file that is none.                               *)
FlushPopBlind ==
  /\ flushPc = "pop"
  /\ MutexFree
  /\ flushPc' = "copy"
  /\ IF copyQueue = << >>
     THEN UNCHANGED << copyQueue, flushing >>
     ELSE flushing' = Head(copyQueue) /\ copyQueue' = Tail(copyQueue)
  /\ UNCHANGED << fileVars, received, fileQueue, callVars, stopCalled, blockPc,
                  scriptPc >>

FlushPop ==
  /\ flushPc = "pop"
  /\ MutexFree
  /\ IF copyQueue = << >>
     THEN flushPc' = "raised" /\ UNCHANGED << copyQueue, flushing >>
     ELSE /\ flushPc' = "copy"
          /\ flushing' = Head(copyQueue)
          /\ copyQueue' = Tail(copyQueue)
  /\ UNCHANGED << fileVars, received, fileQueue, callVars, stopCalled, blockPc,
                  scriptPc >>

(* A file that was removed meanwhile is not copied; the error is logged.   *)
FlushCopy ==
  /\ flushPc = "copy"
  /\ output' = IF flushing \in disk THEN output \cup {flushing} ELSE output
  /\ flushing' = 0
  /\ flushPc' = "loop"
  /\ UNCHANGED << announced, disk, received, queueVars, callVars, stopCalled, blockPc,
                  scriptPc >>

-----------------------------------------------------------------------------
BlockStep == Handler \/ StopJoin \/ StopClear \/ StopRemove
ScriptStep == CopyOn \/ CopyOnRaises \/ CopyOff \/ Lock \/ Trim \/ TrimRemove
FlushStep == FlushEnd \/ FlushCheck \/ FlushPop \/ FlushCopy

Next ==
  \/ Announce
  \/ BlockStep
  \/ Stop
  \/ SetCopyOn
  \/ SetCopyOff
  \/ \E n \in NFilesChoices : SetNfiles(n)
  \/ ScriptStep
  \/ FlushStep

Spec == Init /\ [][Next]_vars

(* A thread that can go on does.  The script calls a finite number of      *)
(* times, so that a thread that waits for the mutex finds it free for good.*)
FairSpec ==
  /\ Spec
  /\ WF_vars(BlockStep)
  /\ WF_vars(ScriptStep)
  /\ WF_vars(FlushStep)

-----------------------------------------------------------------------------
(* The properties.                                                         *)

Members(queue) == {queue[i] : i \in 1 .. Len(queue)}

(* Between two calls of the setters the monitor keeps no more files than   *)
(* the limit, however set_nfiles, whose limit and removals are two steps,  *)
(* and the handler, which removes one file for each it adds, interleave.   *)
RetentionBound == scriptPc = "idle" => Len(fileQueue) <= nfilesMax

(* While the block runs it keeps the newest files it was told of, with     *)
(* none missing between them, and each is still where the sink wrote it.   *)
RetainsNewest ==
  blockPc = "running" =>
    LET n == Len(fileQueue) IN
    /\ fileQueue = [i \in 1 .. n |-> received - n + i]
    /\ Members(fileQueue) \subseteq disk

(* "clear left over files ... those that have been published and received":*)
(* when stop() is over, by its return or by the exception it may raise,    *)
(* no file that was received is left where the sink wrote it, unless       *)
(* set_nfiles is still removing it.                                        *)
StoppedClean ==
  blockPc \in {"stopped", "raised"} /\ MutexFree => disk \cap 1 .. received = {}

(* While copying is on, every file the monitor keeps was copied, is being  *)
(* copied or waits to be, those it had when copying was turned on and      *)
(* those that came while the call was between the flag and the queue.      *)
CopyNotForgotten ==
  blockPc = "running" /\ copy /\ scriptPc # "copy_on" =>
    Members(fileQueue) \subseteq Members(copyQueue) \cup {flushing} \cup output

(* stop() ends: the flusher hears of it wherever it is, though it may wait *)
(* for the mutex that set_nfiles holds.                                    *)
StopReturns == stopCalled ~> blockPc \in {"stopped", "raised"}

(* What waits to be copied is taken by the flusher or given up by          *)
(* set_copy(False), unless stop() is called, or the flusher has died of    *)
(* the exception of FlushPop.                                              *)
CopyDrains ==
  copyQueue # << >> ~> (copyQueue = << >> \/ stopCalled \/ flushPc = "raised")

(* "At any point, the block can be signaled to copy the current monitored  *)
(* data": a file that is kept while copying is on is copied, unless it is  *)
(* removed, copying is turned off, or the block stops.                     *)
CopyHeeded ==
  \A f \in Files :
    (copy /\ f \in Members(fileQueue)) ~>
      (f \in output \/ f \notin Members(fileQueue) \/ ~copy \/ stopCalled)

=============================================================================
