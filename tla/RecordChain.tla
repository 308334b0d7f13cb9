---------------------------- MODULE RecordChain -----------------------------
(***************************************************************************)
(* A file_monitor and a file_archiver behind one file_sink: both are told   *)
(* of every file, each in its own thread; the monitor removes files.        *)
(***************************************************************************)
EXTENDS FileMonitor, FileArchiver

monitorVars == <<fileVars, received, queueVars, callVars, stopCalled, blockPc, scriptPc,
                 flushVars>>
chainVars == <<monitorVars, archiverVars>>

ChainInit == Init /\ ArchiverInit

ArchiveNext == handled < announced /\ Archive(handled + 1 \in disk) /\ UNCHANGED monitorVars

\* The script that calls the monitor's setters calls the archiver's, too.
SetArchive ==
  /\ scriptPc = "idle" /\ calls < MaxCalls /\ calls' = calls + 1
  /\ set_archive
  /\ UNCHANGED <<fileVars, received, queueVars, copy, nfilesMax, stopCalled, blockPc,
                 scriptPc, flushVars>>

ChainNext ==
  \/ Next /\ UNCHANGED archiverVars
  \/ ArchiveNext
  \/ SetArchive
  \/ TakeAway /\ UNCHANGED monitorVars

\* stop() is called when the flowgraph stops, which interrupts the archiver's thread and
\* drops what waits for it: from then on nothing makes it handle a message.
ArchiveRuns == ArchiveNext /\ ~stopCalled

ChainSpec ==
  /\ ChainInit /\ [][ChainNext]_chainVars
  /\ WF_chainVars(BlockStep /\ UNCHANGED archiverVars)
  /\ WF_chainVars(ScriptStep /\ UNCHANGED archiverVars)
  /\ WF_chainVars(FlushStep /\ UNCHANGED archiverVars)
  /\ WF_chainVars(ArchiveRuns)

(***************************************************************************)
(* Properties.                                                              *)
(***************************************************************************)
\* "save files to an alternate location using a uniquely generated name": a copy is
\* written over only if a copy of its name had been taken away, which frees a number.
CopyKept ==
  [][\A c \in copies : c \in copies' \/ c.name \in cleaned']_chainVars

\* The archiver misses only files that the monitor no longer keeps: one that is no
\* further behind than the monitor's limit misses none.
MissedWereRemoved ==
  \A f \in missed : f <= received - Len(fileQueue)

\* A file that is to be archived is, unless the monitor removes it before or the
\* flowgraph stops.
ArchivedOrRemoved ==
  \A f \in Files :
    (f \in disk /\ f > handled /\ archive) ~>
      (\/ f \in {c.file : c \in copies} \/ NameOf[f] \in cleaned
       \/ f \notin disk \/ ~archive \/ stopCalled)

\* Every thread gets its work done: stop() joins the flusher and returns, copying
\* drains the queue, and the archiver handles what it is sent while the graph runs.
ThreadsFinish == StopReturns /\ CopyDrains /\ ArchivedOrRemoved
=============================================================================
