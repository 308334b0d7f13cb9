----------------------------- MODULE FileWriter -----------------------------
(***************************************************************************)
(* The file writer behind the file_sink block: file_writer_base and its    *)
(* raw backend (lib/file_sink/file_writer_base.{h,cc}, file_writer_raw.cc).*)
(*                                                                         *)
(* Each operator below is what one method call does to the writer, or one  *)
(* of its steps; the sink (module FileSink) calls them from its actions.   *)
(* set_nsamples takes a mutex that start() and write() do not, and sets    *)
(* d_nsamples before d_T; start() reads d_T first, write() d_nsamples, so  *)
(* each of the three is two steps.                                         *)
(*                                                                         *)
(* Samples are the absolute indices of the input stream.  Time is counted  *)
(* in sample periods.  The pair (sample rate, center frequency) is one     *)
(* configuration identifier, cfg.                                          *)
(***************************************************************************)
EXTENDS Integers

CONSTANTS
  FileNumWidth,     (* d_file_num is a uint64_t: it wraps at this value.   *)
  NSampleChoices,   (* Values d_nsamples may take: 0 is "one single file". *)
  RolloverChoices,  (* Values d_file_num_rollover may take.                *)
  Uninitialized     (* What the uninitialized d_nremaining may hold.       *)

ASSUME WriterAssumption ==
  /\ FileNumWidth \in Nat \ {0}
  /\ NSampleChoices \subseteq Nat /\ NSampleChoices # {}
  /\ RolloverChoices \subseteq Int /\ RolloverChoices # {}
  /\ Uninitialized \subseteq Nat /\ Uninitialized # {}

VARIABLES
  isStarted,     (* d_is_started                                           *)
  ofs,           (* the std::ofstream: see OfsStates                       *)
  data,          (* the samples in the file behind ofs: see NoData         *)
  fname,         (* d_filename: the number it was built from, or NoName    *)
  nameCfg,       (* the configuration substituted in d_name_spec           *)
  nsamples,      (* d_nsamples                                             *)
  period,        (* d_T                                                    *)
  nremaining,    (* d_nremaining                                           *)
  nwritten,      (* d_nwritten                                             *)
  fileNum,       (* d_file_num                                             *)
  rollover,      (* d_file_num_rollover                                    *)
  cfg,           (* d_rate and d_freq                                      *)
  fileTime,      (* d_samp_time                                            *)
  fileTimeNext,  (* d_samp_time_next                                       *)
  pdu,           (* the last update published through d_callback           *)
  torn,          (* history: since the writer was started, set_nsamples    *)
                 (* fell between the two reads of an opening               *)
  leftOpen       (* history: a change of mode left the file open           *)

writerVars == << isStarted, ofs, data, fname, nameCfg, nsamples, period, nremaining,
                 nwritten, fileNum, rollover, cfg, fileTime, fileTimeNext, pdu,
                 torn, leftOpen >>

(* What opening, writing and closing change.                               *)
fileVars == << isStarted, ofs, data, fname, nameCfg, nremaining, nwritten,
               fileNum, fileTime, fileTimeNext, pdu, torn, leftOpen >>

(* What the setters change.                                                *)
paramVars == << nsamples, period, rollover, cfg >>

(* "failed": still open, failbit set by an open() of an open stream, every *)
(* write is dropped until the stream is closed and opened again.           *)
OfsStates == {"closed", "open", "failed"}

(* first: the first sample in the file; next: the one after the last;      *)
(* len: how many there are.  Samples are missing when len < next - first.  *)
NoData == [first |-> 0, next |-> 0, len |-> 0]
FileData == [first : Nat, next : Nat, len : Nat]

NoName == -1
InitialCfg == -1
UserCfg == -2

(* An update, and what was closed before it: what the file held, whether   *)
(* there was one, and whether it may be stamped wrongly.                   *)
NoPdu == [fname |-> NoName, time |-> 0, nameCfg |-> InitialCfg,
          cfg |-> InitialCfg, samples |-> 0, data |-> NoData,
          ofs |-> "closed", torn |-> FALSE]

Pdus == [fname : Int, time : Int, nameCfg : Int, cfg : Int, samples : Nat,
         data : FileData, ofs : OfsStates, torn : BOOLEAN]

WriterTypeOK ==
  /\ isStarted \in BOOLEAN
  /\ ofs \in OfsStates
  /\ data \in FileData
  /\ fname \in Int
  /\ nameCfg \in Int
  /\ nsamples \in NSampleChoices
  /\ period \in NSampleChoices
  /\ nremaining \in Nat
  /\ nwritten \in Nat
  /\ fileNum \in Nat
  /\ rollover \in RolloverChoices
  /\ cfg \in Int
  /\ fileTime \in Int
  /\ fileTimeNext \in Int
  /\ pdu \in Pdus
  /\ torn \in BOOLEAN
  /\ leftOpen \in BOOLEAN

(* The constructor; it leaves d_nremaining and d_file_num_rollover unset.  *)
WriterInit ==
  /\ isStarted = FALSE
  /\ ofs = "closed"
  /\ data = NoData
  /\ fname = NoName
  /\ nameCfg = InitialCfg
  /\ nsamples \in NSampleChoices
  /\ period = nsamples
  /\ nremaining \in Uninitialized
  /\ nwritten = 0
  /\ fileNum = 0
  /\ rollover \in RolloverChoices
  /\ cfg = InitialCfg
  /\ fileTime = 0
  /\ fileTimeNext = 0
  /\ pdu = NoPdu
  /\ torn = FALSE
  /\ leftOpen = FALSE

NextFileNum ==
  LET num == (fileNum + 1) % FileNumWidth
  IN  IF rollover > 0 THEN num % rollover ELSE num

(* Mutant of Publish: an update put together before the last write is done.   *)
PublishEarly(count, contents) ==
  pdu' = IF count > 0
         THEN [fname |-> fname, time |-> fileTime, nameCfg |-> nameCfg,
               cfg |-> cfg, samples |-> count, data |-> data, ofs |-> ofs,
               torn |-> torn]
         ELSE pdu

(* The update close() is followed by: sent only if d_nwritten is not zero, *)
(* with d_rate and d_freq as they are when the file is closed.             *)
Publish(count, contents) ==
  pdu' = IF count > 0
         THEN [fname |-> fname, time |-> fileTime, nameCfg |-> nameCfg,
               cfg |-> cfg, samples |-> count, data |-> contents, ofs |-> ofs,
               torn |-> torn]
         ELSE pdu

(* write_impl of k samples from sample pos on: the stream takes them only  *)
(* while it is good, and the caller is told k in every case.               *)
Extended(pos, k) ==
  IF ofs # "open" \/ k = 0 THEN data
  ELSE [first |-> IF data.len = 0 THEN pos ELSE data.first,
        next  |-> pos + k,
        len   |-> data.len + k]

(* What d_nremaining is reset to for a new file.                           *)
Refill == nsamples

(* The samples one turn of the loop writes: std::min(d_nremaining, nleft); *)
(* mutants: all of them; one is kept back.                                 *)
ChunkUnbounded(nleft) == nleft
ChunkShort(nleft) == IF nremaining < nleft THEN nremaining ELSE nleft - 1
Chunk(nleft) == IF nremaining < nleft THEN nremaining ELSE nleft

(* d_T, the period of a file; mutant: files that do not move on in time.   *)
NoPeriod == 0
FilePeriod == period

(* set_nsamples has set d_nsamples and not yet d_T.                        *)
HalfSet == period # nsamples

(* start(start_time): the times, from d_T.                                 *)
WriterStart(time) ==
  /\ fileTime' = time
  /\ fileTimeNext' = time + FilePeriod
  /\ torn' = HalfSet
  /\ UNCHANGED << isStarted, ofs, data, fname, nameCfg, nremaining, nwritten,
                  fileNum, pdu, leftOpen >>

(* start(): the rest, from d_nsamples on.                                  *)
WriterOpen ==
  /\ nwritten' = 0
  /\ nremaining' = Refill
  /\ nameCfg' = cfg
  /\ fname' = fileNum
  /\ ofs' = IF ofs = "closed" THEN "open" ELSE "failed"
  /\ data' = IF ofs = "closed" THEN NoData ELSE data
  /\ isStarted' = TRUE
  /\ UNCHANGED << fileNum, fileTime, fileTimeNext, pdu, torn, leftOpen >>

(* stop()                                                                  *)
WriterStop ==
  /\ ofs' = "closed"
  /\ data' = NoData
  /\ fileNum' = NextFileNum
  /\ Publish(nwritten, data)
  /\ fname' = NoName
  /\ nwritten' = 0
  /\ isStarted' = FALSE
  /\ leftOpen' = FALSE
  /\ UNCHANGED << nameCfg, nremaining, fileTime, fileTimeNext, torn >>

(* write(), d_nsamples = 0: the whole buffer goes to the one file.         *)
WriteWhole(pos, k) ==
  /\ data' = Extended(pos, k)
  /\ nwritten' = nwritten + k
  /\ UNCHANGED << isStarted, ofs, fname, nameCfg, nremaining, fileNum,
                  fileTime, fileTimeNext, pdu, torn, leftOpen >>

(* write(), one turn of the loop that leaves room in the file.             *)
WriteChunk(pos, k) ==
  /\ nremaining' = nremaining - k
  /\ data' = Extended(pos, k)
  /\ nwritten' = nwritten + k
  /\ UNCHANGED << isStarted, ofs, fname, nameCfg, fileNum, fileTime,
                  fileTimeNext, pdu, torn, leftOpen >>

(* write(), one turn of the loop that fills the file: stop(), then the     *)
(* next file is opened with the number stop() moved to and d_nsamples.     *)
WriteAndRoll(pos, k) ==
  /\ Publish(nwritten + k, Extended(pos, k))
  /\ nwritten' = 0
  /\ nremaining' = Refill
  /\ fileNum' = NextFileNum
  /\ fname' = NextFileNum
  /\ ofs' = "open"
  /\ data' = NoData
  /\ fileTime' = fileTimeNext
  /\ isStarted' = TRUE
  /\ torn' = (torn \/ HalfSet)
  /\ leftOpen' = FALSE
  /\ UNCHANGED << nameCfg, fileTimeNext >>

(* write(), the end of that turn: the time of the file after it, from d_T. *)
MoveTime ==
  /\ fileTimeNext' = fileTimeNext + FilePeriod
  /\ UNCHANGED << isStarted, ofs, data, fname, nameCfg, nremaining, nwritten,
                  fileNum, fileTime, pdu, torn, leftOpen >>

=============================================================================
