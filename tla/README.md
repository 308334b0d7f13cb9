# Verification of gr-sandia_utils

TLA+ models of the stateful blocks of gr-sandia_utils, GNU Radio blocks for
recording, replaying, gating and converting sample streams, with model-checking
runs (TLC) and machine-checked proofs (TLAPS). Paths are relative to the
repository; `lib/x.cc:10` is a line of it.

## 1. The system

Every block is run by a GNU Radio scheduler thread of its own, which calls
`work()` on a window of the input and then `consume`s part of it. Tags ride on
samples at absolute offsets. Three other kinds of thread touch a block's state:
message handlers (in the block's own thread), setters called by a script or a
GUI at any time, and threads the block starts itself. The hard parts are the
same in most blocks: a window may cut the stream anywhere, so whatever spans
windows is kept in state; setters fall between two steps of `work()` wherever
they do not take its mutex; and offsets, counts and times are kept in several
variables that have to agree.

### 1.1 Components

| component | state | operations | talks to | what is hard |
|---|---|---|---|---|
| **file_sink** (`lib/file_sink_impl.*`, `lib/file_sink/*`) | mode, recording flag, pending start, burst state, samples to discard, time of the next sample; the writer's open file, counters, next name, time | `work`, tag handling, 7 setters, `stop`; writer: start, stop, write, roll over, publish | stream in; a message per closed file to file_monitor, file_archiver and others | setters without `d_mutex` in the middle of a write; retunes and bursts cut by windows; roll-over |
| **block_buffer** (`lib/block_buffer_impl.*`) | three buffers with tags and times, which one is read into / written out / latest, indices, queue of rx_time tags | `general_work` (read loop, write loop), `set_nsamples`, `set_pass_data` | stream in, stream out with BLOCK tags | rotation of the buffers, restart on overflow, time after skipped blocks |
| **file_monitor** (`python/sandia_utils/file_monitor.py`) | queue of kept files, queue of files to copy, flags | `handler`, `set_copy`, `set_nfiles`, `stop`, flusher thread | messages from file_sink; the file system | three threads, tests made outside the mutex |
| **file_archiver** (`python/sandia_utils/file_archiver.py`) | whether it archives, the names in its directory | `handler`, `set_archive` | messages from file_sink; the file system | files that go before they are copied, names that are taken |
| **file_source** (`lib/file_source_impl.*`, `lib/file_source/*`) | file queue, open reader, pending tags | `work`, `open`, `close`, `seek`, setters, message handler | stream out; the file system | files opened while another is read, repeat, queue limit, calls without the lock |
| **VITA 49 receiver** (`lib/vita/*`, `lib/vita49_tcp_msg_source_impl.*`) | socket, thread, half a word, half a packet | `start`, `stop`, receive loop, word assembly, packet state machine, publishing | TCP; messages out | clients that leave inside a packet, start/stop race, any cut of the bytes |
| **stream_gate** (`lib/stream_gate_impl.*`) | gate, samples dropped | `general_work`, setters | stream to stream | tag offsets after drops |
| **tagged_bits_to_bytes** (`lib/tagged_bits_to_bytes_impl.*`) | bits padded and dropped so far, last rx_time | `general_work` | stream to bytes | bursts cut by windows, offsets of tags, progress |
| **tune_gate** (`python/sandia_utils/tune_gate.py`) | wait/discard/publish, samples since the last event, half a block, tags | `general_work`, `set_n_discard` | stream in, stream out | timeouts and tags in different bases, blocks cut by windows |
| **python_message_interface, python_interface_sink** (`python/sandia_utils/`) | a bounded queue each | handler, `work`; get, flush | a script's thread | full and empty queues, in any interleaving |
| **csv_writer, csv_reader** (`python/sandia_utils/`) | file, header; timer, position in the file | handler, `start`, `stop`; chain of timers, `set_fname`, `set_repeat` | messages, files | timers that outlive `stop()`, header and lines that shift, files changed under a read |
| message_vector_csv_pdu, rftap_encap, file sinks for messages | an open file or a history | one message each | messages, files | conversion only |
| burst_power_detector, compute_stats, invert_tune | parameters | one window or message | streams, messages | numeric only |
| debug blocks, build scripts, bindings, GRC | none | printing | files | none |

Those in bold are modelled. What makes each correct: the sink's files have no
hole, are counted, stamped and named for what they hold, and no start is lost;
the buffer's blocks are continuous, in order, with their own tags and the right
time; the monitor keeps the newest files, forgets none it must copy, leaves none
behind, and stops; the archiver overwrites no copy and misses only what the
monitor removed; the source plays every queued file once, in order, with its
tags; the receiver delivers each whole packet once and its thread is there for
clients and for `stop()`; the gates pass exactly the samples asked for, with
tags on their samples; bits are packed once, under their own burst; the queues
between threads lose no more than they say; what is written as CSV is what is
read.

`PROJECT.json` lists every component with its sources and status, and under
`hazards` what in this code a test would hardly reach, line by line.

## 2. Modules

| module | models | refinement / checked by |
|---|---|---|
| `FileWriter` | `file_writer_base` and the raw backend: one operator per method | used by FileSink |
| `FileSink` | `file_sink_impl`: `work()` in both modes, tag handling, setters, `stop` | implements `Recorder` |
| `Recorder` | abstract: the stream is taken in order; a file has no hole and is announced as it stands, unless the recorder has gone astray | |
| `MCFileSink`, `FileSinkProof` | streams and times of the runs; theorems | |
| `BlockBuffer` | `block_buffer_impl`: `general_work()`, both setters | implements `Blocks` |
| `Blocks` | abstract: a sequence of blocks of consecutive samples, in order, none twice | |
| `MCBlockBuffer`, `BlockBufferProof` | streams of the runs; theorems | |
| `FileMonitor` | `file_monitor`: block, script and flusher threads | theorems in RecordChainProof |
| `FileArchiver` | `file_archiver`: handler with `copy_file`, `set_archive` | |
| `RecordChain`, `MCRecordChain`, `RecordChainProof` | FileMonitor and FileArchiver behind one sink; names of the run; theorems, of the monitor by itself too | composition |
| `FileSource`, `FileSourceProof` | `file_source_impl` with the base reader; theorems | |
| `TuneGate`, `TuneGateProof` | `tune_gate`: every turn of the loop of `general_work`; theorems | |
| `PythonInterfaces` | both bridges to a script, with the script | theorems in InterfacesProof |
| `Csv` | lines, headers and conversions the two blocks share | used by both |
| `CsvWriter`, `CsvReader` | the blocks | |
| `CsvRoundTrip`, `MCCsvRoundTrip`, `CsvRoundTripProof` | writing, then playing what was written; PDUs of the run; theorems | composition |
| `GatedStream` | the buffer between two blocks | shared by both |
| `StreamGate`, `StreamGateProof` | `stream_gate_impl`; theorems, of the packer behind it too | |
| `TaggedBits` | `tagged_bits_to_bytes_impl` | |
| `GatedBits`, `MCGatedBits` | a gate in front of a packer; tags of the run | composition, implements the gate's own specification (proved) |
| `VitaRx`, `MCVitaRx` | `vita_rx`, `VRTPacket::unpack`, `vita49_tcp_msg_source_impl`; streams of the run | theorems in InterfacesProof |
| `InterfacesProof` | theorems on both bridges and on the receiver | |

In every module an operator that appears next to a shorter name and is called a
mutant in its comment (`BurstLengthShort`, `OwedAgain`, ...) is a plausible bug
of the operator it precedes: `PROJECT.json` names, for each property, one or
more that the run must refute when it takes the operator's place.

### 2.1 FileWriter and FileSink

Samples are represented by their index in the input stream, so "what is in a
file" is `[first, next, len]`: a hole shows as `len < next - first`. Times are
in sample periods, and sample rate and frequency together are one
"configuration" (`cfg`), numbered by the offset of the tag that set it. A file
name is the number it is built from.

One call of `work()` is: `HandleTags(n)` (`do_handle_tags` on a window of n
samples), one manual or triggered action, then, when it writes, `WriteEnter`,
`WriteLoop` once per turn of the writer's loop, `WriteDone`, and `WorkEnd`
(`do_stop`, consume). `work()`, `set_recording` and `set_mode` hold `d_mutex`,
so the two setters need `Unlocked`; `set_nsamples`, `set_file_num_rollover`,
`set_second_align`, `set_freq` and `set_rate` do not take it and may fall
between any two steps. The steps are as fine as `set_nsamples` can see them.
`start()` reads `d_T` and later `d_nsamples` (`ManualStart` or `BurstStart`, then
`ManualOpen` or `BurstOpen`); a write that fills its file reads `d_nsamples` and
later `d_T` (`WriteLoop`, `WriteRolled`); and `set_nsamples`, which holds a mutex
that neither takes, sets `d_nsamples` (`SetNsamples`) and then `d_T`
(`SetPeriod`). `torn` is history: the two values an opening read need not belong
together. `leftOpen` is history, too: a change of mode left a file open. Effects that the code leaves undefined are
choices or ends: the uninitialized `d_nremaining` takes any value of
`Uninitialized`; reading `burst_tags[0]` of an empty vector is `BurstCrash`,
after which nothing happens; a second `open()` of an open stream fails and drops
what is written (`ofs = "failed"`). After a burst the sink goes on writing to a
stream that is closed: nothing reaches a file, but the writer counts it, and
announces it at the next end-of-burst tag or stop. An update remembers what was
closed before it (`pdu.ofs`), so that the properties can tell the two.

### 2.2 BlockBuffer

`mem[b][j]` is the stream index of the sample at place j of buffer b, `bufAbs`,
`bufTags` and `bufTime` the rest of each buffer's record. One call is
`WorkBegin`, turns of the read loop (`Reinitialize`, `Restart`, `Read`),
`Consume`, turns of the write loop (`Write`), `WorkReturn`; a call without input
or with data off is `WorkDrop`. The setters take `work_mutex`, so they fall
between calls. A window that must restart and has no rx_time tag makes the code
take the last of an empty vector: `RestartNowhere`, after which the block is dead.
A time estimated after a skip is made with the sample period of the constructor
(`SampPeriod`), whatever rx_rate tags (`RatePeriod`) came since. Modular arithmetic
(`Word`) is kept where the code subtracts
unsigned offsets. Memory from `malloc` is `Junk`, and `back()` of an empty queue
is a tag that equals none. The output is seen as the block being sent
(`block`, `blockLen`), with the tags, time and skip count sent with it.

### 2.3 FileMonitor

A file is the number of the update that announces it. The block's thread runs
`Handler` and, at the end, `Stop`, `StopJoin`, `StopClear`, `StopRemove`; a
script's thread calls the setters (`SetCopyOn`, `CopyOn`, ... in steps, because
each sets its flag before it takes the mutex); the flusher runs `FlushEnd`,
`FlushCheck`, `FlushPop`, `FlushCopy`. `stop()` empties the queue without the
mutex, so it interleaves with `Trim`/`TrimRemove` and with the deepcopy of
`CopyOn` (`CopyOnRaises`). An exception ends the thread it is raised in: pc
`"raised"`. The file sink is reduced to `Announce`: a file appears on disk and
its update is queued.

### 2.4 FileSource

A file is the number of the `open()` that asks for it, `lens` its length, and
items are places in a file; `out` is the stretch of items produced last, with
the files whose tags rode on its first item. `Request` is `open()`, called by a
message (then with the current `d_repeat`, and not for a name that does not
exist, which changes nothing) or by a script; it holds `d_setlock`, as `work()`
does, and ends with `open_next()`. A call of `work()` is `WorkBegin`, turns of
its loop (`Read`, `Check`, and at the end of a file one of `Rewind`,
`LastFile`, `NextFile`, `NextFileFails`, `Short`, `EofCrash`) and `WorkEnd`;
`Close` and `Seek` take no lock and fall between any of these steps. A file may
be gone when it is opened (`MayVanish`): `open_next()` then raises before it
takes the entry off the queue, which ends the block's thread, but only the call
of a script. `FileSize` is what the reader's `int d_file_size` makes of a
length; a file that does not fit in it has no end for `eof()`. Tags whose read
produced nothing stay at their place in the stream and ride on whatever item
comes next (`carry`).

### 2.5 TuneGate

A sample is its offset, the block's fields and the locals of `general_work` are
the record `g`, and `g.pc` says where the call is. `Call` starts a call with any
window and room; every turn of its `while` loop is one action, named for what it
meets: `TuneTag`, `PubTag`, `RateTag`, `ForeignTag`, `TimeoutNearTag`,
`Timeout`, `EndOfBlock` while waiting, `DiscardSamples`, `AbortTimeout`,
`PublishSamples`, `Fill` (which also returns early when the output is full, or
raises) and `EndOfWork`. `Slice` is the slicing of a Python list, with its
negative indices. `set_n_discard` takes no lock: it falls between any two of these
steps (`SetNDiscard`), and inside `discard()`, which reads `n_discard` for its tags
and delay (`:122`), for the test whether the samples are all there (`:138`) and
for the move (`:144`): `DiscardSamples` takes a value for each read, and counts
the calls it needs. Samples waited through, thrown away, and the tags that
`publish()` took off the list ahead of the end of a block begun earlier are kept
as history (`waited`, `thrown`, `overread`). `torn` says that a discard found two
values. `rewound` says that the read index went backwards, or that a discard moved
it past the end of the window, from where the next call takes it back; foreign
tags and a changed `n_discard` cause this, and after it nothing is claimed.

### 2.6 PythonInterfaces

A message is its number, a sample its offset; one `queue.Queue` operation is one
step. `msg_handler` is `Arrive`, `Put` and `Evict` in a loop; `work()` is
`WorkCall`, `WorkPut`, `WorkReturn`; the script makes one call at a time,
blocking or not, on either block. The messages evicted and flushed are history.

### 2.7 Csv, CsvWriter, CsvReader, CsvRoundTrip

A line is a sequence of cells. `Csv` has what both blocks do to a cell: a type's
conversion to text and back, the header with its types and key list, and where
a line's data starts. A cell is a symbol, not its characters; one written after
a line without newline becomes "garbled". `CsvWriter` handles a PDU at a time
(`HandlePDU`; `HandleOther` is a message that is no PDU), with `WStart` and
`WStop`. `CsvReader` is a chain of timers: `Fire`, then a `get_line` in steps
(`ReadLine`, `ParseAndPublish`, `EndOfFile`, `ReloadHeader`, `ArmAndRelease`)
under the lock, because `set_fname` (`SetFname`, `SetFnameStep`) does not take
it; `StopCancel` and `StopClose` are the two halves of `stop()`. `cancel()`
leaves a timer that has fired alone, so timers that `self.timer` forgot are
counted (`strays`), as are timer threads that wait for the lock (`waiting`).
`CsvRoundTrip` writes first, then builds a reader on the file.

### 2.8 StreamGate, TaggedBits, GatedBits

A bit is its offset at the source, so what the gate drops shows as a jump, and a
packed item is a sequence of offsets and `PAD`. The gate's `general_work` holds
`d_setlock`, so `Flow(n)`, `Drop(n)` and the setters are one step each; a closed
gate that holds its input sleeps. The packer's `general_work` is one step, too
(`Call`): it takes any window, cuts it before the next burst tag, packs whole
items, pads or drops the stub of a burst, moves tags to their items and puts a
burst time in front of each burst. It takes no lock, and `packbuffer` reads
`d_lsb_first` for every bit: `Call(f)` is a call in which
`set_little_endian_flag` falls behind bit f (f = 0: in no bit). When that is
inside a byte, the bits that byte has are shifted back by those that follow, and
out of it (`Torn`); `torn` keeps the bits of such bytes. Nothing else in a call
depends on the flag, so one step shows all that a second thread can do to it,
but for two changes within one call. The unit of packing is `Byte` bits. A tag's `copy` tells
two tags of one kind on one bit apart.

### 2.9 VitaRx

A packet is its shape (which fields the header announces, length of its
payload), a word is which word of which packet it is, a client's stream is a
sequence of words that are those of whole packets (`Sent`), and of the bytes in
`packBuf` only whether they are those of one word. The receive thread is `Loop`,
`Accept`, `Read`, `RxTimeOut`, `ProcessBytes` (one word, through
`VRTPacket::unpack` with its fall-through over absent fields), `Fire`
(`processPacket`), `Publish` (`received_packet`). A word that is taken for a
header and is none may pass for any header of `Shapes`, or for none. The owner's
thread calls `start` and `stop`, in the steps that matter to the other thread:
the thread is created (`OpenBackend`) before `running` is set (`SetRunning`),
cleared (`CloseBackend`) before it is joined (`CloseSocket`); `Destroy` is the
destructor. Clients connect, send, and leave between any two bytes. `spoiled`
is history: a connection ended inside a packet, or a packet was sent that the
parser cannot tell from the next. (`RxInit`, `RxNext`, `RxSpec` and so on
have a prefix because `InterfacesProof` extends PythonInterfaces as well.)

### 2.10 FileArchiver and RecordChain

The archiver's handler looks at the file, names the copy and copies it in one
step, `Archive`: nothing else changes the archive but whoever takes copies away
(`TakeAway`, external). In the chain a file that is announced goes to both
blocks; the archiver's thread is as far behind as it likes, and finds the file
there or gone.

## 3. Runs

A property that is a conjunction is listed with its parts in parentheses.

| run | checks | shows |
|---|---|---|
| `file_sink_recording` | `SinkInv` (`TypeOK`, `FileSizeBounded`, `FileHasOneConfig`, `StampedWithFirstSample`), `CountMatchesFile`, `StartNotForgotten`, refinement `Recording`, `AlignedStart`, `WorkReturns` | manual and triggered recording, with and without bursts, under every interleaving of `set_recording`, `set_mode` and `set_nsamples` with the steps of `work()` |
| `file_sink_triggered` | `BurstFile`, `BurstCaptured` | the first burst of a stream is recorded exactly, for every cut into windows; the other setters, and `stop` |
| `block_buffer` | `BufferInv` (`TypeOK`, `NoChangeInBlock`, `TagsStayOnSamples`, `EstimatedTimeTrue`), refinement `SendsBlocks`, `SkipCountAfterWholeBlock`, `WorkReturns` | overflows with and without rx_time tag, retunes, rate changes and `set_nsamples` at any place |
| `block_buffer_pass_data` | `OutputInOrder` | order of the output also with `set_pass_data` |
| `file_monitor_copy_dead` (violation) | `CopyHeeded` | the flusher dies of a queue cleared under it; copying never works again |
| `record_chain` | `RetentionBound`, `RetainsNewest`, `StoppedClean`, `CopyNotForgotten`, `MissedWereRemoved`, `CopyKept`, `ThreadsFinish` (`StopReturns`, `CopyDrains`, `ArchivedOrRemoved`) | a monitor with its three threads and an archiver behind one sink, every setter of both |
| `file_source` | `TagsInPlace` (`TypeOK`, `TagsOnFirstItem`, `TagsOnEveryFile`), `PlayedInOrder`, `WorkReturns` | queue, forced opens, repeat, vanishing, empty and oversized files; `close()` and `seek()` between any two steps |
| `tune_gate` | `GateInv` (`TypeOK`, `BlocksInOrder`, `EventTagTrue`, `RequestHeard`, `ForwardedInPlace`, `RxDelayTrue`), `TimeoutYields`, `WorkReturns`, `RequestAnswered` | every placement of two tags, every cut into windows, `set_n_discard` between any two steps and inside a discard |
| `python_interfaces` | `MessagesAccounted`, `NewestGetsIn`, `SamplesInOrder`, `GetAnswered` | more messages and samples than the queues hold, every call of the script |
| `csv_round_trip` | `PlaybackInv` (`TypeOK`, `RowsInOrder`), `RoundTrip`, `TimersServe` (`EveryLineRead`, `QuietAfterStop`, `TimersEnd`) | what is written is read back, under start, stop, a second run, `set_fname` and `set_repeat` at any step |
| `gated_bits` | `PackerInv` (`TypeOK`, `BitsPacked`, `TagsOnTheirItems`, `BurstTimeTrue`), `TagsFollowSamples`, `AllPacked` | a gate worked at will in front of a packer, every window, the bit order changed at any bit |
| `vita_rx` | `ReceiverInv` (`TypeOK`, `PacketsIntact`), `QuietAfterStop`, `Served` (`DataRead`, `ClientServed`, `CallsReturn`) | every cut of the bytes into reads and connections, start/stop/destructor against the thread |

What the code does that its documentation says it does not is in section 5.2;
the run with a violation is described in `PROJECT.json` under `findings`.
`TypeOK` of FileMonitor and PythonInterfaces is proved and not run.

### 3.1 Bounds, and why they are enough

- *file_sink*: streams of 4 or 6 samples with windows of 1 to 3 and files of 2
  or 3 samples: a write rolls over inside a window and at its end, a window
  holds two tags, and a second is 3 samples, so alignment discards span
  windows. `file_sink_recording` takes streams with any two reconfigurations, or
  any two burst tags, and starts in either mode; one file name is enough for it
  (`FileNumWidth` is 1, for 2^64), since what its properties say of files they
  say of `data` and of the last update. Burst streams (`file_sink_triggered`) have
  any three tags, and file numbers wrap at 2. `stop()` is called there, where the
  run is small; in the other run `set_recording(false)` stops the writer in the
  same way.
- *block_buffer*: blocks of 2 and 3 in a stream of 6, windows of 0 to 3, room
  for 0 to 2: all three buffers are in use, a writer lags by a whole block, a
  window ends and starts blocks. At most one of the tags is an overflow tag without
  rx_time tag, or a rate tag; an rx_time tag may come before or behind it. Two tagged samples are what a restart, and a
  restart inside a restarted buffer, take. `Word` is 64 for 2^64: every offset
  is below half of it, as in any stream that is shorter than 2^63.
- *record_chain*: three files against limits of 1 and 2, so that files are
  removed before, while and after they are copied; two calls (`MaxCalls`): the
  limit can fall, copying go on and off. All files have one name, the hard case
  for the archive; one copy of it is taken away. `file_monitor_copy_dead` takes
  two files and three calls, on, off and on.
- *file_source*: three opens (`MaxOpens`) against a queue of one or two, so that
  it fills and is cleared while a file is open; files of 0, 2 and 3 items read in
  calls of 1 or 2, so that a file ends inside a call, at its end, and spans two.
  `MaxInt` is 2 items for the 2^31 - 1 bytes of an int, and one file
  (`MaxLong`) is longer. One call of `close()` or `seek()` is enough to meet
  every step of `work()` (`disturbed`); after it only `TypeOK` is claimed, since
  the other properties speak of files played without interference.
- *tune_gate*: seven samples, any two tags of any kind, windows of up to 4,
  blocks of 2, a discard of 1 or 3 (one that fits in a window and one that need
  not), a timeout of 3: blocks, discards and timeouts are cut by windows, a
  request falls in a timeout's block, two requests are closer than a block. Room
  is at least a block (`OutLens`); with less see 5.2.
- *python_interfaces*: queues of 2, four messages, three samples, three calls:
  both queues fill, two messages are evicted in a row, and a window is cut twice.
- *csv_round_trip*: two PDUs out of a full one, one that lacks a key and a
  vector, and one with a vector of another type; two runs of the writer, two of
  the reader; three ticks, which pass the end of either file; one call of
  `set_fname` or `set_repeat`.
- *gated_bits*: five bits in bytes of two (`Byte`), items of one or two bytes,
  up to three bursts or two on one bit, and a time tag: items, bursts and
  windows end in every combination of remainders. The order changes inside a call
  for bytes padded on the right (`SomeConfigs`); the proof has no such bound.
- *vita_rx*: two clients, reads of up to two bytes against words of two bytes
  (`WordBytes`), so that reads end inside words and span them; packets with
  payload and trailer, with a trailer alone, without either, and a context
  packet; two starts.

`CHECK_DEADLOCK FALSE` is said because streams end and blocks stop.

### 3.2 Fairness

FileSink, BlockBuffer and FileSource assume `WF_vars(WorkStep)`: a call of
`work()` that has begun keeps running. That work is called again is not assumed,
nor that setters are called. In TuneGate the scheduler also calls again while
there is input (`WF_vars(Call)`), which is what it does; that it ever gives a
particular window is not assumed. The same holds for the two blocks of GatedBits;
nobody has to open the gate, and `AllPacked` speaks of a gate that stays open.
In RecordChain each thread of the monitor that can take a step does; the script
makes finitely many calls, so the mutex is not taken from the others for ever
(Python's lock alone is not fair). The archiver is given its messages until the
flowgraph stops (`ArchiveRuns`): then its thread is interrupted and what waits for
it is dropped, so that afterwards it may handle a message or none, and
`ArchivedOrRemoved` claims nothing. In PythonInterfaces the handler, `work()` and the script,
once inside a call, go on; that messages arrive is not assumed, and a blocking
`get_message` without timeout may wait for ever when none does. In CsvRoundTrip
an armed timer fires, a thread that waits for the lock gets it, and a call that
has begun goes on. In VitaRx the receive thread runs (its socket timeout of
`lib/vita/vitarx.cpp:309` is what makes it look at `running`) and a call of the
owner goes on; no client has to connect. What a client sends is there as soon as
it is connected, and it is silent only behind the end of it: `DataRead` says
nothing of a client that pauses inside its stream.

## 4. Proofs

All of `FileSinkProof`, `BlockBufferProof`, `RecordChainProof` (which holds the
theorems on FileMonitor too), `FileSourceProof`, `TuneGateProof`,
`InterfacesProof` (PythonInterfaces and VitaRx), `CsvRoundTripProof` and
`StreamGateProof` (the packer too) is checked by tlapm with its SMT, Zenon and
temporal backends. Every safety property of a passing run is the statement of a
theorem; the properties of liveness are not (see the end of this section).

**FileSink.** The theorems `Invariance` to `StartCorrect` have no assumption
beyond those on the constants: both modes, bursts, all setters, every window and
every file length are included. `IInv` is `TypeOK` with these parts. `CallInv`
says how far a call of `work()` may go (`nread + nprocessed <= StreamLen`, `nleft`
is spent outside the writer's loop). `OpenInv` says that `isStarted` and the stream
agree, and that an open fails only where a change of mode left a file open.
`ModeInv`: who has a file open, who writes and who starts, by the mode; a writer
that runs has no start pending, in manual mode a call that writes has its file
open, and in triggered mode one that writes is past a start-of-burst tag, its
file open or already closed. `DataInv` says that the open file ends at the sample the
sink is at. `CountMatchesFile` is not inductive alone: a file that is open while
`isStarted` is false, or closed while it is true, breaks it at the next write, so
the agreement is needed. `QuietInv` says that without bursts nothing of
triggered mode ever happens and no file is left open, so that only an open file is
written to. From `IInv`: `TypeCorrect`, `CountCorrect`, and `RecordingCorrect`, the
refinement of `Recorder` with the position mapped to the sample the write is at. A
step that counts samples to a closed file, or reopens or closes one that was left
open, is the Recorder's `Stray`, which `Astray` allows in streams with bursts only.

What the files hold needs more, inductive beside `IInv`. `WindowInv`: a call
that may write has no reconfiguration in the samples it handles, but for the
first of the file or of the call; the code owes that to the cut of a window at
its last reconfiguration, and to reconfigurations that are not closer than a
window (`Spaced`). `TimeInv`: without rx_time tags the sink's clock is the
sample count and, while no opening was torn, the writer's two times follow from
what is written, so a file that rolls over is stamped with its first sample; inside
`start()` and at the end of a rolling write it says which of the two reads is still
to come. `StartInv`: a recording without a file, or about to lose it, has a start
due or a reconfiguration past the end of this call; `StartNotForgotten` alone says
nothing of the steps inside a call. With them `FilesCorrect` (`SinkInv`) and
`StartCorrect`. `AlignInv` (the clock and the discard still to go add up to a
second, or one sample more) gives `AlignCorrect`, assumed that `set_second_align` is
not called: it changes what is promised between the start and the file.

The file of a burst has invariants of its own, for files of unlimited length (`WholeFiles`: a file that rolls over inside a burst does not
start at its tag). `BurstInv` says that a start is due only at the first sample
of a burst and with no file open, that an open file starts there and reaches to
the write position without a hole, and that one about to be closed ends with an
end-of-burst tag. From it `BurstFileCorrect` (`BurstFile`), for every
reconfiguration, window and setter but `set_mode` (`ModeFixed`), with which TLC
refutes it: a file left open by a change of mode (5.2) takes samples of a later
burst when a reconfiguration calls that burst's start off. `CaptureInv` adds, for
a stream with no reconfiguration, where the sink is with the first burst: before
it, about to start on its first sample, or with all of it so far in the file and
the end not passed. From both `BurstCapturedCorrect` (`BurstCaptured`): the first
burst is published whole, however the windows cut it, while the mode is
`TRIGGERED` and `set_recording` is not called (it may close the file).

**BlockBuffer.** `IInv` says what the three buffers hold: the one read into
holds consecutive samples up to the position (`ReadInv`) and is never one to be
written out (`RingInv`); those to be written out are full and in the order of
the stream (`WriteInv`); what was sent of the block is a prefix of the buffer
being written out, or lies before it (`SentInv`). From it: `SendsBlocksCorrect`,
the refinement of `Blocks`, and `ContinuousWithoutPassData`: every block is
continuous. Assumption `AlwaysPassing`: `set_pass_data` is not called, without
which it is false (5.2).

`BufferCorrect` (`BufferInv`) adds what rides on the samples. `TagInv`: each
buffer's tags are those of its samples, and no overflow or change of the source
lies in it past its first sample, but for overflow tags behind a tag that started it. `QueueInv`: the queued rx_time tags are in
order, none older than the current one or ahead of the position, and the current
one is no later than the block sent last, so a time computed from it is true as
long as the rate since is the constructor's (`SteadyRate`); the lemmas on `Rank` and `InOrder` say that a window's tags enter the queue each once
and in order. With `LastInv` (the last announced block is the one sent) comes
`SkipCountCorrect`, assumed that offsets do not wrap (`StreamLen <= Word`).

`OrderCorrect` (`OutputInOrder`) needs neither assumption: when `set_pass_data`
is called inside a block, buffers have gaps, but `OrderInv` still holds. Samples
rise inside each buffer, from one buffer to the one filled after it, and what was
sent comes before what waits, which comes before `Begin`, the first sample of the
buffer that is read into (`WritingBehind`).

**FileMonitor.** `Newest(q, r, d)` says that the queue holds the last numbers of
those received, and that these are the received files left on disk. It survives
an append with the next number and a removal of the first (`AppendNewest`,
`TailNewest`), which is all the threads do to the queue. With the limit where
set_nfiles is not at work (`LimitInv`), the empty queue after `stop()`
(`StopInv`) and `CopyInv` it gives `RetentionCorrect`, `NewestCorrect`,
`StopCorrect` and `CopyCorrect` with no assumption beyond those on the
constants.

**RecordChain.** `ChainInv` is FileMonitor's `IInv` with the archiver's count of
handled files; a file that is gone from the disk was removed by the monitor
(`AbsentRemoved`), so `ChainMissesOnlyRemoved`. `ChainKeepsMonitor` carries the
monitor's four properties over to the composition. For `ChainKeepsCopies`:
as long as no copy of a name was taken away its extensions are 0, 1, 2, ... with
each used once (`ExtensionInv`), so their number is a free one.

**FileSource.** `PlainInv` holds whatever is called: the queue's files come
after the one the reader has or had, oldest first (`Waits`), and a file asked
for after that one waits in the queue or was cleared from it (`Accounted`). The
lemmas on opening and queueing (`HeadWaits`, `QueuedWaits`) carry it through
`open_next()` and a full queue. `CalmInv` holds until `close()` or `seek()` is
called. `PlayInv`: the reader stands where the output ends, or at the start of a
file that comes after only files that are over with (`Over`: played to the end,
cleared or empty); for this `CallInv` must know that the end of the file was
reached wherever the code looks for it. `TagInv`: tags that are due are due at
the first item, and tags whose read produced nothing (`carry`) are those of an
empty file in a call that has produced nothing and will end the source, so they
never ride on another file's item. That last fact, that `-1` is returned then
(`file_source_impl.cc:414`), is what keeps tags off foreign items. From it
`OrderCorrect` (`PlayedInOrder`) and `TagsCorrect` (`TagsInPlace`), for files of
any lengths, those longer than an int included, any depth and all setters.

**PythonInterfaces.** `IInv` is the types with `Handed` for either queue: what
the script received, followed by what is queued, is in order, and with what was
evicted or flushed it is all that came. The lemmas on `Handed` say what
appending, taking the head and dropping one of a queue do to it; each step of a
thread is one of these. From it `MessagesSafe`, `NewestSafe`, `SamplesSafe` and
`TypeCorrect`, for any sizes of the queues.

**StreamGate.** `PassedInv` relates the three counts of the gate,
`Len(mid) + dropped = nread`, and says that what passed is older than what comes
next; without it the offset computed from `d_dropped_samples` could not be
placed. `GateTags` is proved of the gate alone; `GatedIsGate` shows that the
composition implements the gate, so that `TagsReachPacker` follows.

The packer behind the gate has `PackingInv`. `PackerTypes` says what the offsets
of moved tags rest on: the items have the bits that were read, plus
`extra_bits` of padding, less what was dropped. `PlacedInv` states `BitsPacked` for each bit: a
place in an item that holds a bit holds one that was read, the order of places
is that of the bits, and a bit that was read is in some place or in a stub that
was dropped. For the bits of a byte within which the order changed (`torn`) it
says less: they may be lost, or stand in another order among themselves. `TimesInv` (the time kept is that of a time tag that was read, or
none was) is what makes `BurstTimeTrue` inductive. A call is one step, so the
proof goes by what the call packs: whole items and the stub of a burst
(`PackFills` and the lemmas after it), then the items put behind those of
earlier calls. `PackedInOrder` (`PackerInv`) has two hypotheses. `LeftMsbFirst`:
padding on the left only with the most significant bit first; the other way
round the shift loses bits, which is a fault of the code (5.2). `OwnKey`: no tag
that comes in is already named `burst_time`, which the packer's own tags are
told by. All windows, gates, tags and sizes of items are included.

**TuneGate.** `IInv` has three ranges. `FieldInv` holds always, also where the read
index went backwards and `n_since` became negative: types, and what the state of
the gate says of its place in the window; without it the types of `GateInv` could not
be claimed beyond that point. Until then (`~rewound`) hold four layers, each proved
turn by turn from those before it. `ShapeInv` and `TagInv`: where the position
is in each phase, and the listed tags are those of the window ahead of it, in order,
but behind a discard that moved on further than it looked for tags. `OrderInv`:
`out_buf` is the consecutive samples up to the position, `n_since` of them while a
block is cut by windows, all behind what was published (`Edge` and not the
position: a block given up at the end of a window leaves the position behind).
`EventInv` carries the event tag of a block from the event to the output, over a
discard of any of the lengths `n_discard` had. As long as no discard found two
values of `n_discard` (`~torn`) there is also `RequestInv`: a request ahead that is not
listed was taken by `publish()` for a block begun in an earlier window, and is then
less than a block ahead of it and before all that is listed, which makes
`RequestHeard` inductive; `ForwardInv`: a tag forwarded ahead of its sample waits for
that block; and `RateInv`: the sample period in force is the one before or after the
first rate tag passed; the cardinalities of the samples thrown away follow from
`StretchAdded`. A discard is proved for any values of its three reads; `DiscardFacts`
and `DiscardMove` tell the one that goes past its window from the others.
Together `GateCorrect`: `GateInv` for all sizes, as long as a call has room for a
block (`RoomForBlock`; without it, 5.2). `TimeoutInv` (samples since the last event
were waited for; in a timeout's block no request was passed over) gives
`TimeoutCorrect` for `NTimeout >= NPub - 1`: a shorter timeout may publish a
block with a request in it that `publish()` took ahead. The proof attempt found
three cases that the properties had to except and the small runs had not met:
the overlooked request of a short timeout, rate tags that `publish()` takes ahead
(they count for samples before them), and what follows once the read index went
backwards.

**VitaRx.** `RxInv` has three layers. `OwnerInv`: while nobody calls the block,
its thread runs only if it was started, and a block that is stopped has none,
unless its socket is always on. From it `StoppedIsQuiet` (`QuietAfterStop`).
`ClientInv`: clients are served one at a time in the order they connect, nothing
is read of one before its turn, and no more is processed than was read. The
third layer holds while nothing is spoiled. `ParserInv` relates the parser to
the stream, and is why a cut of the bytes can do no harm: what is in `packBuf`
is the start of the client's next word (`PackInv`), and `rxPacket` is blank at
the first word of a packet (`Between`), inside a packet it has the header and
the count of the word to come, in a state that this word fits (`Inside`), and it is
done only behind a packet's last word (`Complete`). `ParserStep` says what
`unpack()`, with its fall-through over absent fields, makes of the next word in
each state. `DeliveredInv` then says that what was handed over are the packets
whose last word was read, in their order; that this is an order, and that no
packet comes twice, follows from how the packets of a stream are numbered
(`Numbered`, `LaterPacket`). `ReceivedIntact` (`ReceiverInv`) needs no
assumption beyond the types of the constants: streams of any packets, any sizes
of words and reads, any number of clients and calls.

**CsvRoundTrip.** `TypeInv` gives writer and reader the types of lines, headers
and rows. `Standing` says where the reader is in its file at each step of
`get_line`: the line it will publish next is the one after the last published,
or the first when that one was the last of its file, and the header in use is
that of the file. With `RowsRead` (what was published is lines of the files,
parsed with their own header) it makes `RowsInOrder` inductive:
`PlayedBackInOrder` (`PlaybackInv`). Both speak of a reader that was not switched inside the
reading of a line (`mixed`), which the code without a lock allows and TLC finds
to break the order. `QuietInv` says of a reader that is stopped that no line is
in hand, and that no timer, armed, forgotten or waiting, can find the file open:
`NothingAfterStop` (`QuietAfterStop`, which the run checks as a part of
`TimersServe`). `FileInv` says that the file is the header and one line for
every PDU, and `BuiltInv` that this is the file the reader was given. From them
and `RowsRead` follows `WrittenIsRead` (`RoundTrip`), for any PDUs, header
formats, key lists and other files. `RoundTrip` claims this for a file that can
hold its PDUs (`Sound`); each part of that condition is a case in which the proof
attempt or TLC showed that what is read differs: a precision (no newlines are
written), an empty value or one of another type than its key's column, a first
PDU without metadata or a second run in find mode, a key whose name reads as a
typed one.

**Model-checked only.** Liveness (`WorkReturns`, `ThreadsFinish`, `TimersServe`
but for its part `QuietAfterStop`, `RequestAnswered`, `GetAnswered`,
`AllPacked`, `Served`) and anything about ENABLED are out of TLAPS's reach. So
are induction over data and RECURSIVE operators: the models use none, and where
a definition was a fold over a sequence (the packer's items, a client's packets,
the lines of a file) it says place by place what the sequence is instead.
`CopyHeeded` is false of the code. FileSource's `WorkReturns` leaves out by name
the calls that do not return: an empty or a closed file in repeat mode.

## 5. Limits

### 5.1 Not modelled

- In file_sink: message input, folder and file name formatting, errors of
  directories; the header and bluefile backends (bytes around the same writes).
- In block_buffer: the sleep between blocks, which is all that rx_rate tags set in
  the block.
- In file_monitor: `set_output_path`, malformed messages, names used again.
- In file_archiver: `set_output_path` and `set_fname_format`, which say where
  names come from; malformed messages, which are dropped; names with glob
  metacharacters or that extend one another, which the code counts wrongly when it
  looks for copies of a name; a second archiver with the same output.
- In file_source: the thread that plays message files (`type` "message"), the
  value of the begin tag and its count, bluefile, and the header of a raw_header
  file, which is not an item until a repeat plays it from byte 0.
- In tune_gate: values of rx_time tags beyond the delay added to them, sleeping.
- In the bridges: `send_message`, which only publishes; vectors
  (`vec_len > 1`), see 5.2.
- In csv_reader and csv_writer: periods and delays, files that do not exist,
  seven of the nine metadata types (they differ in the text, not in the control);
  the characters of a cell: the cells of the model have no comma and no space in
  front (5.2).
- In tagged_bits_to_bytes: `set_vlen` and `set_sample_rate` at run time; calls
  that would produce more than the output has room for; two changes of the bit
  order within one call.
- In the VITA receiver: a client that is connected and pauses inside its stream,
  which the socket timeout answers as it answers one that has sent everything; what the block makes of a packet's contents,
  `setIgnoreTime` and `setIgnoreTune`, which only choose what is published; the
  codecs of one-word bit fields.
- message_vector_csv_pdu, rftap_encap, the message file sinks, the numeric
  blocks and the debug blocks: each message or window is converted on its own,
  and what is wrong with one does not reach the next. Build scripts, bindings,
  GRC and the generated code under `docs/doxygen`, which is most of the
  repository's Python, have no behaviour to model; the `qa_*.py` tests are what
  the models were read with.

### 5.2 Where code and documentation differ

Found while modelling; the properties of the runs except each case by name (the
comment at the property says how) and the model follows the code through it. A
formula in parentheses is in the module and states what the documentation says;
TLC refutes it when it takes the place of the properties in a configuration of
that module's run (`SingleFile` with 0 among `NSampleChoices`).

- file_sink: after the end of a burst the sink still waits for one, and a second
  burst is not recorded (`lib/file_sink_impl.cc:357` against
  `file_sink_impl.h:45`; `BurstBeingRecorded`). What it gets from then on it writes
  to a closed stream; the writer counts it (`file_writer_base.cc:213`), and at the
  next end-of-burst tag or stop it announces a file without a name that does not
  exist, with a time and a count. With a file size it may also roll over: then
  files are opened that start anywhere. A reconfiguration inside a burst reads
  `burst_tags[0]` of an empty vector (`:362`). `set_nsamples(0)` inside a write
  makes `write()` roll over for ever (`file_writer_base.cc:203,223` against
  `file_sink.h:35`; `SingleFile`). `set_nsamples` between the reads of `d_nsamples`
  and `d_T` of one opening (`:150` and `:155`, `:223` and `:236`), or seen between
  its own two assignments (`file_writer_base.h:173`), stamps the files after that one
  with a wrong time, until the writer is started again. `set_mode` inside a burst
  leaves its file open, since triggered mode does not set `d_recording`
  (`file_sink_impl.cc:598,573`; `NewModeNotRecording`): the next start opens it
  again, which fails, and what is written then is counted and lost, or samples of
  another burst are put behind a gap. A manual recording started in the window of a
  later rx_time tag takes that tag's time (`:503`); no property speaks of that case.
- block_buffer: `set_pass_data` inside a block leaves a gap in it
  (`block_buffer_impl.cc:137` against `block_buffer.h:20`; `ContinuousBlock`).
  The skip count of a first block that starts late wraps around (`:313`;
  `SkipCount`). An overflow tag with no rx_time tag in its window makes the block
  take the last of an empty vector (`:206-209`, `:234`), which ends it; in the window
  of a single rx_time tag that starts the buffer overflow tags are not looked at
  (`:226`), so that a block may span one. The time of a block after a skip is
  estimated with the rate given to the constructor (`:325`), which rx_rate tags do not
  change (`:164-173`).
- file_monitor: copying turned off and on again may never copy
  (`file_monitor.py:144`; run `file_monitor_copy_dead`). `set_copy(True)` may raise
  behind its work: the logging call of `:96` has two arguments.
- file_archiver: once a copy was taken away, an extension may be used again and
  a copy overwritten (`file_archiver.py:120`).
- file_source: the call that opens the next file may say that the source is done
  (`file_source_impl.cc:414`; `DoneWhenPlayed`).
- tune_gate: a request that `publish()` reads ahead of while it finishes a block
  begun in an earlier window is not heard (`tune_gate.py:30,154`;
  `RequestAlwaysHeard`). Tags of other keys are counted twice in `n_since`
  (`:258`): timeouts come early, and with two such tags the loop may run for
  ever. With less room than a block the output comes in pieces and the array
  assignment may raise (`:297-307`). The test that aborts a timeout's block
  compares against a tag already relative to the window (`:288`). An early return
  leaves `nout_total` behind (`:311-313`). A change of rate among samples thrown
  away in a later window is split at an absolute offset (`:131`), and a rate tag
  that `publish()` takes ahead counts for samples before it (`:154`). Lowering
  `n_discard` during a discard moves the read index back. `discard()` reads it three
  times without a lock (`:122`, `:138`, `:144`): tags and delay may be those of
  fewer or more samples than are thrown away, the block may start beyond the end of
  the window, from where the next call steps back, and a negative `n_since` may make
  a later array assignment raise. The flag of a timeout's block may be left set and
  makes the gate give up the block of a later request (`:288-291`;
  `RequestAnswered` excepts it).
- python_message_interface: the reader may empty the queue between
  `put_nowait` and `get`, and `queue.Empty` leaves the handler
  (`python_message_interface.py:62`). python_interface_sink queues views of the
  scheduler's buffer for `vec_len > 1` (`python_interface_sink.py:63`).
- csv_reader: `bool("False")` is true (`csv_reader.py:90` against `:40`;
  `BoolRoundTrip`). `stop()` leaves a timer armed that raises on the closed file
  (`:196`), a reader started again reads the closed file, and `set_fname` changes
  file and header without the lock (`:229`). csv_writer: with a precision no
  newline is written (`csv_writer.py:186`), and a second run of the flowgraph in
  find mode writes an empty header (`:200`). A cell with a comma in it is written as
  it is and read as two, and a space in front of one is dropped: `Csv` has no such
  cells, so `RoundTrip` does not speak of them.
- tagged_bits_to_bytes: two burst tags on one bit stop the block
  (`tagged_bits_to_bytes_impl.cc:262`); `set_little_endian_flag` inside a byte shifts
  bits of it out, since `packbuffer` reads the flag for every bit without a lock
  (`:149`, `:88-91`); rx_time tags are shifted from the
  offset they were moved to (`:304` against `:297`; `RxTimeShifted`); padding on
  the left with the least significant bit first shifts data out; the tags of a
  dropped stub that held no whole item ride on the next item.
- VITA receiver: a client that leaves inside a word or a packet leaves half of
  it for the next (`vitarx.cpp:200`); a mixed context packet may end the program
  (`ContextPacket.cpp`, `at()`); a packet without payload and without
  fractional time takes the next header with it, one with a trailer and no
  payload is lost (`VRTPacket.cpp`); `start()` may succeed with the thread ended
  (`vitarx.cpp:60` against `:50`; `StartedReceives`); with the socket always on a
  message may go out after `stop()`.
- message_vector_csv_pdu (not modelled): `set_max_history` assigns to the
  read-only `maxlen` of a deque (`message_vector_csv_pdu.py:94`), and a key is
  added outside the mutex (`:118`).

## 6. Plan

1. FileSink in place of `Announce` in RecordChain.
2. An abstract receiver (each client's packets are delivered in order, whole),
   which VitaRx implements while nothing is spoiled.
3. message_vector_csv_pdu's history per key, if the block is extended.
