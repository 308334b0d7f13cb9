----------------------------- MODULE CsvReader -----------------------------
(***************************************************************************)
(* csv_reader.py: a chain of timers, each of which reads a line, publishes  *)
(* it as a PDU and arms the next.  The threads are the timers' (get_line    *)
(* holds the lock), the block's (start, stop) and the application's, whose  *)
(* set_fname replaces the file and the header without the lock.             *)
(***************************************************************************)
EXTENDS Csv

CONSTANTS KeyLists,   \* values of key_list
          MaxTicks,   \* calls of get_line
          MaxSets,    \* calls of set_fname and set_repeat
          SwitchTo,   \* files set_fname may be given
          MaxRuns     \* runs of the flowgraph the reader is in

FileName == {"main", "other"}

ASSUME ReaderAssumption == SwitchTo \subseteq FileName

VARIABLES
  lines,       \* the lines of the files, by name; "none" is no file
  has_header, key_list,
  rfid,        \* self.fid: file, position of the next line, open
  rheader,     \* self.header
  repeat,
  timer,       \* self.timer: "none", "armed" or "spent"
  strays,      \* timers armed that self.timer has forgotten
  waiting,     \* timer threads that wait for the lock
  lock,        \* "free" or "line" (stop() takes it for one step only)
  get_line,    \* the call that holds the lock: where it is, and the line it has read
  setting,     \* where set_fname is: the file, and "idle", "open", "clear", "read"
  running,     \* "no", "yes", or "stopping" (timer cancelled, file still open)
  published,   \* what went out: file, line number and PDU
  ticks, sets, runs,
  mixed        \* a set_fname and a get_line have overlapped   (history)
readerVars == <<lines, has_header, key_list, rfid, rheader, repeat, timer, strays, waiting, lock,
                get_line, setting, running, published, ticks, sets, runs, mixed>>

NoLine   == [pc |-> "idle", n |-> 0]
Opened(name) == [name |-> name, pos |-> 1, open |-> TRUE]

\* load_header without its readline: what the header becomes
HeaderIn(f) == IF has_header THEN LoadHeader(LineAt(lines[f.name], f.pos), key_list) ELSE <<>>
AfterHeader(f) == IF has_header THEN [f EXCEPT !.pos = @ + 1] ELSE f

ReaderInit ==
  /\ lines = [f \in FileName |-> <<>>] /\ has_header = FALSE /\ key_list = {}
  /\ rfid = [name |-> "none", pos |-> 1, open |-> FALSE] /\ rheader = <<>> /\ repeat = FALSE
  /\ timer = "none" /\ strays = 0 /\ waiting = 0 /\ lock = "free" /\ get_line = NoLine
  /\ setting = [name |-> "none", pc |-> "idle"] /\ running = "no" /\ published = <<>>
  /\ ticks = 0 /\ sets = 0 /\ runs = 0 /\ mixed = FALSE

\* __init__, which opens the file and loads its header
Construct(main, other, header) ==
  /\ rfid.name = "none"
  /\ lines' = [f \in FileName |-> IF f = "main" THEN main ELSE other]
  /\ has_header' = header
  /\ \E k \in IF header THEN KeyLists ELSE {{}}, r \in BOOLEAN : key_list' = k /\ repeat' = r
  /\ rfid' = [Opened("main") EXCEPT !.pos = IF header THEN 2 ELSE 1]
  /\ rheader' = IF header THEN LoadHeader(LineAt(main, 1), key_list') ELSE <<>>
  /\ UNCHANGED <<timer, strays, waiting, lock, get_line, setting, running, published,
                 ticks, sets, runs, mixed>>

(***************************************************************************)
(* The thread of the block.                                                 *)
(***************************************************************************)
\* self.timer = threading.Timer(..); an armed one before it runs on
Armed == timer' = "armed" /\ strays' = IF timer = "armed" THEN strays + 1 ELSE strays

Start ==
  /\ running = "no" /\ rfid.name # "none" /\ runs < MaxRuns
  /\ running' = "yes" /\ runs' = runs + 1 /\ Armed
  /\ UNCHANGED <<lines, has_header, key_list, rfid, rheader, repeat, waiting, lock, get_line,
                 setting, published, ticks, sets, mixed>>

\* self.timer.cancel(): nothing if the timer has fired
StopCancel ==
  /\ running = "yes"
  /\ running' = "stopping" /\ timer' = "spent"
  /\ UNCHANGED <<lines, has_header, key_list, rfid, rheader, repeat, strays, waiting, lock,
                 get_line, setting, published, ticks, sets, runs, mixed>>

\* stop() closes the file; mutant: it relies on the timer.
LeftOpen(f) == f
Closed(f) == [f EXCEPT !.open = FALSE]

StopClose ==
  /\ running = "stopping" /\ lock = "free"
  /\ running' = "no" /\ rfid' = Closed(rfid)
  /\ UNCHANGED <<lines, has_header, key_list, rheader, repeat, timer, strays, waiting, lock,
                 get_line, setting, published, ticks, sets, runs, mixed>>

(***************************************************************************)
(* The timers' threads.                                                     *)
(***************************************************************************)
Fire ==
  /\ timer = "armed" \/ strays > 0
  /\ IF timer = "armed" THEN timer' = "spent" /\ UNCHANGED strays
     ELSE strays' = strays - 1 /\ UNCHANGED timer
  /\ waiting' = waiting + 1
  /\ UNCHANGED <<lines, has_header, key_list, rfid, rheader, repeat, lock, get_line, setting,
                 running, published, ticks, sets, runs, mixed>>

\* readline raises on a closed file, which ends the chain; mutant: it goes on.
RaiseCaught == "arm"
Raise       == "release"

\* with self.lock: readline
ReadLine ==
  /\ waiting > 0 /\ lock = "free" /\ (ticks < MaxTicks \/ ~ rfid.open)
  /\ waiting' = waiting - 1
  /\ lock' = "line"
  /\ IF rfid.open
     THEN /\ ticks' = ticks + 1
          /\ rfid' = [rfid EXCEPT !.pos = IF @ <= Len(lines[rfid.name]) THEN @ + 1 ELSE @]
          /\ get_line' = [pc |-> IF rfid.pos <= Len(lines[rfid.name]) THEN "parse" ELSE "end",
                          n |-> rfid.pos, name |-> rfid.name]
     ELSE get_line' = [NoLine EXCEPT !.pc = Raise] /\ UNCHANGED <<ticks, rfid>>
  /\ mixed' = (mixed \/ setting.pc # "idle")
  /\ UNCHANGED <<lines, has_header, key_list, rheader, repeat, timer, strays, setting, running,
                 published, sets, runs>>

\* The timer goes on after a line; mutant: only at the end of the file.
NotAgain == "release"
Again    == "arm"

ParseAndPublish ==
  /\ get_line.pc = "parse"
  /\ published' = Append(published, [name |-> get_line.name, n |-> get_line.n,
                                     pdu |-> ParseLine(rheader, lines[get_line.name][get_line.n])])
  /\ get_line' = [get_line EXCEPT !.pc = Again]
  /\ UNCHANGED <<lines, has_header, key_list, rfid, rheader, repeat, timer, strays, waiting, lock,
                 setting, running, ticks, sets, runs, mixed>>

\* At the end of the file: back to its first line if it repeats, else the chain ends.
\* Mutant: the header is not loaded again.
ArmAtOnce == "arm"
LoadAgain == "load"
EndOfFile ==
  /\ get_line.pc = "end"
  /\ IF repeat THEN rfid' = [rfid EXCEPT !.pos = 1] /\ get_line' = [get_line EXCEPT !.pc = LoadAgain]
     ELSE get_line' = [get_line EXCEPT !.pc = "release"] /\ UNCHANGED rfid
  /\ UNCHANGED <<lines, has_header, key_list, rheader, repeat, timer, strays, waiting, lock,
                 setting, running, published, ticks, sets, runs, mixed>>

ReloadHeader ==
  /\ get_line.pc = "load"
  /\ rheader' = HeaderIn(rfid) /\ rfid' = AfterHeader(rfid)
  /\ get_line' = [get_line EXCEPT !.pc = "arm"]
  /\ UNCHANGED <<lines, has_header, key_list, repeat, timer, strays, waiting, lock, setting,
                 running, published, ticks, sets, runs, mixed>>

ArmAndRelease ==
  /\ get_line.pc \in {"arm", "release"}
  /\ IF get_line.pc = "arm" THEN Armed ELSE UNCHANGED <<timer, strays>>
  /\ lock' = "free" /\ get_line' = NoLine
  /\ UNCHANGED <<lines, has_header, key_list, rfid, rheader, repeat, waiting, setting, running,
                 published, ticks, sets, runs, mixed>>

GetLine == ReadLine \/ ParseAndPublish \/ EndOfFile \/ ReloadHeader \/ ArmAndRelease

(***************************************************************************)
(* The application's thread.                                                *)
(***************************************************************************)
SetFname ==
  /\ rfid.name # "none" /\ setting.pc = "idle" /\ sets < MaxSets
  /\ sets' = sets + 1
  /\ \E f \in SwitchTo : setting' = [name |-> f, pc |-> "open"]
  /\ mixed' = (mixed \/ lock = "line")
  /\ UNCHANGED <<lines, has_header, key_list, rfid, rheader, repeat, timer, strays, waiting, lock,
                 get_line, running, published, ticks, runs>>

\* self.fid = open(..), and load_header: the header is emptied, then read and set
SetFnameStep ==
  /\ \/ /\ setting.pc = "open" /\ rfid' = Opened(setting.name)
        /\ setting' = [setting EXCEPT !.pc = "clear"] /\ UNCHANGED rheader
     \/ /\ setting.pc = "clear" /\ rheader' = <<>>
        /\ setting' = [setting EXCEPT !.pc = "read"] /\ UNCHANGED rfid
     \/ /\ setting.pc = "read" /\ rheader' = HeaderIn(rfid) /\ rfid' = AfterHeader(rfid)
        /\ setting' = [setting EXCEPT !.pc = "idle"]
  /\ UNCHANGED <<lines, has_header, key_list, repeat, timer, strays, waiting, lock, get_line,
                 running, published, ticks, sets, runs, mixed>>

SetRepeat ==
  /\ rfid.name # "none" /\ sets < MaxSets
  /\ sets' = sets + 1 /\ repeat' = ~ repeat
  /\ UNCHANGED <<lines, has_header, key_list, rfid, rheader, timer, strays, waiting, lock,
                 get_line, setting, running, published, ticks, runs, mixed>>

ReaderNext == \/ Start \/ StopCancel \/ StopClose
              \/ Fire \/ GetLine
              \/ SetFname \/ SetFnameStep \/ SetRepeat
=============================================================================
