-------------------------- MODULE PythonInterfaces --------------------------
(***************************************************************************)
(* The two bridges from a flowgraph to the script that controls it:         *)
(* python_message_interface (python_message_interface.py) queues messages   *)
(* and makes room by taking the oldest, python_interface_sink               *)
(* (python_interface_sink.py) queues samples and stops consuming when its   *)
(* queue is full.  The threads are the handler of the one block, work() of  *)
(* the other and the script, which calls either; a queue.Queue operation is *)
(* one step, everything between two of them is open to the others.          *)
(*                                                                         *)
(* A message is its number in the order of arrival, a sample its offset.    *)
(* Samples are scalars (vec_len 1), which the queue copies; of a vector it   *)
(* would hold a view of the scheduler's buffer.                             *)
(***************************************************************************)
EXTENDS Integers, Sequences, FiniteSets, SequencesExt

CONSTANTS Messages,    \* messages that arrive
          Samples,     \* samples of the input stream
          QueueSize,   \* queue_size of the message interface
          MaxSize,     \* maxsize of the sink
          Calls        \* calls the script makes

ASSUME QueueAssumption ==
  /\ Messages \in Nat /\ Samples \in Nat /\ Calls \in Nat
  /\ QueueSize \in Nat \ {0} /\ MaxSize \in Nat \ {0}

VARIABLES
  arrived,     \* messages handed to msg_handler so far, the last is its argument
  handler,     \* where msg_handler is: "idle", "put", "full" or "raised"
  msg_queue,
  consumed,    \* samples consumed by work()
  work,        \* the call of work(): its window and index, or NoWork
  dat_queue,
  script,      \* the call the script is in, or "idle"
  calls,
  got,         \* messages the script received, in order           (history)
  evicted, flushed,  \* messages taken for room, by flush_messages (history)
  data, dropped      \* samples received in order, flushed         (history)
msgVars == <<arrived, handler, msg_queue, got, evicted, flushed>>
datVars == <<consumed, work, dat_queue, data, dropped>>
vars    == <<msgVars, datVars, script, calls>>

NoWork == [len |-> 0, i |-> 0]
MessageCalls == {"get_message", "get_message_timeout", "get_all_messages", "flush_messages"}
DataCalls    == {"get_data", "get_data_timeout", "flush_data"}

Init ==
  /\ arrived = 0 /\ handler = "idle" /\ msg_queue = <<>>
  /\ consumed = 0 /\ work = NoWork /\ dat_queue = <<>>
  /\ script = "idle" /\ calls = 0
  /\ got = <<>> /\ evicted = {} /\ flushed = {} /\ data = <<>> /\ dropped = {}

(***************************************************************************)
(* python_message_interface: the handler's loop.                            *)
(***************************************************************************)
Arrive ==
  /\ handler = "idle" /\ arrived < Messages
  /\ arrived' = arrived + 1 /\ handler' = "put"
  /\ UNCHANGED <<msg_queue, got, evicted, flushed, datVars, script, calls>>

\* Room in the queue; mutant: for one message too many.
RoomForOneMore == Len(msg_queue) <= QueueSize
Room == Len(msg_queue) < QueueSize

\* put_nowait
Put ==
  /\ handler = "put"
  /\ IF Room
     THEN msg_queue' = Append(msg_queue, arrived) /\ handler' = "idle"
     ELSE handler' = "full" /\ UNCHANGED msg_queue
  /\ UNCHANGED <<arrived, got, evicted, flushed, datVars, script, calls>>

\* The message that makes room is the oldest; mutant: the newest.
NewestOf(q) == Len(q)
VictimOf(q) == 1

\* The loop puts the message again; mutant: it is done.
GiveUp == "idle"
Again  == "put"

\* get(False); the script may have emptied the queue since, and queue.Empty escapes
Evict ==
  /\ handler = "full"
  /\ IF msg_queue = <<>>
     THEN handler' = "raised" /\ UNCHANGED <<msg_queue, evicted>>
     ELSE /\ evicted' = evicted \union {msg_queue[VictimOf(msg_queue)]}
          /\ msg_queue' = RemoveAt(msg_queue, VictimOf(msg_queue))
          /\ handler' = Again
  /\ UNCHANGED <<arrived, got, flushed, datVars, script, calls>>

Handler == Put \/ Evict

(***************************************************************************)
(* python_interface_sink: work().                                           *)
(***************************************************************************)
WorkCall ==
  /\ work = NoWork /\ consumed < Samples
  /\ \E n \in 1 .. Samples - consumed : work' = [len |-> n, i |-> 0]
  /\ UNCHANGED <<consumed, dat_queue, data, dropped, msgVars, script, calls>>

\* The items a full queue leaves unconsumed; mutant: the whole window is consumed.
AllItems(w) == w.len
QueuedItems(w) == w.i

WorkReturn(n) == consumed' = consumed + n /\ work' = NoWork

WorkPut ==
  /\ work # NoWork
  /\ IF work.i = work.len THEN WorkReturn(work.len) /\ UNCHANGED dat_queue
     ELSE IF Len(dat_queue) = MaxSize THEN WorkReturn(QueuedItems(work)) /\ UNCHANGED dat_queue
     ELSE /\ dat_queue' = Append(dat_queue, consumed + work.i)
          /\ work' = [work EXCEPT !.i = @ + 1]
          /\ UNCHANGED consumed
  /\ UNCHANGED <<data, dropped, msgVars, script, calls>>

(***************************************************************************)
(* The script.                                                              *)
(***************************************************************************)
CallOf(c) ==
  /\ script = "idle" /\ calls < Calls
  /\ script' = c /\ calls' = calls + 1
  /\ UNCHANGED <<msgVars, datVars>>

\* Is there a message?  Mutant: the last one is overlooked.
SeveralMessages == Len(msg_queue) > 1
SomeMessage == msg_queue # <<>>

\* get(True, timeout) with a message there
GetMessage ==
  /\ script \in {"get_message", "get_message_timeout"} /\ SomeMessage
  /\ got' = Append(got, Head(msg_queue)) /\ msg_queue' = Tail(msg_queue)
  /\ script' = "idle"
  /\ UNCHANGED <<arrived, handler, evicted, flushed, datVars, calls>>

\* queue.Empty: get_message returns None, get_data lets it out
TimeOut ==
  /\ \/ script = "get_message_timeout" /\ msg_queue = <<>>
     \/ script = "get_data_timeout" /\ dat_queue = <<>>
  /\ script' = "idle"
  /\ UNCHANGED <<msgVars, datVars, calls>>

\* one turn of the loops of get_all_messages and flush_messages
NextMessage ==
  /\ script \in {"get_all_messages", "flush_messages"}
  /\ IF msg_queue = <<>> THEN script' = "idle" /\ UNCHANGED <<msg_queue, got, flushed>>
     ELSE /\ msg_queue' = Tail(msg_queue)
          /\ IF script = "flush_messages"
             THEN flushed' = flushed \union {Head(msg_queue)} /\ UNCHANGED got
             ELSE got' = Append(got, Head(msg_queue)) /\ UNCHANGED flushed
          /\ UNCHANGED script
  /\ UNCHANGED <<arrived, handler, evicted, datVars, calls>>

GetData ==
  /\ script \in {"get_data", "get_data_timeout"} /\ dat_queue # <<>>
  /\ data' = Append(data, Head(dat_queue)) /\ dat_queue' = Tail(dat_queue)
  /\ script' = "idle"
  /\ UNCHANGED <<consumed, work, dropped, msgVars, calls>>

\* one turn of the loop of flush_data
FlushData ==
  /\ script = "flush_data"
  /\ IF dat_queue = <<>> THEN script' = "idle" /\ UNCHANGED <<dat_queue, dropped>>
     ELSE /\ dropped' = dropped \union {Head(dat_queue)} /\ dat_queue' = Tail(dat_queue)
          /\ UNCHANGED script
  /\ UNCHANGED <<consumed, work, data, msgVars, calls>>

ScriptStep == GetMessage \/ TimeOut \/ NextMessage \/ GetData \/ FlushData

Next == \/ Arrive \/ Handler \/ WorkCall \/ WorkPut \/ ScriptStep
        \/ \E c \in MessageCalls \union DataCalls : CallOf(c)

\* The flowgraph's threads run, and so does a call of the script once it is made.
\* Arrivals are owed nothing: a flowgraph may fall silent.
Fairness == WF_vars(Handler) /\ WF_vars(WorkCall) /\ WF_vars(WorkPut) /\ WF_vars(ScriptStep)

Spec == Init /\ [][Next]_vars /\ Fairness

(***************************************************************************)
(* Properties.                                                              *)
(***************************************************************************)
TypeOK ==
  /\ arrived \in 0 .. Messages /\ handler \in {"idle", "put", "full", "raised"}
  /\ msg_queue \in Seq(1 .. Messages) /\ Len(msg_queue) <= QueueSize
  /\ consumed \in 0 .. Samples /\ work \in [len : 0 .. Samples, i : 0 .. Samples]
  /\ dat_queue \in Seq(0 .. Samples - 1) /\ Len(dat_queue) <= MaxSize
  /\ script \in MessageCalls \union DataCalls \union {"idle"} /\ calls \in 0 .. Calls
  /\ got \in Seq(1 .. Messages) /\ evicted \subseteq 1 .. Messages /\ flushed \subseteq 1 .. Messages
  /\ data \in Seq(0 .. Samples - 1) /\ dropped \subseteq 0 .. Samples - 1

\* What was received and what is queued are, in order and once each, all there was
\* but for what has gone another way.
Handed(received, queue, gone, all) ==
  LET s == received \o queue IN
  /\ \A i, j \in 1 .. Len(s) : i < j => s[i] < s[j]
  /\ ToSet(s) \union gone = all
  /\ ToSet(s) \intersect gone = {}

\* Messages the handler is done with.
Handled == IF handler = "idle" THEN 1 .. arrived ELSE 1 .. arrived - 1

\* The script receives messages in the order they came, each once, and every
\* message the handler is done with was received, is still queued, made room for a
\* later one or was flushed; it is never lost between two threads.
MessagesAccounted ==
  /\ Handed(got, msg_queue, evicted \union flushed, Handled)
  /\ evicted \intersect flushed = {}

\* No message makes room for itself or for an older one: what is evicted is older
\* than everything that is queued, and the newest handled message is never evicted.
NewestGetsIn ==
  /\ arrived \notin evicted
  /\ \A e \in evicted : \A m \in ToSet(msg_queue) : e < m

\* The sink hands every sample on once and in order, except those flushed, although
\* a full queue stops work() in the middle of its window.
SamplesInOrder == Handed(data, dat_queue, dropped, 0 .. consumed + work.i - 1)

\* A script that waits for a message gets the one that is being handled.
GetAnswered ==
  (script = "get_message" /\ handler = "put") ~> script = "idle"
=============================================================================
