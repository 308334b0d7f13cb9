------------------------------ MODULE TuneGate ------------------------------
(***************************************************************************)
(* The tune_gate block (python/sandia_utils/tune_gate.py): after a          *)
(* tune_request tag it throws NDiscard samples away and publishes the next  *)
(* NPub, after a publish tag it publishes at once, and after NTimeout       *)
(* samples without a tag it publishes by itself.  The scheduler cuts the    *)
(* input into windows where it likes; one call of general_work walks one    *)
(* window event by event, and here every turn of its loop is an action, with *)
(* discard(), publish() and the filling of the output as actions it goes on *)
(* to (pc).                                                                 *)
(*                                                                         *)
(* set_n_discard takes no lock.  It falls between any two actions, and      *)
(* between the three reads of n_discard in one discard(): nobody sees the   *)
(* block there, so discard() is one action, in which each read may find     *)
(* another value.                                                           *)
(*                                                                         *)
(* A sample is its offset in the input.  A rate tag carries RatePeriod, the *)
(* sample period from then on (1 before), and a foreign tag is a tag with   *)
(* any other key.                                                           *)
(***************************************************************************)
EXTENDS Integers, Sequences, FiniteSets, SequencesExt

CONSTANTS NIn,          \* length of the input
          MaxTags,      \* tags in the input
          MaxWindow,    \* samples a call is given at most
          OutLens,      \* output items a call is given room for
          NPub, NDiscards, NTimeout,   \* block parameters, values set_n_discard may get
          MaxSets,      \* calls of set_n_discard
          RatePeriod

ASSUME SizesAssumption ==
  /\ NIn \in Nat /\ MaxTags \in Nat /\ MaxWindow \in Nat /\ MaxSets \in Nat
  /\ NPub \in Nat \ {0} /\ NTimeout \in Nat \ {0} /\ RatePeriod \in Nat
  /\ NDiscards \subseteq Nat /\ OutLens \subseteq Nat \ {0}

Requests == {"tune", "pub"}
Keys     == Requests \union {"rate", "foreign"}
Tag      == [at : 0 .. NIn - 1, key : Keys]

VARIABLES
  stream,      \* the tags of the input, in order
  n_discard,   \* the parameter set_n_discard changes
  sets,        \* calls of set_n_discard so far
  g,           \* the fields of the block and the locals of general_work
  waited,      \* samples passed over while waiting             (history)
  thrown,      \* samples thrown away                          (history)
  overread,    \* tags taken ahead of the end of a block that began in an
               \* earlier window                                (history)
  rewound,     \* the read index has gone backwards in a window, or a
               \* discard past its end, from where it goes back  (history)
  torn         \* set_n_discard fell between two reads of a discard (history)
vars == <<stream, n_discard, sets, g, waited, thrown, overread, rewound, torn>>

Lesser(a, b) == IF a < b THEN a ELSE b

NoEvent == [at |-> 0, key |-> "none", value |-> 0]

InitialGate ==
  [read |-> 0,                                        \* nitems_read(0)
   state |-> "wait", n_since |-> 0, out_buf |-> <<>>, event_tag |-> NoEvent,
   out_offset |-> 0, nout_total |-> 0, pubtimeout |-> FALSE,
   samp_period |-> 1, rx_delay |-> 0,
   pc |-> "idle", in_len |-> 0, out_len |-> 0, nread |-> 0, nout |-> 0, tags |-> <<>>,
   out |-> <<>>, events |-> <<>>,                     \* what the output port has received
   passed |-> {}]                                     \* tags forwarded to the output

\* position in the input the block has read up to
Position(b) == b.read + b.nread

(***************************************************************************)
(* Helpers.                                                                 *)
(***************************************************************************)
\* input[i:j] of a Python list of length n holding the samples from b.read on
Bound(i, n)     == IF i < 0 THEN (IF i + n < 0 THEN 0 ELSE i + n) ELSE Lesser(i, n)
Slice(b, i, j)  == LET lo == Bound(i, b.in_len)
                       hi == Bound(j, b.in_len)
                   IN  [k \in 1 .. (IF hi > lo THEN hi - lo ELSE 0) |-> b.read + lo + k - 1]

\* self.tags[tags_read:] where the tags with offset - nread < limit + nitems_read are read
TagsRead(b, limit) == {i \in DOMAIN b.tags : b.tags[i].at - b.nread < limit + b.read}
NoTagsLeft(b, limit) == <<>>                      \* mutant: none are kept
TagsLeft(b, limit) == SubSeq(b.tags, Cardinality(TagsRead(b, limit)) + 1, Len(b.tags))

\* Of n samples, those still to throw away; mutant: those of earlier windows count again.
OwedAgain(b, n) == n
Owed(b, n) == n - b.n_since

\* What is known of a block that the window cuts; mutant: nothing is.
Forgotten(b) == b.n_since
Counted(b) == b.n_since + (b.in_len - b.nread)

\* The output offset of a forwarded tag; mutant: the samples before the block count.
OffsetInWindow(b, t) == b.nout_total + b.nout + t.at - b.read
OutputOffset(b, t) == b.nout_total + b.nout - b.nread + t.at - b.read

\* The time samples take in which the rate changes at the split; mutant: it does not change.
DelayAtOnce(b, left, split, next) == left * b.samp_period
Delay(b, left, split, next) == split * b.samp_period + (left - split) * next

\* The buffer of an aborted block; mutant: it keeps its samples.
KeptBuffer(b) == b.out_buf
AbortedBuffer(b) == <<>>

\* The tags once the first is dealt with; mutant: it stays.
SameTags(b) == b.tags
NextTags(b) == Tail(b.tags)

\* nitems_read after a call consumed n items; mutant: consume_each is called twice.
ConsumedTwice(b, n) == b.read + 2 * n
Consumed(b, n) == b.read + n

Raised(b) == [b EXCEPT !.pc = "raised"]

\* discard(): throw away up to n_discard samples; publish() is next if they were all
\* there.  n_discard is read for the tags and the delay, then for the test whether
\* they are all there, then for the move.
Discard(b0, test, move) ==
  LET b     == IF b0.state = "wait" THEN [b0 EXCEPT !.n_since = 0] ELSE b0
      here  == b.in_len - b.nread
      left  == Lesser(Owed(b, n_discard), here)
      rates == {i \in TagsRead(b, left) : b.tags[i].key = "rate"}
      \* the code splits the time at the tag's offset less nread, an absolute
      \* number unless the window is the first
      split == IF rates = {} THEN left ELSE b.tags[Min(rates)].at - b.nread
      next  == IF rates = {} THEN b.samp_period ELSE RatePeriod
      c     == [b EXCEPT !.tags = TagsLeft(b, left),
                         !.samp_period = next,
                         !.rx_delay = @ + Delay(b, left, split, next)]
  IN  IF Owed(b, test) > here
      THEN [c EXCEPT !.n_since = Counted(b), !.nread = b.in_len, !.state = "discard", !.pc = "work"]
      ELSE [c EXCEPT !.n_since = 0, !.nread = @ + Owed(b, move), !.state = "wait", !.pc = "publish"]

\* the other tags publish() forwards, at the output offset it computes; exact
\* says the block starts here, is not a timeout's, and no output went uncounted
Forwarded(b) ==
  {[pos |-> OutputOffset(b, b.tags[i]), at |-> b.tags[i].at,
    exact |-> /\ b.n_since = 0 /\ b.out_buf = <<>> /\ ~ b.pubtimeout
              /\ b.nout_total + b.nout = Len(b.out)] :
     i \in {j \in TagsRead(b, NPub) : b.tags[j].key \notin Requests}}

\* publish(): move samples to out_buf; a complete publication goes out next
Publish(b0) ==
  LET b     == IF b0.state = "wait" THEN [b0 EXCEPT !.n_since = 0] ELSE b0
      here  == b.in_len - b.nread
      c     == [b EXCEPT !.tags = TagsLeft(b, NPub),
                         !.passed = @ \union Forwarded(b),
                         !.samp_period = IF \E i \in TagsRead(b, NPub) : b.tags[i].key = "rate"
                                         THEN RatePeriod ELSE @]
  IN  IF b.n_since + here < NPub
      THEN [c EXCEPT !.n_since = Counted(b), !.nread = b.in_len, !.state = "publish",
                     !.pc = "work", !.out_buf = @ \o Slice(b, b.nread, b.in_len)]
      ELSE [c EXCEPT !.n_since = 0, !.nread = @ + (NPub - b.n_since), !.state = "wait",
                     !.pc = "fill",
                     !.out_buf = @ \o Slice(b, b.nread, b.nread + NPub - Len(@))]

\* consume_each(nread) and return to the scheduler
Return(b, consumed) ==
  [b EXCEPT !.read = Consumed(b, consumed), !.pc = "idle", !.nread = 0, !.nout = 0,
            !.in_len = 0, !.out_len = 0, !.tags = <<>>]

\* what a turn of the loop does with fill_out_buf set
FillOutBuf(b) ==
  IF Len(b.out_buf) > b.out_len
  THEN Return([b EXCEPT !.out = @ \o SubSeq(b.out_buf, 1, b.out_len),
                        !.out_buf = SubSeq(@, b.out_len + 1, Len(@)),
                        !.state = "publish",
                        !.out_offset = @ + b.out_len], b.nread)
  ELSE IF Len(b.out_buf) # NPub THEN [b EXCEPT !.pc = "raised"]   \* numpy refuses the assignment
  ELSE LET c == [b EXCEPT !.pc = "work", !.nout = @ + NPub, !.out = @ \o b.out_buf,
                          !.out_buf = <<>>, !.events = Append(@, b.event_tag),
                          !.out_offset = @ + NPub]
       IN  IF c.nout + NPub > c.out_len THEN Return(c, c.nread) ELSE c

(***************************************************************************)
(* Initial state and the scheduler's call.                                  *)
(***************************************************************************)
Streams == {<<>>} \union
           {q \in UNION {[1 .. n -> Tag] : n \in 1 .. MaxTags} :
              \A i \in 1 .. Len(q) - 1 : q[i].at <= q[i + 1].at}

Init ==
  /\ stream \in Streams
  /\ n_discard \in NDiscards /\ sets = 0
  /\ g = InitialGate
  /\ waited = {} /\ thrown = {} /\ overread = {} /\ rewound = FALSE /\ torn = FALSE

\* get_tags_in_window(): the tags of the samples from lo up to hi, in their order
TagsIn(lo, hi) ==
  SubSeq(stream, Cardinality({i \in DOMAIN stream : stream[i].at < lo}) + 1,
                 Cardinality({i \in DOMAIN stream : stream[i].at < hi}))

\* general_work is entered with a window of the input
Call ==
  /\ g.pc = "idle"
  /\ \E n \in 1 .. MaxWindow, m \in OutLens :
       /\ g.read + n <= NIn
       /\ g' = [g EXCEPT !.pc = "work", !.in_len = n, !.out_len = m,
                        !.tags = TagsIn(g.read, g.read + n)]
  /\ UNCHANGED <<stream, n_discard, sets, waited, thrown, overread, rewound, torn>>

\* set_n_discard, from a thread of the application
SetNDiscard ==
  /\ sets < MaxSets
  /\ \E n \in NDiscards \ {n_discard} : n_discard' = n
  /\ sets' = sets + 1
  /\ UNCHANGED <<stream, g, waited, thrown, overread, rewound, torn>>

(***************************************************************************)
(* The turns of the loop.                                                   *)
(***************************************************************************)
Looping == g.pc = "work" /\ g.nread < g.in_len

next_tag == IF g.tags # <<>> THEN g.tags[1].at - g.read ELSE g.in_len + NPub + 1
next_timeout == NTimeout - g.n_since + g.nread

\* argmin of next_tag, next_timeout and the end of the window: the first wins a tie
TagNext     == next_tag <= next_timeout /\ next_tag <= g.in_len
TimeoutNext == ~ TagNext /\ next_timeout <= g.in_len

\* the gate becomes b; the samples in between count as waited for or not
Advance(b, waiting) ==
  /\ g' = b
  /\ waited' = IF waiting THEN waited \union (Position(g) .. Position(b) - 1) ELSE waited
  /\ rewound' = (rewound \/ Position(b) < Position(g))
  /\ UNCHANGED <<stream, n_discard, sets, torn>>

Waiting == Looping /\ g.state = "wait" /\ UNCHANGED <<thrown, overread>>

\* the gate at the event that starts a block
AtEvent(key, nread, next) ==
  [g EXCEPT !.nread = nread, !.pc = next,
            !.event_tag = [at |-> g.out_offset, key |-> key, value |-> g.read + nread]]

TuneTag ==
  /\ Waiting /\ TagNext /\ g.tags[1].key = "tune"
  /\ Advance(AtEvent("tune", next_tag, "discard"), TRUE)

PubTag ==
  /\ Waiting /\ TagNext /\ g.tags[1].key = "pub"
  /\ Advance(AtEvent("pub", next_tag, "publish"), TRUE)

RateTag ==
  /\ Waiting /\ TagNext /\ g.tags[1].key = "rate"
  /\ Advance([g EXCEPT !.samp_period = RatePeriod, !.n_since = @ + (next_tag - g.nread),
                       !.nread = next_tag, !.tags = NextTags(g)], TRUE)

\* the count since the last event grows by the tag's place in the window
ForeignTag ==
  /\ Waiting /\ TagNext /\ g.tags[1].key = "foreign"
  /\ Advance([g EXCEPT !.n_since = @ + next_tag, !.nread = next_tag, !.tags = NextTags(g)], TRUE)

\* a tag within the block a timeout would publish is waited for instead
TimeoutNearTag ==
  /\ Waiting /\ TimeoutNext /\ next_tag < next_timeout + NPub
  /\ Advance([g EXCEPT !.nread = next_tag], TRUE)

Timeout ==
  /\ Waiting /\ TimeoutNext /\ next_tag >= next_timeout + NPub
  /\ Advance([AtEvent("timeout", next_timeout, "publish") EXCEPT !.pubtimeout = TRUE], TRUE)

EndOfBlock ==
  /\ Waiting /\ ~ TagNext /\ ~ TimeoutNext
  /\ Advance([g EXCEPT !.n_since = @ + (g.in_len - g.nread), !.nread = g.in_len], TRUE)

DiscardSamples ==
  /\ \/ g.pc = "discard"
     \/ Looping /\ g.state = "discard"
  /\ \E test, move \in NDiscards :
       LET calls == (IF test # n_discard THEN 1 ELSE 0) + (IF move # test THEN 1 ELSE 0)
       IN  /\ g' = Discard(g, test, move)
           /\ sets' = sets + calls
           /\ sets' <= MaxSets
           /\ n_discard' = move
           /\ torn' = (torn \/ calls > 0)
  /\ thrown' = thrown \union (Position(g) .. Position(g') - 1)
  /\ rewound' = \/ rewound
                 \/ Position(g') \notin Position(g) .. g.read + g.in_len
  /\ UNCHANGED <<stream, waited, overread>>

\* next_tag counts from the window already: less nitems_read again it is early
TagIgnored == FALSE                                  \* mutant
TagEndsTimeout == g.pubtimeout /\ NPub - g.n_since + g.nread > next_tag - g.read

AbortTimeout ==
  /\ Looping /\ g.state = "publish" /\ TagEndsTimeout
  /\ Advance([g EXCEPT !.nread = next_tag, !.out_buf = AbortedBuffer(g), !.state = "wait",
                       !.pubtimeout = FALSE, !.n_since = 0], FALSE)
  /\ UNCHANGED <<thrown, overread>>

PublishSamples ==
  /\ \/ g.pc = "publish"
     \/ Looping /\ g.state = "publish" /\ ~ TagEndsTimeout
  /\ Advance(Publish(g), FALSE) /\ UNCHANGED thrown
  /\ overread' = overread \union
       (IF g.state = "publish"
        THEN {t \in ToSet(g.tags) \ ToSet(g'.tags) : t.at >= Position(g')}
        ELSE {})

Fill ==
  /\ g.pc = "fill"
  /\ Advance(FillOutBuf(g), FALSE)
  /\ UNCHANGED <<thrown, overread>>

\* the loop is done: the whole window is consumed
EndOfWork ==
  /\ g.pc = "work" /\ g.nread >= g.in_len
  /\ g' = Return([g EXCEPT !.nout_total = @ + g.nout], g.in_len)
  /\ UNCHANGED <<stream, n_discard, sets, waited, thrown, overread, rewound, torn>>

LoopTurn == \/ TuneTag \/ PubTag \/ RateTag \/ ForeignTag \/ TimeoutNearTag \/ Timeout
            \/ EndOfBlock \/ DiscardSamples \/ AbortTimeout \/ PublishSamples \/ Fill
            \/ EndOfWork

Next == Call \/ SetNDiscard \/ LoopTurn

\* the scheduler calls the block while there is input, and the call runs on
Fairness == WF_vars(Call) /\ WF_vars(LoopTurn)

Spec == Init /\ [][Next]_vars /\ Fairness

(***************************************************************************)
(* Properties.  The set-up gives every call room for a whole block; with    *)
(* less, out_buf is handed out in pieces and the gate publishes for ever.   *)
(***************************************************************************)
\* The fields and the locals have the types the code gives them.
TypeOK ==
  /\ stream \in Seq(Tag) /\ n_discard \in NDiscards /\ sets \in 0 .. MaxSets
  /\ g.state \in {"wait", "discard", "publish"} /\ g.pc \in {"idle", "work", "discard", "publish", "fill", "raised"}
  /\ g.read \in 0 .. NIn /\ g.nread \in Int /\ g.n_since \in Int
  /\ g.in_len \in 0 .. MaxWindow /\ g.out_len \in OutLens \union {0}
  /\ g.nout \in Nat /\ g.nout_total \in Nat /\ g.out_offset \in Nat
  /\ g.tags \in Seq(Tag) /\ g.out_buf \in Seq(0 .. NIn - 1) /\ g.out \in Seq(0 .. NIn - 1)
  /\ g.pubtimeout \in BOOLEAN /\ g.samp_period \in {1, RatePeriod}
  /\ waited \subseteq 0 .. NIn - 1 /\ rewound \in BOOLEAN /\ torn \in BOOLEAN

\* The input has tags only of the keys the gate knows.
NoForeignTag == \A i \in DOMAIN stream : stream[i].key # "foreign"

\* What is published is blocks of NPub consecutive samples, each block after
\* the one before it, however the scheduler cut the input; until the read index
\* has gone backwards (a foreign tag, n_discard lowered during a discard that the
\* windows cut, or raised between its reads past the end of the window).
BlocksInOrder ==
  ~ rewound => \A i \in 1 .. Len(g.out) - 1 :
                 IF i % NPub # 0 THEN g.out[i + 1] = g.out[i] + 1 ELSE g.out[i + 1] > g.out[i]

\* The k-th event tag sits on the first sample of the k-th block, and names the
\* tag, or the timeout, that block answers: a tune request's block starts
\* n_discard after it, the others at once.  Excepted is what follows a step
\* back, as after a discard whose last read of n_discard finds more than the
\* window holds: its block starts where the window ends (README, 5.2).
EventTagTrue ==
  ~ rewound => \A k \in DOMAIN g.events :
    LET e == g.events[k] IN
      /\ e.at = (k - 1) * NPub
      /\ \E d \in IF e.key # "tune" THEN {0} ELSE IF sets = 0 THEN {n_discard} ELSE NDiscards :
           g.out[e.at + 1] = e.value + d
      /\ e.key \in Requests => [at |-> e.value, key |-> e.key] \in ToSet(stream)

\* A block published for a timeout was waited for NTimeout samples, since the
\* last event, and no request lies in it: a tag aborts the block (tests 012, 013).
\* A timeout shorter than a block may publish what publish() took ahead of, and
\* a discard that reads n_discard twice may take requests ahead (torn).
TimeoutYields ==
  NoForeignTag /\ ~ rewound /\ ~ torn => \A k \in DOMAIN g.events :
    LET e == g.events[k] IN
      e.key = "timeout" =>
        /\ e.value - NTimeout .. e.value - 1 \subseteq waited
        /\ \A i \in DOMAIN stream :
             stream[i].key \in Requests => stream[i].at \notin e.value .. e.value + NPub - 1

\* The gate never waits across a request, until the read index has gone
\* backwards.  Excepted are the requests publish() took from the list while it
\* finished a block begun in an earlier window, and a discard in which n_discard
\* changed: it takes the tags of as many samples as it found first.
RequestHeard ==
  ~ rewound /\ ~ torn => \A i \in DOMAIN stream :
    stream[i].key \in Requests /\ stream[i].at \in waited => stream[i] \in overread

\* Without the exception: "a "tune_request" tag will discard a user-defined number
\* of samples ... and then publish the next samples" (tune_gate.py:30).
\* It does not hold (README, 5.2).
RequestAlwaysHeard ==
  \A i \in DOMAIN stream : stream[i].key \in Requests => stream[i].at \notin waited

\* Other tags are forwarded at the output offset of their sample, for a block
\* that starts in its window, as long as no call has returned before its end
\* (nout_total misses the output of such a call) and n_discard was the same
\* throughout each discard.
ForwardedInPlace ==
  ~ rewound /\ ~ torn => \A p \in g.passed :
    p.exact /\ p.pos < Len(g.out) => g.out[p.pos + 1] = p.at

\* The delay added to rx_time is the time the thrown-away samples took.  A rate
\* tag among samples thrown away after the first window is excepted: the code
\* splits their time at an absolute offset; one that publish() took ahead,
\* which counts for samples before it; and a discard in which n_discard changed,
\* whose delay is that of as many samples as it found first.
RateTags == {t \in ToSet(stream) : t.key = "rate"}
RxDelayTrue ==
  LET slow == {x \in thrown : \E t \in RateTags : t.at <= x}
  IN  /\ ~ rewound /\ ~ torn
      /\ g.read = 0 \/ \A t \in RateTags : t.at \notin thrown
      /\ RateTags \intersect overread = {}
      =>
        g.rx_delay = Cardinality(thrown) + (RatePeriod - 1) * Cardinality(slow)

\* general_work returns: the walk over the window ends.  Foreign tags are excepted:
\* two of them count the wait past NTimeout, and the loop goes between the
\* timeout and the next tag for ever.
WorkReturns == (g.pc # "idle" /\ NoForeignTag) ~> (g.pc = "idle" \/ rewound)

\* A block the gate has begun for a request it publishes, if the input holds the
\* samples it still needs.  A flag left from a timeout's block is excepted: it
\* lets the gate abort the block of a request.
Needed == IF g.state = "discard" THEN {d - g.n_since + NPub : d \in NDiscards}
          ELSE {NPub - g.n_since}
RequestAnswered ==
  (/\ g.state # "wait" /\ g.pc = "idle" /\ ~ g.pubtimeout /\ NoForeignTag
   /\ \A n \in Needed : g.read + n <= NIn)
    ~> (g.state = "wait" \/ rewound)

\* The invariants of the output, together: whole blocks in order, each under the event
\* it answers, no request waited across, other tags and delays in their place.
GateInv == TypeOK /\ BlocksInOrder /\ EventTagTrue /\ RequestHeard /\ ForwardedInPlace /\ RxDelayTrue
=============================================================================
