----------------------------- MODULE StreamGate -----------------------------
(***************************************************************************)
(* The stream_gate block (lib/stream_gate_impl.{h,cc}): it passes its input *)
(* on, drops it or leaves it in the buffer, and moves the tags it passes on *)
(* back by the samples it dropped.                                          *)
(*                                                                         *)
(* general_work() and the setters hold d_setlock, so each is one step.      *)
(* A sample is its offset in the input.                                     *)
(***************************************************************************)
EXTENDS GatedStream, Integers, Sequences, FiniteSets

CONSTANTS StreamLen,  \* samples of the input
          TagSets     \* the sets of tags it may carry: [of, key, copy] records

ASSUME GateAssumption ==
  /\ StreamLen \in Nat
  /\ \A ts \in TagSets : \A t \in ts : t.of \in 0 .. StreamLen - 1

VARIABLES
  tags,       \* the tags of the input
  flow,       \* d_flow_data
  consume,    \* d_consume_data
  dropped,    \* d_dropped_samples
  nread       \* nitems_read(0)
gateVars == <<tags, flow, consume, dropped, nread, mid, midTags>>

GateInit ==
  /\ tags \in TagSets /\ flow \in BOOLEAN /\ consume \in BOOLEAN
  /\ dropped = 0 /\ nread = 0 /\ mid = <<>> /\ midTags = {}

set_flow_data ==
  /\ flow' = ~flow
  /\ UNCHANGED <<tags, consume, dropped, nread, mid, midTags>>

set_consume_data ==
  /\ consume' = ~consume
  /\ UNCHANGED <<tags, flow, dropped, nread, mid, midTags>>

GateWindow(n) == {t \in tags : t.of \in nread .. nread + n - 1}

\* tag.offset -= d_dropped_samples; mutant: the offset of the input is kept.
InputOffset(t) == [at |-> t.of, tag |-> t]
Moved(t) == [at |-> t.of - dropped, tag |-> t]

Flow(n) ==
  /\ flow
  /\ midTags' = midTags \union {Moved(t) : t \in GateWindow(n)}
  /\ mid' = mid \o [i \in 1 .. n |-> nread + i - 1]
  /\ nread' = nread + n
  /\ UNCHANGED <<tags, flow, consume, dropped>>

Drop(n) ==
  /\ ~flow /\ consume
  /\ dropped' = dropped + n /\ nread' = nread + n
  /\ UNCHANGED <<tags, flow, consume, mid, midTags>>

\* A call while the gate holds its input sleeps and changes nothing.
Gate == \E n \in 1 .. StreamLen - nread : Flow(n) \/ Drop(n)

GateNext == set_flow_data \/ set_consume_data \/ Gate

GateSpec == GateInit /\ [][GateNext]_gateVars

\* The tags come out on the samples they came in on, however the gate was worked
\* in between, and the samples come out in order and once.
TagsFollowSamples ==
  /\ \A m \in midTags : m.at \in 0 .. Len(mid) - 1 /\ mid[m.at + 1] = m.tag.of
  /\ \A t \in tags : \A i \in 1 .. Len(mid) :
       mid[i] = t.of => [at |-> i - 1, tag |-> t] \in midTags
  /\ \A i, j \in 1 .. Len(mid) : i < j => mid[i] < mid[j]
=============================================================================
