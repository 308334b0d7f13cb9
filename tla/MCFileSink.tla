----------------------------- MODULE MCFileSink -----------------------------
(***************************************************************************)
(* Streams and values for the runs of FileSink.                            *)
(***************************************************************************)
EXTENDS FileSink

Offsets == 0 .. StreamLen - 1

(* Streams that carry the given tag sets on at most n offsets.             *)
StreamsWith(tagSets, n) ==
  {s \in [Offsets -> tagSets \cup {{}}] :
     Cardinality({i \in Offsets : s[i] # {}}) <= n}

(* Reconfigurations only.                                                  *)
ManualStreams == StreamsWith({{"rx_cfg"}, {"rx_time"}}, 2)

(* Those, or a burst.                                                      *)
ModeStreams == ManualStreams \cup StreamsWith({{"sob"}, {"eob"}}, 2)

(* Bursts and one kind of reconfiguration.                                 *)
BurstStreams == StreamsWith({{"sob"}, {"eob"}, {"sob", "rx_time"}, {"rx_cfg"}}, 3)

(* Two bursts at most, and nothing else.                                   *)
PlainBurstStreams == StreamsWith({{"sob"}, {"eob"}}, 4)

(* No tags.                                                                *)
UntaggedStreams == {[i \in Offsets |-> {}]}

(* Jumps that reach every phase of the second.                             *)
Times == [i \in Offsets |-> 10 * (i + 1) + (i % Second)]

=============================================================================
