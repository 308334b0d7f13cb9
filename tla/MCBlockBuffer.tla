--------------------------- MODULE MCBlockBuffer ----------------------------
(***************************************************************************)
(* Streams and values for the runs of BlockBuffer.                         *)
(***************************************************************************)
EXTENDS BlockBuffer

TagSets == {{"rx_time"}, {"rx_time", "overflow"}, {"rx_time", "no_overflow"}}
LoneTags == {{"overflow"}, {"no_overflow"}, {"rx_rate"}}

Tags(s) == {s[i] : i \in Offsets} \ {{}}

(* Streams with tags on two offsets at most: rx_time tags, or one tag that *)
(* is none and perhaps a plain rx_time tag.                                *)
SourceStreams ==
  {s \in [Offsets -> TagSets \cup LoneTags \cup {{}}] :
     /\ Cardinality({i \in Offsets : s[i] # {}}) <= 2
     /\ Cardinality({i \in Offsets : s[i] \in LoneTags}) <= 1
     /\ Tags(s) \subseteq TagSets \/ Tags(s) \subseteq LoneTags \cup {{"rx_time"}}}

(* A rate or frequency change at one offset, without overflows.            *)
RetuneStreams ==
  {s \in [Offsets -> {{}, {"rx_time"}}] : Cardinality({i \in Offsets : s[i] # {}}) = 1}

PlainStreams == {[i \in Offsets |-> {}]}

(* Times that jump at each tag.                                            *)
Times == [i \in Offsets |-> 20 * (i + 1)]
Periods == [i \in Offsets |-> 3]

=============================================================================
