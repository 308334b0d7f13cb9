---------------------------- MODULE MCGatedBits -----------------------------
(***************************************************************************)
(* Tags and configurations for the run of GatedBits.                        *)
(***************************************************************************)
EXTENDS GatedBits

Bit == 0 .. StreamLen - 1
BurstTag(i, n) == [of |-> i, key |-> "BURST", copy |-> n]
TimeTag(i) == [of |-> i, key |-> "rx_time", copy |-> 1]

\* Bursts on up to three bits, or on one that has two tags; a time tag on one of the
\* first bits, or none.
SomeTags ==
  LET bursts == {{BurstTag(i, 1) : i \in S} : S \in {T \in SUBSET Bit : Cardinality(T) <= 3}}
                \union {{BurstTag(i, 1), BurstTag(i, 2)} : i \in Bit}
      times  == {{}} \union {{TimeTag(i)} : i \in 0 .. 2}
  IN  {b \union t : b \in bursts, t \in times}

\* Every stub mode; the order of the bits matters to what is padded on the left only,
\* and is switched in one configuration.
SomeConfigs ==
  {c \in [stub : {"DROP", "RIGHT", "LEFT"}, lsb_first : BOOLEAN, vlen : 1 .. 2] :
     c.lsb_first => c.stub = "RIGHT" /\ c.vlen = 1}
=============================================================================
