--------------------------- MODULE MCCsvRoundTrip ---------------------------
(* Values for the runs of CsvRoundTrip. *)
EXTENDS CsvRoundTrip

Meta(a, b) == [k \in {"k1", "k2"} |-> IF k = "k1" THEN a ELSE b]

\* A full PDU, one without its first key and with a false bool and no vector, and
\* one with a vector of another type.
SomePDUs ==
  {[meta |-> Meta("v", "True"), data |-> <<"1", "2">>],
   [meta |-> [k \in {"k2"} |-> "False"], data |-> NIL],
   [meta |-> Meta("v", "True"), data |-> WRONG]}

SomeModes == {<<"data", FALSE>>, <<"format", FALSE>>, <<"find", FALSE>>, <<"data", TRUE>>}

SomeKeyLists == {{}, {"k2"}}

SomeLines == <<<<"k2(bool)", "k3">>, <<"True", "w", "2">>>>
=============================================================================
