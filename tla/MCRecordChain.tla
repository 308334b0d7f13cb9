--------------------------- MODULE MCRecordChain ----------------------------
(***************************************************************************)
(* Names for the run of RecordChain: one format for all files.              *)
(***************************************************************************)
EXTENDS RecordChain

OneName == [f \in Files |-> "recording"]
=============================================================================
