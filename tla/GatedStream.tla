---------------------------- MODULE GatedStream -----------------------------
(***************************************************************************)
(* The buffer between a stream_gate and the block that reads from it.       *)
(***************************************************************************)
VARIABLES
  mid,      \* the samples the gate produced, by their offset in its input
  midTags   \* the tags on them: [at, tag], at the offset in mid
=============================================================================
