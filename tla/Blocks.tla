------------------------------- MODULE Blocks -------------------------------
(***************************************************************************)
(* What block_buffer promises of its output ("Guarantee blocks of          *)
(* continuous samples", include/gnuradio/sandia_utils/block_buffer.h): the *)
(* output is a sequence of blocks, the samples of a block are consecutive  *)
(* samples of the input, and no sample comes out twice or out of order.    *)
(***************************************************************************)
EXTENDS Integers

VARIABLES
  block,   (* the samples sent since the last BLOCK tag: a function on     *)
           (* 0 .. len - 1                                                 *)
  len      (* how many they are                                            *)

vars == << block, len >>

Stretch(first, k) == [j \in 0 .. k - 1 |-> first + j]

Init ==
  /\ len = 0
  /\ block = Stretch(0, 0)

(* A new block starts after everything that was sent.                      *)
Start ==
  /\ len' > 0
  /\ block' = Stretch(block'[0], len')
  /\ len > 0 => block'[0] >= block[0] + len

Continue ==
  /\ len > 0
  /\ len' > len
  /\ block' = Stretch(block[0], len')

Next == Start \/ Continue

Spec == Init /\ [][Next]_vars

=============================================================================
