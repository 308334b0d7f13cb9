------------------------------ MODULE Recorder ------------------------------
(***************************************************************************)
(* What a recorder promises, whatever starts and stops it: the stream is   *)
(* taken in order; a sample is either skipped or appended to the open      *)
(* file; nothing is skipped while that file has data, so no file has a     *)
(* hole; a file that is closed is announced as it stands.  A recorder that *)
(* has gone astray may drop samples while a file is open, and announce     *)
(* what it does not have.                                                  *)
(***************************************************************************)
EXTENDS Integers

VARIABLES
  pos,     (* the next sample of the stream                                *)
  open,    (* the samples in the open file: first, next, len               *)
  closed,  (* the file announced last                                      *)
  astray   (* the recorder has gone astray                                 *)

vars == << pos, open, closed >>

Empty == [first |-> 0, next |-> 0, len |-> 0]

Init ==
  /\ pos = 0
  /\ open = Empty
  /\ closed = Empty

Appended(k) ==
  [first |-> IF open.len = 0 THEN pos ELSE open.first,
   next  |-> pos + k,
   len   |-> open.len + k]

Skip ==
  /\ open.len = 0
  /\ pos' >= pos
  /\ UNCHANGED << open, closed >>

Append ==
  /\ pos' > pos
  /\ open' = Appended(pos' - pos)
  /\ UNCHANGED closed

AppendAndClose ==
  /\ pos' > pos
  /\ closed' = Appended(pos' - pos)
  /\ open' = Empty

Close ==
  /\ open.len > 0
  /\ closed' = open
  /\ open' = Empty
  /\ UNCHANGED pos

(* No file gets what it is given, and at most that one is announced again. *)
Stray ==
  /\ astray
  /\ pos' >= pos
  /\ open' \in {open, Empty}
  /\ closed' \in {closed, open}

Next == Skip \/ Append \/ AppendAndClose \/ Close \/ Stray

Spec == Init /\ [][Next]_vars

=============================================================================
