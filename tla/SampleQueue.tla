---------------------------- MODULE SampleQueue ----------------------------
(***************************************************************************)
(* What a ring buffer of `length' samples promises its clients: a FIFO     *)
(* queue that never holds more than `length' samples and that makes room   *)
(* by forgetting the oldest ones.                                          *)
(*                                                                         *)
(* The samples ever written are numbered 0, 1, 2, ...; a FIFO queue is     *)
(* then the interval oldest .. written-1 of the numbers still unread.      *)
(***************************************************************************)
EXTENDS Integers

CONSTANT length

VARIABLES
  oldest,   \* number of the oldest unread sample
  written   \* number of samples ever written

vars == <<oldest, written>>

Newest(n) == written + n - length   \* what is left is at most `length' long

Init == oldest = 0 /\ written = 0

Read(n) == /\ n \in 0 .. written - oldest
           /\ oldest' = oldest + n
           /\ UNCHANGED written

Write(n) == /\ written' = written + n
            /\ oldest' = IF oldest < Newest(n) THEN Newest(n) ELSE oldest

Clear == oldest' = written /\ UNCHANGED written

Next == \/ \E n \in 0 .. length : Read(n) \/ Write(n)
        \/ Clear

Spec == Init /\ [][Next]_vars

=============================================================================
