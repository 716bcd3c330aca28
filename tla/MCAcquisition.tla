--------------------------- MODULE MCAcquisition ---------------------------
(* Acquisition with the numbers of transmission mode I. *)
EXTENDS Acquisition

\* The null symbol half a tolerance off, not found, or found elsewhere.
OffBy(n) == [null_quality |-> "OK", null_position |-> null_size \div 2 + n]
NotDetected == [null_quality |-> "NOT_DETECTED", null_position |-> 0]
ShiftTo(n) == [null_quality |-> "SHIFT", null_position |-> n]
Imperfect == {Exact, OffBy(25), OffBy(-25), NotDetected, ShiftTo(150000)}
ExactOnly == {Exact}
============================================================================
