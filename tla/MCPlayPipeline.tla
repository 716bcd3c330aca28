-------------------------- MODULE MCPlayPipeline --------------------------
(* PlayPipeline with what the synchronizer may find.                       *)
EXTENDS PlayPipeline

ExactOnly == {Exact}

\* The null symbol within the tolerance, or not found, or found elsewhere. The
\* code's tolerance is 50 samples of 2656; a quarter of null_size is wider. The
\* impulse response moves the position of a null symbol that was not found, too
\* (synchronizer.cc:425).
OffBy(n) == [null_quality |-> "OK", null_position |-> null_size \div 2 + n]
NotDetected == [null_quality |-> "NOT_DETECTED", null_position |-> -(null_size \div 4)]
Imperfect == {Exact, OffBy(null_size \div 4), OffBy(-(null_size \div 4)), NotDetected}
Shifted == {Exact, [null_quality |-> "SHIFT", null_position |-> 190000]}
===========================================================================
