--------------------------- MODULE MCEventStream ---------------------------
(***************************************************************************)
(* Small instances of EventStream for TLC.  The threads and the readers    *)
(* are model values; permuting the threads permutes nothing the properties *)
(* tell apart, so the safety runs use that symmetry.                       *)
(***************************************************************************)
EXTENDS EventStream, TLC

Symmetry == Permutations(Threads)
=============================================================================
