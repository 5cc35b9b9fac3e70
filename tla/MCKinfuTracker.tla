--------------------------- MODULE MCKinfuTracker ---------------------------
(* A camera that stands or moves farther than the cube tolerates, in the   *)
(* mode of ICP, where frames may come with a pose, the one that also       *)
(* resets, the one that gets neither, and the one with SLAC.               *)
EXTENDS KinfuTracker

ToAndFro == {-2, 0, 2}
=============================================================================
