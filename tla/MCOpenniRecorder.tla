-------------------------- MODULE MCOpenniRecorder --------------------------
(* The recorder started with small buffers, one of no size among them. *)
EXTENDS OpenniRecorder

SmallCapacities == 0 .. 2
=============================================================================
