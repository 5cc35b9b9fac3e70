--------------------------- MODULE MCSynchronizer ---------------------------
(* Small instances of Synchronizer: threads are model values, stamps a few *)
(* small numbers spread unevenly, so that there are nearer and farther data *)
EXTENDS Synchronizer

(* Nothing has to happen once all stamps are used and all calls returned. *)
=============================================================================
