-------------------------- MODULE MCRollingVolume --------------------------
(* A cube of three voxels per axis that moves along every axis. *)
EXTENDS RollingVolume

Steps == {<<1, 0, 0>>, <<-2, 0, 0>>, <<0, 1, -1>>, <<0, -1, 2>>, <<0, 0, 1>>, <<0, 0, -2>>, <<0, 0, 0>>}
Walls == {{<<0, 2, 0>>, <<2, 0, 2>>}, {<<1, 1, 1>>, <<0, 0, 1>>}}
=============================================================================
