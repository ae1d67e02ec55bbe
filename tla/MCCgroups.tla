----------------------------- MODULE MCCgroups ------------------------------
(* Launchers are interchangeable unless Failing and MayCrash tell them     *)
(* apart: no symmetry is used.                                             *)
EXTENDS Cgroups
CONSTANTS l1, l2, l3
=============================================================================
