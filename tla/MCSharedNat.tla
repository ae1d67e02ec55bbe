---------------------------- MODULE MCSharedNat -----------------------------
(* Three launchers with one subnet: see the .cfg files for who may fail.   *)
EXTENDS SharedNat

CONSTANTS l1, l2, l3
=============================================================================
