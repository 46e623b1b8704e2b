----------------------------- MODULE MCEventWalk -----------------------------
(* Up to four upgrades of the app in the block, of either shape, each of   *)
(* which may fail to unpack.                                               *)
EXTENDS EventWalk
=============================================================================
