--------------------------- MODULE MCStaticThingBuf ---------------------------
(* Instantiates StaticThingBuf for TLC; the constants are given in the .cfg files. *)
EXTENDS StaticThingBuf, TLC

PusherSymmetry == Permutations(Pushers)

=============================================================================
