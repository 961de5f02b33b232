---------------------------- MODULE MCRootserver ----------------------------
(* Instances of Rootserver.  Slots are interchangeable: no definition tells  *)
(* one from another.                                                         *)
EXTENDS Rootserver, TLC

OneDriver == <<"blk_driver">>
NoDrivers == <<>>
SlotSymmetry == Permutations(Slot)
=============================================================================
