---------------------------- MODULE MCBlkVirtio -----------------------------
(* An instance of BlkVirtio: two sectors, three requests and one restart, *)
(* with a queue that two requests fill.                                    *)
EXTENDS BlkVirtio
=============================================================================
