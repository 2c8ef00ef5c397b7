-------------------------------- MODULE MCNBoot --------------------------------
(* Small devices for TLC: two images of different sizes, slots of three    *)
(* blocks, so that a smaller image leaves blocks of a larger one behind.   *)
EXTENDS NBoot, TLC

CONSTANTS img1, img2

MCImages == {img1, img2}
MCBlocksOf == (img1 :> 2) @@ (img2 :> 3)
================================================================================
