------------------------------ MODULE BootPromise ------------------------------
(***************************************************************************)
(* What the boot loader promises to the rest of the system, with no flash, *)
(* no metadata page and no copying in sight.                               *)
(*                                                                         *)
(* "effective" is the firmware the next successful start will run, and     *)
(* "running" the firmware that is running now (NONE while the loader or    *)
(* nobody runs).  Only a running application changes the effective image,  *)
(* in one step: it commits to a downloaded image, or withdraws and stays   *)
(* with itself.  Nothing the loader does, no failed flash operation and no *)
(* power loss changes it, and a start runs exactly the effective image.    *)
(***************************************************************************)
CONSTANTS
  Images,   \* the firmware images that exist
  NONE      \* no image

VARIABLES effective, running

vars == <<effective, running>>

Init ==
  /\ effective \in Images
  /\ running = NONE

Commit(img) ==
  /\ running # NONE
  /\ effective' = img
  /\ UNCHANGED running

Withdraw ==
  /\ running # NONE
  /\ effective' = running
  /\ UNCHANGED running

Start ==
  /\ running = NONE
  /\ running' = effective
  /\ UNCHANGED effective

Stop ==
  /\ running # NONE
  /\ running' = NONE
  /\ UNCHANGED effective

Next ==
  \/ \E img \in Images : Commit(img)
  \/ Withdraw
  \/ Start
  \/ Stop

Spec == Init /\ [][Next]_vars
================================================================================
