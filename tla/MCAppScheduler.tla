---------------------------- MODULE MCAppScheduler ----------------------------
(* Two interrupt priorities above the main loop and a ring that wraps.     *)
EXTENDS AppScheduler
================================================================================
