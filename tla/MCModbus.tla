-------------------------------- MODULE MCModbus -------------------------------
(* The Modbus master on its own.                                           *)
EXTENDS Modbus

Spec == MbSpec
================================================================================
