-------------------------------- MODULE MCApBus --------------------------------
(* One or two protothreads, two registers, three requests.                 *)
EXTENDS ApBus

CONSTANTS t1, t2, x1, x2

OneThread == {t1}
TwoThreads == {t1, t2}
TwoIndexes == {x1, x2}
OneIndex == {x1}
================================================================================
