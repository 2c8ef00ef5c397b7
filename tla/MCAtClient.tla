------------------------------- MODULE MCAtClient -------------------------------
(* One URC, and a modem that refuses, answers in two lines or in a line    *)
(* that is too long: two calls if it is prompt, one otherwise.             *)
EXTENDS AtClient

CONSTANTS u1

SmallUrcs == <<u1>>
SmallAnswers == {<<"error">>, <<"text", "ok">>, <<"long", "ok">>}
SmallMaxCalls == [b \in BOOLEAN |-> IF b THEN 2 ELSE 1]
================================================================================
