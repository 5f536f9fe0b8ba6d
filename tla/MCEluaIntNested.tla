-------------------------- MODULE MCEluaIntNested --------------------------
(* elua_int_add statement by statement, with two priorities.               *)
EXTENDS EluaIntNested

CONSTANTS i1, i2, r1

TwoIds == {i1, i2}
OneResnum == {r1}
NoCoroutine == {}
=============================================================================
