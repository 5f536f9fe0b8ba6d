----------------------------- MODULE MCEluaInt -----------------------------
(* EluaInt on a ring of four slots with well-behaved handlers, and on a    *)
(* ring of two slots with failing ones, without and with a coroutine.      *)
EXTENDS EluaInt

CONSTANTS i1, i2, r1, c1

TwoIds == {i1, i2}
OneResnum == {r1}
OneCoroutine == {c1}
NoCoroutine == {}
=============================================================================
