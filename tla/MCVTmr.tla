------------------------------ MODULE MCVTmr -------------------------------
(* One or two virtual timers whose counters wrap around after a few ticks. *)
EXTENDS VTmr

CONSTANTS t1, t2

OneTimer == {t1}
TwoTimers == {t1, t2}
TwoThree == {2, 3}
TwoFive == {2, 5}
Both == {"oneshot", "cyclic"}
WithGlobal == (AllOps \ {"sei"}) \cup GlobalOps
=============================================================================
