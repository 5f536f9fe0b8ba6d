----------------------------- MODULE Transfer -----------------------------
(***************************************************************************)
(* What the caller of xmodem_receive (src/shell.c:227-228) counts on: the  *)
(* call returns; while it runs the blocks of the file arrive in order and  *)
(* once each; it reports success only when it has the whole file.  Noise   *)
(* on the line that moves the receiver out of step takes away the last     *)
(* promise, not the others.                                                *)
(***************************************************************************)
EXTENDS Naturals, Sequences

CONSTANT File       \* the blocks to be transferred

VARIABLES
    delivered,      \* the blocks that arrived
    outcome,        \* "running", "ok" or "failed"
    misaligned      \* did noise shift the receiver against the stream?

vars == <<delivered, outcome, misaligned>>

Init ==
    /\ delivered = <<>>
    /\ outcome = "running"
    /\ misaligned = FALSE

Deliver ==
    /\ outcome = "running"
    /\ Len(delivered) < Len(File)
    /\ delivered' = Append(delivered, File[Len(delivered) + 1])
    /\ UNCHANGED <<outcome, misaligned>>

Succeed ==
    /\ outcome = "running"
    /\ delivered = File \/ misaligned
    /\ outcome' = "ok"
    /\ UNCHANGED <<delivered, misaligned>>

Fail ==
    /\ outcome = "running"
    /\ outcome' = "failed"
    /\ UNCHANGED <<delivered, misaligned>>

Noise ==
    /\ misaligned' = TRUE
    /\ UNCHANGED <<delivered, outcome>>

Next == Deliver \/ Succeed \/ Fail \/ Noise

Spec == Init /\ [][Next]_vars /\ WF_vars(Succeed \/ Fail)
=============================================================================
