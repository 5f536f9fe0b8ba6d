----------------------------- MODULE MCXmodem -----------------------------
(* A file of five blocks whose numbers wrap around at 4.  The third block  *)
(* number and one data byte look like XM_EOT, as block 4 does in the code. *)
EXTENDS Xmodem

FiveBlocks == <<10, 3, 11, 12, 10>>
PlusTen(d) == d + 10
=============================================================================
