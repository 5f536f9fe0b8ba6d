------------------------------ MODULE MCSalloc ------------------------------
(* A small instance of Salloc: two regions, the first with bounds that are no *)
(* multiples of DYN_SIZE_MULT.                                                *)
EXTENDS Salloc

CONSTANT v1

MCMemStart == <<5, 128>>
MCMemEnd == <<71, 192>>
MCSizes == {0, 8, 9, 24}
=============================================================================
