------------------------------- MODULE MCAdc --------------------------------
(* Two channels, 1 or 2 samples, a filter of length 2.                        *)
EXTENDS Adc

MCVolt == [c \in Channels |-> c + 1]
=============================================================================
