------------------------------- MODULE MCBuf -------------------------------
(* The buffer of a UART, of a virtual UART or of an ADC channel that is set *)
(* up, resized between one, two and four elements, disabled and flushed    *)
(* while elements arrive.                                                  *)
EXTENDS Buf

CONSTANTS d1, d2

TwoData == {d1, d2}
OneTwoFour == {1, 2, 4}
AllDevices == {"uart", "vuart", "adc"}
=============================================================================
