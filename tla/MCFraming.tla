----------------------------- MODULE MCFraming -------------------------------
(* An instance of Framing for TLC: seven bytes of buffer and packets of two,*)
(* three and six bytes: every packet and every header can lie across the    *)
(* end of the buffer, and the longest packet fills it.                      *)
EXTENDS Framing
=============================================================================
