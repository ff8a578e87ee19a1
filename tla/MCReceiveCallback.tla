-------------------------- MODULE MCReceiveCallback --------------------------
(* Constants for model checking ReceiveCallback.                           *)
EXTENDS ReceiveCallback

\* Image data that reads as a negative length, as no length, and as a small
\* one.
MCPixelWords == {-1, 0, 18}
=============================================================================
