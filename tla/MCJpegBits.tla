----------------------------- MODULE MCJpegBits -----------------------------
(* Constants for model checking JpegBits: bytes of three bits.             *)
EXTENDS JpegBits

\* A code of ones as long as two bytes, a short one, and the low bits of a
\* negative number.
MCCodes == {[code |-> 63, size |-> 6], [code |-> 0, size |-> 1],
            [code |-> -3, size |-> 4]}

\* Memory that grows from two bytes on, a file whose buffer is written in the
\* middle of an MCU, and a buffer that every MCU fits in with a byte to spare
\* (the largest has two codes of ones, all bytes stuffed, after a restart).
MCSetups ==
  {[manager |-> "memory", size |-> 2, interval |-> 1],
   [manager |-> "memory", size |-> 3, interval |-> 0],
   [manager |-> "file", size |-> 3, interval |-> 2],
   [manager |-> "suspending", size |-> 13, interval |-> 2]}
=============================================================================
