--------------------------- MODULE MCTouchCodec ---------------------------
(* TouchCodec on boundary bytes for TLC.                                   *)
EXTENDS TouchCodec

\* 0 and 255; 1; 8, the sign bit of the low nibble of params[0]; 63 and 64
\* around the status bits of x_m and y_m; 127 and 128 around the sign bit
\* of params[1] and the high nibble of params[0].
MCByteVals == {0, 1, 8, 63, 64, 127, 128, 255}
\* The widest int whose values TLC represents (its own are 32-bit): the
\* field still lands in the sign bit, as with the kernel's 32-bit int.
MCIntBits == 30
=============================================================================
