--------------------------- MODULE MCTouchMouse ---------------------------
(* TouchMouse on a small instance for TLC.                                 *)
EXTENDS TouchMouse

\* A 16-bit tracking-id counter is shrunk to 2 bits: ids 1 and 2, 3 skipped.
MCIdMod == 4
=============================================================================
