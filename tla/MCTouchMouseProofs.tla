------------------------ MODULE MCTouchMouseProofs ------------------------
(* TouchMouse on the small instance of MCTouchMouse, with the inductive    *)
(* invariants of TouchMouseProofs, so that TLC checks what the proofs rest *)
(* on together with the properties they prove.                            *)
EXTENDS MCTouchMouse, TouchMouseProofs
=============================================================================
