--------------------------- MODULE MCWtpTouchpad ---------------------------
(* WtpTouchpad on a small instance for TLC.                                *)
EXTENDS WtpTouchpad

\* Three of the five slots: enough for a frame of three fingers over two
\* reports plus one finger of the previous frame.
MCMaxContacts == 3
\* A well-behaved touchpad names slots 1..MaxContacts only.
MCFingerIds == 1..3
\* With finger ids 0 and MaxContacts + 1 as well.
MCBadFingerIds == 0..4
=============================================================================
