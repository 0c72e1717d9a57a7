--------------------------- MODULE ContactTracker ---------------------------
(***************************************************************************)
(* What a frame-based contact tracker promises its input device (spec,     *)
(* section 4.2), with no slot array, no seen flags and no retirement loop. *)
(* The input is a sequence of reports:                                     *)
(*  - report:  the status each contact named by the last report carries   *)
(*             (a function on the contacts it named);                      *)
(*  - closing: the last report ended a frame.                              *)
(* The tracker's state:                                                    *)
(*  - active:  the contacts the host sees as touching;                     *)
(*  - frame:   the status last reported for each contact since the frame  *)
(*             began (a function on the contacts mentioned so far).        *)
(* A report inside a frame changes the contacts it names and no other; a  *)
(* report that ends the frame makes the active set exactly the contacts   *)
(* of the frame whose last status was "touching", and starts a new frame. *)
(* WtpTouchpad implements this specification (TrackerSpec there).          *)
(***************************************************************************)
CONSTANT Contacts

VARIABLES active, frame, report, closing

vars == <<active, frame, report, closing>>

NoFrame == [c \in {} |-> FALSE]

\* The statuses of F, overridden by those of the report R.
Merge(F, R) ==
    [c \in DOMAIN F \cup DOMAIN R |-> IF c \in DOMAIN R THEN R[c] ELSE F[c]]

Touching(F) == {c \in DOMAIN F : F[c]}

\* The contact statuses a report may carry.
Statuses == UNION {[D -> BOOLEAN] : D \in SUBSET Contacts}

Init ==
    /\ active = {}
    /\ frame = NoFrame
    /\ report = NoFrame
    /\ closing = TRUE

\* A report with statuses R; closes says whether it ends the frame.
Report(R, closes) ==
    /\ report' = R
    /\ closing' = closes
    /\ active' = IF closes THEN Touching(Merge(frame, R))
                 ELSE (active \ DOMAIN R) \cup Touching(R)
    /\ frame' = IF closes THEN NoFrame ELSE Merge(frame, R)

\* The tracker is (re)created with no contact, between frames.
Reset ==
    /\ active' = {}
    /\ frame' = NoFrame
    /\ closing' = TRUE
    /\ UNCHANGED report

Next ==
    \/ Reset
    \/ \E R \in Statuses, closes \in BOOLEAN : Report(R, closes)

Spec == Init /\ [][Next]_vars

=============================================================================
