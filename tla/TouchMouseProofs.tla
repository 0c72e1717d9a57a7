-------------------------- MODULE TouchMouseProofs --------------------------
(***************************************************************************)
(* Proofs about TouchMouse for every value of its constants.               *)
(*                                                                         *)
(* TypeOK and IdInRange are not inductive on their own: FingerSlot moves   *)
(* loopI up to max_fingers, and only the fact that the driver's copy of    *)
(* max_fingers is 0 or the mouse's DevMaxFingers keeps loopI inside        *)
(* 0..DevMaxFingers.  IInv adds that fact; IdInRange is inductive as it    *)
(* stands because NextTrackingId maps 1..IdMod-2 into itself.              *)
(***************************************************************************)
EXTENDS TouchMouse, TLAPS

\* tp_info.max_fingers is 0 until the params command answers, then the
\* value the mouse reports.
MaxFingersKnown == max_fingers \in {0, DevMaxFingers}

IInv == TypeOK /\ MaxFingersKnown /\ IdInRange

\* The shape of the reports tm_raw_event is handed in the model.
Report == [id : {2, 17}, feat : 0..255, sub : 0..1,
           btns : SUBSET Buttons, pressed : BOOLEAN]

USE DevMaxFingersAssumption, FeatureIdxAssumption, IdModAssumption,
    IgnoreAssumption

-----------------------------------------------------------------------------
\* The increment-and-skip of next_tracking_id never leaves 1..IdMod-2.
LEMMA NextIdInRange ==
    ASSUME NEW n \in 1..(IdMod - 2)
    PROVE  NextTrackingId(n) \in 1..(IdMod - 2)
<1>1. (n + 1) % IdMod = n + 1
  BY SMT
<1>2. QED
  BY <1>1 DEF NextTrackingId

\* emit_buttons maps a depressor array to a depressor array.
LEMMA EmitButtonsType ==
    ASSUME button_depressor \in [Buttons -> {DEPRESSOR_NONE} \cup Sources],
           NEW r \in [id : {2, 17}, feat : 0..255, sub : 0..1,
                      btns : SUBSET Buttons, pressed : BOOLEAN]
    PROVE  emit_buttons(r) \in [Buttons -> {DEPRESSOR_NONE} \cup Sources]
<1> DEFINE S == [Buttons -> {DEPRESSOR_NONE} \cup Sources]
<1>1. \A d \in S : MouseButtons(d, r) \in S
  BY DEF MouseButtons, Buttons, Sources, DEPRESSOR_NONE, DEPRESSOR_MOUSE,
         DEPRESSOR_RAWPTS, DEPRESSOR_1B03
<1>2. \A d \in S : Buttons1b03(d, r) \in S
  BY DEF Buttons1b03, Buttons, Sources, DEPRESSOR_NONE, DEPRESSOR_MOUSE,
         DEPRESSOR_RAWPTS, DEPRESSOR_1B03
<1>3. \A d \in S : ButtonsRawPts(d, r) \in S
  BY DEF ButtonsRawPts, Buttons, Sources, DEPRESSOR_NONE, DEPRESSOR_MOUSE,
         DEPRESSOR_RAWPTS, DEPRESSOR_1B03
<1>4. QED
  BY <1>1, <1>2, <1>3 DEF emit_buttons

\* The mouse's button view stays a Boolean array per source.
LEMMA DeviceButtonsType ==
    ASSUME devBtn \in [Sources -> [Buttons -> BOOLEAN]],
           NEW r \in [id : {2, 17}, feat : 0..255, sub : 0..1,
                      btns : SUBSET Buttons, pressed : BOOLEAN]
    PROVE  DeviceButtons(r) \in [Sources -> [Buttons -> BOOLEAN]]
  BY DEF DeviceButtons, Sources, Buttons, DEPRESSOR_MOUSE, DEPRESSOR_RAWPTS,
         DEPRESSOR_1B03

\* The reports the model builds have the shape the two lemmas above expect.
LEMMA ReportShapes ==
    /\ \A btns \in SUBSET Buttons :
         MouseReport(btns) \in Report
    /\ \A f \in 0..255, s \in 0..1, p \in BOOLEAN :
         FeatureReport(f, s, p) \in Report
  BY DEF MouseReport, FeatureReport, Report

-----------------------------------------------------------------------------
\* The Boolean-valued variables.  The SMT backend reads x = FALSE as "x is
\* not true" and loses x \in BOOLEAN, so their type is shown with Zenon.
BoolVars ==
    /\ hid_hw_started \in BOOLEAN
    /\ in_raw_mode \in BOOLEAN
    /\ connPending \in BOOLEAN
    /\ connected \in BOOLEAN
    /\ devRaw \in BOOLEAN

LEMMA InitIInv == Init => IInv
<1> SUFFICES ASSUME Init PROVE IInv
  OBVIOUS
<1>1. BoolVars /\ devBtn \in [Sources -> [Buttons -> BOOLEAN]]
  BY Zenon DEF BoolVars, Init, FreshDriver
<1>2. QED
  BY <1>1 DEF BoolVars, Init, FreshDriver, NoFingerLoop, IInv, TypeOK,
         MaxFingersKnown, IdInRange, NegStates, Slots, Buttons, Sources, NoId,
         NoLoop, DEPRESSOR_NONE, DEPRESSOR_MOUSE, DEPRESSOR_RAWPTS,
         DEPRESSOR_1B03

\* No step gives a Boolean variable a non-Boolean value.
LEMMA NextBoolVars == BoolVars /\ [Next]_vars => BoolVars'
<1> SUFFICES ASSUME BoolVars, [Next]_vars PROVE BoolVars'
  OBVIOUS
<1> USE DEF BoolVars
<1>1. CASE ProbeStart \/ ProbeFinish \/ Remove
  BY <1>1, Zenon DEF ProbeStart, ProbeFinish, Remove, ResetDriver
<1>2. CASE GetProtocolVersion \/ GetFeature6110 \/ GetFeature1b03
           \/ GetTouchpadInfo \/ RequestRawMode \/ NegCommandFails
  BY <1>2, Zenon DEF GetProtocolVersion, GetFeature6110, GetFeature1b03,
                     GetTouchpadInfo, RequestRawMode, NegCommandFails,
                     NegUnchanged
<1>3. CASE Disconnect \/ Reconnect \/ ConnectChange
  BY <1>3, Zenon DEF Disconnect, Reconnect, ConnectChange
<1>4. ASSUME NEW r, ButtonOnlyReport(r) PROVE BoolVars'
  BY <1>4, Zenon DEF ButtonOnlyReport, ReportUnchanged
<1>5. CASE RawEventMouse \/ RawEvent1b03 \/ RawEventRawPtsButton
           \/ RawEventFingers
  BY <1>5, <1>4, Zenon DEF RawEventMouse, RawEvent1b03, RawEventRawPtsButton,
                          RawEventFingers, ReportUnchanged
<1>6. CASE FingerSlot \/ FingerFrameEnd
  BY <1>6, Zenon DEF FingerSlot, FingerFrameEnd, ReportUnchanged
<1>7. CASE UNCHANGED vars
  BY <1>7 DEF vars
<1>8. QED
  BY <1>1, <1>2, <1>3, <1>5, <1>6, <1>7 DEF Next

\* A report step keeps everything but the decoder state; its decoder part
\* is shown per action below.
LEMMA NextIInv == IInv /\ [Next]_vars => IInv'
<1> SUFFICES ASSUME IInv, [Next]_vars PROVE IInv'
  OBVIOUS
<1>0. BoolVars'
  BY NextBoolVars, Zenon DEF IInv, TypeOK, BoolVars
<1> USE <1>0 DEF BoolVars, IInv, TypeOK, MaxFingersKnown, IdInRange, NegStates, Slots,
            Buttons, Sources, NoId, NoLoop, DEPRESSOR_NONE, DEPRESSOR_MOUSE,
            DEPRESSOR_RAWPTS, DEPRESSOR_1B03
<1>1. CASE ProbeStart
  BY <1>1 DEF ProbeStart, ResetDriver
<1>2. CASE ProbeFinish
  <2>1. CASE phase' = "bound"
    <3>1. /\ hid_hw_started' = TRUE /\ in_raw_mode' = TRUE
          /\ input_num_slots' = IF max_fingers > 2 THEN max_fingers ELSE 2
          /\ UNCHANGED <<mt_feature_index, feature_1b03, max_fingers,
                         next_tracking_id, prev_slots_used, button_depressor,
                         sinkId, toolKeys>>
          /\ UNCHANGED <<negPc, connPending, loopI, loopRec, slots_used,
                         connected, devRaw, devBtn>>
      BY <1>2, <2>1 DEF ProbeFinish, ResetDriver
    <3>2. QED
      BY <2>1, <3>1
  <2>2. CASE phase' = "unbound"
    BY <1>2, <2>2 DEF ProbeFinish, ResetDriver
  <2>3. QED
    BY <1>2, <2>1, <2>2 DEF ProbeFinish
<1>3. CASE Remove
  BY <1>3 DEF Remove, ResetDriver
<1>4. CASE GetProtocolVersion
  BY <1>4 DEF GetProtocolVersion, NegUnchanged
<1>5. CASE GetFeature6110
  BY <1>5 DEF GetFeature6110, NegUnchanged
<1>6. CASE GetFeature1b03
  BY <1>6 DEF GetFeature1b03, NegUnchanged
<1>7. CASE GetTouchpadInfo
  BY <1>7 DEF GetTouchpadInfo, NegUnchanged
<1>8. CASE RequestRawMode
  BY <1>8 DEF RequestRawMode, NegUnchanged
<1>9. CASE NegCommandFails
  BY <1>9 DEF NegCommandFails, NegUnchanged
<1>10. CASE Disconnect
  BY <1>10 DEF Disconnect
<1>11. CASE Reconnect
  BY <1>11 DEF Reconnect
<1>12. CASE ConnectChange
  BY <1>12 DEF ConnectChange
<1>13. ASSUME NEW r \in Report, ButtonOnlyReport(r)
       PROVE  IInv'
  <2>1. emit_buttons(r) \in [Buttons -> {DEPRESSOR_NONE} \cup Sources]
    BY EmitButtonsType DEF Report
  <2>2. DeviceButtons(r) \in [Sources -> [Buttons -> BOOLEAN]]
    BY DeviceButtonsType DEF Report
  <2>3. QED
    BY <1>13, <2>1, <2>2 DEF ButtonOnlyReport, ReportUnchanged
<1>14. CASE RawEventMouse
  <2>1. PICK btns \in SUBSET Buttons : ButtonOnlyReport(MouseReport(btns))
    BY <1>14 DEF RawEventMouse
  <2>2. MouseReport(btns) \in Report
    BY ReportShapes
  <2>3. QED
    BY <2>1, <2>2, <1>13
<1>15. CASE RawEvent1b03
  <2>1. PICK p \in BOOLEAN : ButtonOnlyReport(FeatureReport(Dev1b03Idx, 0, p))
    BY <1>15 DEF RawEvent1b03
  <2>2. FeatureReport(Dev1b03Idx, 0, p) \in Report
    BY DEF FeatureReport, Report
  <2>3. QED
    BY <2>1, <2>2, <1>13
<1>16. CASE RawEventRawPtsButton
  <2>1. PICK p \in BOOLEAN : ButtonOnlyReport(FeatureReport(DevMtIdx, 1, p))
    BY <1>16 DEF RawEventRawPtsButton
  <2>2. FeatureReport(DevMtIdx, 1, p) \in Report
    BY DEF FeatureReport, Report
  <2>3. QED
    BY <2>1, <2>2, <1>13
<1>17. CASE RawEventFingers
  <2>1. PICK rec \in SUBSET Slots :
          IF DevMtIdx = mt_feature_index
          THEN /\ loopI' = 0
               /\ loopRec' = rec
               /\ slots_used' = {}
               /\ UNCHANGED <<next_tracking_id, prev_slots_used,
                              button_depressor, devBtn, sinkId, toolKeys>>
               /\ ReportUnchanged
          ELSE ButtonOnlyReport(FeatureReport(DevMtIdx, 0, FALSE))
    BY <1>17 DEF RawEventFingers
  <2>2. CASE DevMtIdx = mt_feature_index
    <3>1. /\ loopI' = 0 /\ loopRec' = rec /\ slots_used' = {}
          /\ UNCHANGED <<next_tracking_id, prev_slots_used,
                         button_depressor, devBtn, sinkId, toolKeys>>
          /\ ReportUnchanged
      BY <2>1, <2>2
    <3>2. QED
      BY <3>1 DEF ReportUnchanged
  <2>3. CASE DevMtIdx # mt_feature_index
    <3>1. FeatureReport(DevMtIdx, 0, FALSE) \in Report
      BY DEF FeatureReport, Report
    <3>2. QED
      BY <2>1, <2>3, <3>1, <1>13
  <2>4. QED
    BY <2>2, <2>3
<1>18. CASE FingerSlot
  <2>1. loopI \in 0..(DevMaxFingers - 1) /\ max_fingers = DevMaxFingers
    BY <1>18 DEF FingerSlot
  <2>2. NextTrackingId(next_tracking_id) \in 1..(IdMod - 2)
    BY NextIdInRange
  <2>3. /\ loopI' \in 0..DevMaxFingers
        /\ UNCHANGED <<loopRec, prev_slots_used, button_depressor, devBtn,
                       toolKeys>>
        /\ ReportUnchanged
    BY <1>18, <2>1 DEF FingerSlot
  <2>4. CASE loopI \notin loopRec
    <3>1. sinkId' = [sinkId EXCEPT ![loopI] = NoId]
          /\ UNCHANGED <<slots_used, next_tracking_id>>
      BY <1>18, <2>4 DEF FingerSlot
    <3>2. QED
      BY <2>1, <2>3, <3>1 DEF ReportUnchanged
  <2>5. CASE loopI \in loopRec /\ loopI \notin prev_slots_used
    <3>1. /\ slots_used' = slots_used \cup {loopI}
          /\ sinkId' = [sinkId EXCEPT ![loopI] = next_tracking_id]
          /\ next_tracking_id' = NextTrackingId(next_tracking_id)
      BY <1>18, <2>5 DEF FingerSlot
    <3>2. QED
      BY <2>1, <2>2, <2>3, <3>1 DEF ReportUnchanged
  <2>6. CASE loopI \in loopRec /\ loopI \in prev_slots_used
    <3>1. /\ slots_used' = slots_used \cup {loopI}
          /\ UNCHANGED <<sinkId, next_tracking_id>>
      BY <1>18, <2>6 DEF FingerSlot
    <3>2. QED
      BY <2>1, <2>3, <3>1 DEF ReportUnchanged
  <2>7. QED
    BY <2>4, <2>5, <2>6
<1>19. CASE FingerFrameEnd
  <2>1. FeatureReport(DevMtIdx, 0, FALSE) \in Report
    BY DEF FeatureReport, Report
  <2>2. emit_buttons(FeatureReport(DevMtIdx, 0, FALSE))
          \in [Buttons -> {DEPRESSOR_NONE} \cup Sources]
    BY <2>1, EmitButtonsType DEF Report
  <2>3. DeviceButtons(FeatureReport(DevMtIdx, 0, FALSE))
          \in [Sources -> [Buttons -> BOOLEAN]]
    BY <2>1, DeviceButtonsType DEF Report
  <2>4. QED
    BY <1>19, <2>2, <2>3 DEF FingerFrameEnd, ReportUnchanged
<1>20. CASE UNCHANGED vars
  BY <1>20 DEF vars
<1>21. QED
  BY <1>1, <1>2, <1>3, <1>4, <1>5, <1>6, <1>7, <1>8, <1>9, <1>10, <1>11,
     <1>12, <1>14, <1>15, <1>16, <1>17, <1>18, <1>19, <1>20 DEF Next

-----------------------------------------------------------------------------
\* Every reachable state of the driver model is well typed.
THEOREM TypeCorrect == Spec => []TypeOK
<1>1. Init => IInv
  BY InitIInv
<1>2. IInv /\ [Next]_vars => IInv'
  BY NextIInv
<1>3. IInv => TypeOK
  BY DEF IInv
<1>4. QED
  BY <1>1, <1>2, <1>3, PTL DEF Spec

\* For every width of the counter (IdMod >= 3), emit_fingers never emits a
\* tracking id 0 or IdMod - 1 (0xffff): the wrap skips the sentinel.
THEOREM TrackingIdsInRange == Spec => []IdInRange
<1>1. Init => IInv
  BY InitIInv
<1>2. IInv /\ [Next]_vars => IInv'
  BY NextIInv
<1>3. IInv => IdInRange
  BY DEF IInv
<1>4. QED
  BY <1>1, <1>2, <1>3, PTL DEF Spec


-----------------------------------------------------------------------------
(***************************************************************************)
(* The buttons.  NoStuckButton is not inductive: a report of one source    *)
(* could in principle be taken by emit_buttons for another, if the         *)
(* driver's feature indices named the wrong features.  They cannot: each   *)
(* is 0 or the mouse's own index (FeaturesKnown), no report carries        *)
(* feature 0, and a button is held by the raw-points or 0x1b03 source only *)
(* once the driver knows that source's index (ButtonConsistent).  The  *)
(* T620, whose mouse-report buttons are ignored, never has a button held   *)
(* by the mouse report.                                                    *)
(***************************************************************************)
FeaturesKnown ==
    /\ mt_feature_index \in {0, DevMtIdx}
    /\ feature_1b03 \in {0, Dev1b03Idx}

\* Button b is held only by a source the driver knows, and pressed there.
ButtonConsistent(b) ==
    /\ button_depressor[b] = DEPRESSOR_RAWPTS => mt_feature_index = DevMtIdx
    /\ button_depressor[b] = DEPRESSOR_1B03 => feature_1b03 = Dev1b03Idx
    /\ IgnoreMouseButtons => button_depressor[b] # DEPRESSOR_MOUSE
    /\ button_depressor[b] # DEPRESSOR_NONE
         => devBtn[button_depressor[b]][b]

BtnInv == FeaturesKnown /\ \A b \in Buttons : ButtonConsistent(b)

\* A step moves button b away from a source only to NONE, and only when that
\* source now reports b up (the body of ButtonOwnedBySetter).
ReleasedBySetter(b) ==
    LET d == button_depressor[b] IN
    d # DEPRESSOR_NONE /\ button_depressor'[b] # d =>
        /\ button_depressor'[b] = DEPRESSOR_NONE
        /\ ~devBtn'[d][b]

DepType == [Buttons -> {DEPRESSOR_NONE} \cup Sources]
DevBtnType == [Sources -> [Buttons -> BOOLEAN]]

\* A mouse report (0x02) goes to the mouse state machine alone.
LEMMA MouseReportEffect ==
    ASSUME NEW btns \in SUBSET Buttons
    PROVE  /\ emit_buttons(MouseReport(btns))
                = MouseButtons(button_depressor, MouseReport(btns))
           /\ DeviceButtons(MouseReport(btns))
                = [devBtn EXCEPT ![DEPRESSOR_MOUSE] = [c \in Buttons |-> c \in btns]]
  BY DEF emit_buttons, MouseReport, Buttons1b03, ButtonsRawPts, DeviceButtons

\* A 0x1b03 report goes to the 0x1b03 state machine alone: the driver's
\* raw-points index is 0 or the mouse's, and neither is the 0x1b03 index.
LEMMA Report1b03Effect ==
    ASSUME NEW p \in BOOLEAN, Dev1b03Idx # 0, FeaturesKnown
    PROVE  /\ emit_buttons(FeatureReport(Dev1b03Idx, 0, p))
                = Buttons1b03(button_depressor, FeatureReport(Dev1b03Idx, 0, p))
           /\ DeviceButtons(FeatureReport(Dev1b03Idx, 0, p))
                = [devBtn EXCEPT ![DEPRESSOR_1B03][2] = p]
  BY DEF emit_buttons, FeatureReport, MouseButtons, ButtonsRawPts,
         DeviceButtons, FeaturesKnown

\* A raw-points button event goes to the raw-points state machine alone.
LEMMA RawPtsEffect ==
    ASSUME NEW p \in BOOLEAN, FeaturesKnown
    PROVE  /\ emit_buttons(FeatureReport(DevMtIdx, 1, p))
                = ButtonsRawPts(button_depressor, FeatureReport(DevMtIdx, 1, p))
           /\ DeviceButtons(FeatureReport(DevMtIdx, 1, p))
                = [devBtn EXCEPT ![DEPRESSOR_RAWPTS][0] = p]
  BY DEF emit_buttons, FeatureReport, MouseButtons, Buttons1b03,
         DeviceButtons, FeaturesKnown

\* A finger report (event 0 of 0x6110) touches no button.
LEMMA FingerReportEffect ==
    ASSUME FeaturesKnown
    PROVE  /\ emit_buttons(FeatureReport(DevMtIdx, 0, FALSE)) = button_depressor
           /\ DeviceButtons(FeatureReport(DevMtIdx, 0, FALSE)) = devBtn
  BY DEF emit_buttons, FeatureReport, MouseButtons, Buttons1b03,
         ButtonsRawPts, DeviceButtons, FeaturesKnown


\* A report step that leaves the depressors, the device's buttons and the
\* feature indices alone keeps BtnInv.
LEMMA ButtonsUnchangedBtnInv ==
    ASSUME BtnInv,
           UNCHANGED <<button_depressor, devBtn, mt_feature_index, feature_1b03>>
    PROVE  BtnInv' /\ \A b \in Buttons : ReleasedBySetter(b)
  BY DEF BtnInv, FeaturesKnown, ButtonConsistent, ReleasedBySetter

\* Mouse report: a button the mouse reports down is taken by the mouse if
\* free; one it reports up is released if the mouse held it.
LEMMA MouseReportBtnInv ==
    ASSUME TypeOK, BtnInv, NEW btns \in SUBSET Buttons,
           ButtonOnlyReport(MouseReport(btns))
    PROVE  BtnInv' /\ \A b \in Buttons : ReleasedBySetter(b)
<1> DEFINE r == MouseReport(btns)
<1>1. /\ button_depressor' = MouseButtons(button_depressor, r)
      /\ devBtn' = [devBtn EXCEPT ![DEPRESSOR_MOUSE] = [c \in Buttons |-> c \in btns]]
      /\ UNCHANGED <<mt_feature_index, feature_1b03>>
  BY MouseReportEffect DEF ButtonOnlyReport, ReportUnchanged
<1>2. ASSUME NEW b \in Buttons PROVE ButtonConsistent(b)'
  <2>1. ButtonConsistent(b)
    BY DEF BtnInv
  <2>2. CASE IgnoreMouseButtons
    BY <1>1, <2>1, <2>2 DEF ButtonConsistent, MouseButtons, MouseReport, TypeOK,
       Sources
  <2>3. CASE ~IgnoreMouseButtons
    <3>1. button_depressor'[b] =
            IF button_depressor[b] = DEPRESSOR_NONE /\ b \in btns
            THEN DEPRESSOR_MOUSE
            ELSE IF button_depressor[b] = DEPRESSOR_MOUSE /\ b \notin btns
                 THEN DEPRESSOR_NONE
                 ELSE button_depressor[b]
      BY <1>1, <2>3 DEF MouseButtons, MouseReport
    <3>2. \A c \in Buttons, t \in Sources :
            devBtn'[t][c] = IF t = DEPRESSOR_MOUSE THEN c \in btns ELSE devBtn[t][c]
      BY <1>1 DEF TypeOK, Sources
    <3>3. CASE button_depressor[b] = DEPRESSOR_NONE /\ b \in btns
      <4>1. button_depressor'[b] = DEPRESSOR_MOUSE
        BY <3>1, <3>3
      <4>2. devBtn'[DEPRESSOR_MOUSE][b] = TRUE
        BY <3>2, <3>3 DEF Sources, DEPRESSOR_NONE, DEPRESSOR_MOUSE,
           DEPRESSOR_RAWPTS, DEPRESSOR_1B03
      <4>3. /\ button_depressor'[b] # DEPRESSOR_NONE
            /\ button_depressor'[b] = DEPRESSOR_RAWPTS => mt_feature_index' = DevMtIdx
            /\ button_depressor'[b] = DEPRESSOR_1B03 => feature_1b03' = Dev1b03Idx
            /\ IgnoreMouseButtons => button_depressor'[b] # DEPRESSOR_MOUSE
        BY <1>1, <2>3, <4>1 DEF DEPRESSOR_NONE, DEPRESSOR_MOUSE,
           DEPRESSOR_RAWPTS, DEPRESSOR_1B03
      <4>4. devBtn'[button_depressor'[b]][b]
        BY <4>1, <4>2, Zenon
      <4> QED
        BY <4>3, <4>4, Zenon DEF ButtonConsistent
    <3>4. CASE button_depressor[b] = DEPRESSOR_MOUSE /\ b \notin btns
      BY <1>1, <3>1, <3>4 DEF ButtonConsistent, DEPRESSOR_NONE, DEPRESSOR_MOUSE,
         DEPRESSOR_RAWPTS, DEPRESSOR_1B03
    <3>5. CASE ~(button_depressor[b] = DEPRESSOR_NONE /\ b \in btns)
               /\ ~(button_depressor[b] = DEPRESSOR_MOUSE /\ b \notin btns)
      <4>1. button_depressor'[b] = button_depressor[b]
        BY <3>1, <3>5
      <4>2. button_depressor[b] # DEPRESSOR_NONE
              => devBtn'[button_depressor[b]][b]
        BY <2>1, <3>2, <3>5 DEF ButtonConsistent, TypeOK, Sources
      <4> QED
        BY <1>1, <2>1, <4>1, <4>2 DEF ButtonConsistent
    <3> QED
      BY <3>3, <3>4, <3>5
  <2> QED
    BY <2>2, <2>3
<1>3. ASSUME NEW b \in Buttons PROVE ReleasedBySetter(b)
  <2>1. CASE IgnoreMouseButtons
    BY <1>1, <2>1 DEF ReleasedBySetter, MouseButtons, MouseReport
  <2>2. CASE ~IgnoreMouseButtons
    <3>1. button_depressor'[b] =
            IF button_depressor[b] = DEPRESSOR_NONE /\ b \in btns
            THEN DEPRESSOR_MOUSE
            ELSE IF button_depressor[b] = DEPRESSOR_MOUSE /\ b \notin btns
                 THEN DEPRESSOR_NONE
                 ELSE button_depressor[b]
      BY <1>1, <2>2 DEF MouseButtons, MouseReport
    <3>2. CASE button_depressor[b] = DEPRESSOR_MOUSE /\ b \notin btns
      <4>1. button_depressor'[b] = DEPRESSOR_NONE
        BY <3>1, <3>2 DEF DEPRESSOR_NONE, DEPRESSOR_MOUSE,
           DEPRESSOR_RAWPTS, DEPRESSOR_1B03
      <4>2. devBtn'[DEPRESSOR_MOUSE] = [c \in Buttons |-> c \in btns]
        BY <1>1 DEF TypeOK, Sources
      <4>3. ~devBtn'[DEPRESSOR_MOUSE][b]
        BY <3>2, <4>2, Zenon
      <4> QED
        BY <3>2, <4>1, <4>3, Zenon DEF ReleasedBySetter
    <3>3. CASE ~(button_depressor[b] = DEPRESSOR_MOUSE /\ b \notin btns)
      BY <3>1, <3>3 DEF ReleasedBySetter
    <3> QED
      BY <3>2, <3>3
  <2> QED
    BY <2>1, <2>2
<1> QED
  BY <1>1, <1>2, <1>3 DEF BtnInv, FeaturesKnown

\* 0x1b03 report: only the middle button, and only once the driver knows
\* the 0x1b03 index; before that the report is dropped, and no button is
\* held by the 0x1b03 source.
LEMMA Report1b03BtnInv ==
    ASSUME TypeOK, BtnInv, NEW p \in BOOLEAN, Dev1b03Idx # 0,
           ButtonOnlyReport(FeatureReport(Dev1b03Idx, 0, p))
    PROVE  BtnInv' /\ \A b \in Buttons : ReleasedBySetter(b)
<1> DEFINE r == FeatureReport(Dev1b03Idx, 0, p)
<1>1. /\ button_depressor' = Buttons1b03(button_depressor, r)
      /\ devBtn' = [devBtn EXCEPT ![DEPRESSOR_1B03][2] = p]
      /\ UNCHANGED <<mt_feature_index, feature_1b03>>
  BY Report1b03Effect DEF ButtonOnlyReport, ReportUnchanged, BtnInv
<1>2. ASSUME NEW b \in Buttons PROVE ButtonConsistent(b)'
  <2>1. ButtonConsistent(b)
    BY DEF BtnInv
  <2>2. CASE feature_1b03 # Dev1b03Idx
    BY <1>1, <2>1, <2>2 DEF ButtonConsistent, Buttons1b03, FeatureReport,
       TypeOK, Sources
  <2>3. CASE feature_1b03 = Dev1b03Idx /\ b # 2
    <3>1. button_depressor'[b] = button_depressor[b]
      BY <1>1, <2>3 DEF Buttons1b03, FeatureReport, TypeOK
    <3> QED
      BY <1>1, <2>1, <2>3, <3>1 DEF ButtonConsistent, TypeOK, Sources
  <2>4. CASE feature_1b03 = Dev1b03Idx /\ b = 2
    <3>1. button_depressor'[b] =
            IF button_depressor[b] = DEPRESSOR_NONE /\ p THEN DEPRESSOR_1B03
            ELSE IF button_depressor[b] = DEPRESSOR_1B03 /\ ~p
                 THEN DEPRESSOR_NONE
                 ELSE button_depressor[b]
      BY <1>1, <2>4 DEF Buttons1b03, FeatureReport, TypeOK
    <3>2. \A c \in Buttons, t \in Sources :
            devBtn'[t][c] = IF t = DEPRESSOR_1B03 /\ c = 2 THEN p ELSE devBtn[t][c]
      BY <1>1 DEF TypeOK, Sources
    <3>3. CASE button_depressor[b] = DEPRESSOR_NONE /\ p
      <4>1. button_depressor'[b] = DEPRESSOR_1B03
        BY <3>1, <3>3
      <4>2. devBtn'[DEPRESSOR_1B03][b] = TRUE
        BY <3>2, <3>3, <2>4 DEF Sources, DEPRESSOR_NONE, DEPRESSOR_MOUSE,
           DEPRESSOR_RAWPTS, DEPRESSOR_1B03
      <4>3. /\ button_depressor'[b] # DEPRESSOR_NONE
            /\ button_depressor'[b] = DEPRESSOR_RAWPTS => mt_feature_index' = DevMtIdx
            /\ button_depressor'[b] = DEPRESSOR_1B03 => feature_1b03' = Dev1b03Idx
            /\ IgnoreMouseButtons => button_depressor'[b] # DEPRESSOR_MOUSE
        BY <1>1, <2>4, <4>1 DEF DEPRESSOR_NONE, DEPRESSOR_MOUSE,
           DEPRESSOR_RAWPTS, DEPRESSOR_1B03
      <4>4. devBtn'[button_depressor'[b]][b]
        BY <4>1, <4>2, Zenon
      <4> QED
        BY <4>3, <4>4, Zenon DEF ButtonConsistent
    <3>4. CASE button_depressor[b] = DEPRESSOR_1B03 /\ ~p
      BY <1>1, <3>1, <3>4 DEF ButtonConsistent, DEPRESSOR_NONE, DEPRESSOR_MOUSE,
         DEPRESSOR_RAWPTS, DEPRESSOR_1B03
    <3>5. CASE ~(button_depressor[b] = DEPRESSOR_NONE /\ p)
               /\ ~(button_depressor[b] = DEPRESSOR_1B03 /\ ~p)
      <4>1. button_depressor'[b] = button_depressor[b]
        BY <3>1, <3>5
      <4>2. button_depressor[b] # DEPRESSOR_NONE
              => devBtn'[button_depressor[b]][b]
        BY <2>1, <3>2, <3>5, <2>4 DEF ButtonConsistent, TypeOK, Sources
      <4> QED
        BY <1>1, <2>1, <4>1, <4>2 DEF ButtonConsistent
    <3> QED
      BY <3>3, <3>4, <3>5
  <2> QED
    BY <2>2, <2>3, <2>4
<1>3. ASSUME NEW b \in Buttons PROVE ReleasedBySetter(b)
  <2>1. CASE ~(feature_1b03 = Dev1b03Idx /\ b = 2)
    <3>1. button_depressor'[b] = button_depressor[b]
      BY <1>1, <2>1 DEF Buttons1b03, FeatureReport, TypeOK
    <3> QED
      BY <3>1 DEF ReleasedBySetter
  <2>2. CASE feature_1b03 = Dev1b03Idx /\ b = 2
    <3>1. button_depressor'[b] =
            IF button_depressor[b] = DEPRESSOR_NONE /\ p THEN DEPRESSOR_1B03
            ELSE IF button_depressor[b] = DEPRESSOR_1B03 /\ ~p
                 THEN DEPRESSOR_NONE
                 ELSE button_depressor[b]
      BY <1>1, <2>2 DEF Buttons1b03, FeatureReport, TypeOK
    <3>2. CASE button_depressor[b] = DEPRESSOR_1B03 /\ ~p
      <4>1. button_depressor'[b] = DEPRESSOR_NONE
        BY <3>1, <3>2 DEF DEPRESSOR_NONE, DEPRESSOR_MOUSE,
           DEPRESSOR_RAWPTS, DEPRESSOR_1B03
      <4>2. devBtn'[DEPRESSOR_1B03][b] = FALSE
        BY <1>1, <2>2, <3>2 DEF TypeOK, Sources
      <4> QED
        BY <3>2, <4>1, <4>2, Zenon DEF ReleasedBySetter
    <3>3. CASE ~(button_depressor[b] = DEPRESSOR_1B03 /\ ~p)
      BY <3>1, <3>3 DEF ReleasedBySetter
    <3> QED
      BY <3>2, <3>3
  <2> QED
    BY <2>1, <2>2
<1> QED
  BY <1>1, <1>2, <1>3 DEF BtnInv, FeaturesKnown

\* Raw-points button event: only the left button, and only once the driver
\* knows the raw-points index.
LEMMA RawPtsBtnInv ==
    ASSUME TypeOK, BtnInv, NEW p \in BOOLEAN,
           ButtonOnlyReport(FeatureReport(DevMtIdx, 1, p))
    PROVE  BtnInv' /\ \A b \in Buttons : ReleasedBySetter(b)
<1> DEFINE r == FeatureReport(DevMtIdx, 1, p)
<1>1. /\ button_depressor' = ButtonsRawPts(button_depressor, r)
      /\ devBtn' = [devBtn EXCEPT ![DEPRESSOR_RAWPTS][0] = p]
      /\ UNCHANGED <<mt_feature_index, feature_1b03>>
  BY RawPtsEffect DEF ButtonOnlyReport, ReportUnchanged, BtnInv
<1>2. ASSUME NEW b \in Buttons PROVE ButtonConsistent(b)'
  <2>1. ButtonConsistent(b)
    BY DEF BtnInv
  <2>2. CASE mt_feature_index # DevMtIdx
    BY <1>1, <2>1, <2>2 DEF ButtonConsistent, ButtonsRawPts, FeatureReport,
       TypeOK, Sources
  <2>3. CASE mt_feature_index = DevMtIdx /\ b # 0
    <3>1. button_depressor'[b] = button_depressor[b]
      BY <1>1, <2>3 DEF ButtonsRawPts, FeatureReport, TypeOK
    <3> QED
      BY <1>1, <2>1, <2>3, <3>1 DEF ButtonConsistent, TypeOK, Sources
  <2>4. CASE mt_feature_index = DevMtIdx /\ b = 0
    <3>1. button_depressor'[b] =
            IF button_depressor[b] = DEPRESSOR_NONE /\ p THEN DEPRESSOR_RAWPTS
            ELSE IF button_depressor[b] = DEPRESSOR_RAWPTS /\ ~p
                 THEN DEPRESSOR_NONE
                 ELSE button_depressor[b]
      BY <1>1, <2>4 DEF ButtonsRawPts, FeatureReport, TypeOK
    <3>2. \A c \in Buttons, t \in Sources :
            devBtn'[t][c] = IF t = DEPRESSOR_RAWPTS /\ c = 0 THEN p ELSE devBtn[t][c]
      BY <1>1 DEF TypeOK, Sources
    <3>3. CASE button_depressor[b] = DEPRESSOR_NONE /\ p
      <4>1. button_depressor'[b] = DEPRESSOR_RAWPTS
        BY <3>1, <3>3
      <4>2. devBtn'[DEPRESSOR_RAWPTS][b] = TRUE
        BY <3>2, <3>3, <2>4 DEF Sources, DEPRESSOR_NONE, DEPRESSOR_MOUSE,
           DEPRESSOR_RAWPTS, DEPRESSOR_1B03
      <4>3. /\ button_depressor'[b] # DEPRESSOR_NONE
            /\ button_depressor'[b] = DEPRESSOR_RAWPTS => mt_feature_index' = DevMtIdx
            /\ button_depressor'[b] = DEPRESSOR_1B03 => feature_1b03' = Dev1b03Idx
            /\ IgnoreMouseButtons => button_depressor'[b] # DEPRESSOR_MOUSE
        BY <1>1, <2>4, <4>1 DEF DEPRESSOR_NONE, DEPRESSOR_MOUSE,
           DEPRESSOR_RAWPTS, DEPRESSOR_1B03
      <4>4. devBtn'[button_depressor'[b]][b]
        BY <4>1, <4>2, Zenon
      <4> QED
        BY <4>3, <4>4, Zenon DEF ButtonConsistent
    <3>4. CASE button_depressor[b] = DEPRESSOR_RAWPTS /\ ~p
      BY <1>1, <3>1, <3>4 DEF ButtonConsistent, DEPRESSOR_NONE, DEPRESSOR_MOUSE,
         DEPRESSOR_RAWPTS, DEPRESSOR_1B03
    <3>5. CASE ~(button_depressor[b] = DEPRESSOR_NONE /\ p)
               /\ ~(button_depressor[b] = DEPRESSOR_RAWPTS /\ ~p)
      <4>1. button_depressor'[b] = button_depressor[b]
        BY <3>1, <3>5
      <4>2. button_depressor[b] # DEPRESSOR_NONE
              => devBtn'[button_depressor[b]][b]
        BY <2>1, <3>2, <3>5, <2>4 DEF ButtonConsistent, TypeOK, Sources
      <4> QED
        BY <1>1, <2>1, <4>1, <4>2 DEF ButtonConsistent
    <3> QED
      BY <3>3, <3>4, <3>5
  <2> QED
    BY <2>2, <2>3, <2>4
<1>3. ASSUME NEW b \in Buttons PROVE ReleasedBySetter(b)
  <2>1. CASE ~(mt_feature_index = DevMtIdx /\ b = 0)
    <3>1. button_depressor'[b] = button_depressor[b]
      BY <1>1, <2>1 DEF ButtonsRawPts, FeatureReport, TypeOK
    <3> QED
      BY <3>1 DEF ReleasedBySetter
  <2>2. CASE mt_feature_index = DevMtIdx /\ b = 0
    <3>1. button_depressor'[b] =
            IF button_depressor[b] = DEPRESSOR_NONE /\ p THEN DEPRESSOR_RAWPTS
            ELSE IF button_depressor[b] = DEPRESSOR_RAWPTS /\ ~p
                 THEN DEPRESSOR_NONE
                 ELSE button_depressor[b]
      BY <1>1, <2>2 DEF ButtonsRawPts, FeatureReport, TypeOK
    <3>2. CASE button_depressor[b] = DEPRESSOR_RAWPTS /\ ~p
      <4>1. button_depressor'[b] = DEPRESSOR_NONE
        BY <3>1, <3>2 DEF DEPRESSOR_NONE, DEPRESSOR_MOUSE,
           DEPRESSOR_RAWPTS, DEPRESSOR_1B03
      <4>2. devBtn'[DEPRESSOR_RAWPTS][b] = FALSE
        BY <1>1, <2>2, <3>2 DEF TypeOK, Sources
      <4> QED
        BY <3>2, <4>1, <4>2, Zenon DEF ReleasedBySetter
    <3>3. CASE ~(button_depressor[b] = DEPRESSOR_RAWPTS /\ ~p)
      BY <3>1, <3>3 DEF ReleasedBySetter
    <3> QED
      BY <3>2, <3>3
  <2> QED
    BY <2>1, <2>2
<1> QED
  BY <1>1, <1>2, <1>3 DEF BtnInv, FeaturesKnown


\* A bound driver's step keeps BtnInv and releases a button only on its
\* holder's report.  Unbinding (tm_remove, a failed probe) and a new probe
\* clear every depressor with the rest of tm_data; negotiation only learns
\* the mouse's own indices.
LEMMA NextBtnInv ==
    IInv /\ BtnInv /\ [Next]_vars
      => BtnInv' /\ (phase' = "bound" => \A b \in Buttons : ReleasedBySetter(b))
<1> SUFFICES ASSUME IInv, BtnInv, [Next]_vars
             PROVE  BtnInv' /\ (phase' = "bound" => \A b \in Buttons : ReleasedBySetter(b))
  OBVIOUS
<1>1. ASSUME ResetDriver, phase' # "bound" PROVE BtnInv'
  BY <1>1 DEF ResetDriver, BtnInv, FeaturesKnown, ButtonConsistent, DEPRESSOR_NONE, DEPRESSOR_MOUSE,
       DEPRESSOR_RAWPTS, DEPRESSOR_1B03
<1>2. ASSUME UNCHANGED <<button_depressor, devBtn, mt_feature_index, feature_1b03>>
      PROVE  BtnInv' /\ \A b \in Buttons : ReleasedBySetter(b)
  BY <1>2, ButtonsUnchangedBtnInv
<1>3. CASE ProbeStart \/ Remove
  BY <1>1, <1>3 DEF ProbeStart, Remove
<1>4. CASE ProbeFinish
  <2>1. CASE phase' = "bound"
    BY <1>2, <1>4, <2>1 DEF ProbeFinish
  <2>2. CASE phase' # "bound"
    BY <1>1, <1>4, <2>2 DEF ProbeFinish
  <2> QED
    BY <2>1, <2>2
<1>5. CASE GetFeature6110 \/ GetFeature1b03
  BY <1>5 DEF GetFeature6110, GetFeature1b03, NegUnchanged, BtnInv,
     FeaturesKnown, ButtonConsistent, ReleasedBySetter
<1>6. CASE \/ GetProtocolVersion \/ GetTouchpadInfo \/ RequestRawMode
           \/ NegCommandFails \/ Disconnect \/ Reconnect \/ ConnectChange
           \/ FingerSlot \/ UNCHANGED vars
  BY <1>2, <1>6 DEF GetProtocolVersion, GetTouchpadInfo, RequestRawMode,
     NegCommandFails, NegUnchanged, Disconnect, Reconnect, ConnectChange,
     FingerSlot, ReportUnchanged, vars
<1>7. CASE RawEventMouse
  <2>1. PICK btns \in SUBSET Buttons : ButtonOnlyReport(MouseReport(btns))
    BY <1>7 DEF RawEventMouse
  <2> QED
    BY <2>1, MouseReportBtnInv DEF IInv
<1>8. CASE RawEvent1b03
  <2>1. PICK p \in BOOLEAN :
          Dev1b03Idx # 0 /\ ButtonOnlyReport(FeatureReport(Dev1b03Idx, 0, p))
    BY <1>8 DEF RawEvent1b03
  <2> QED
    BY <2>1, Report1b03BtnInv DEF IInv
<1>9. CASE RawEventRawPtsButton
  <2>1. PICK p \in BOOLEAN : ButtonOnlyReport(FeatureReport(DevMtIdx, 1, p))
    BY <1>9 DEF RawEventRawPtsButton
  <2> QED
    BY <2>1, RawPtsBtnInv DEF IInv
<1>10. UNCHANGED <<mt_feature_index, feature_1b03>>
         /\ button_depressor' = emit_buttons(FeatureReport(DevMtIdx, 0, FALSE))
         /\ devBtn' = DeviceButtons(FeatureReport(DevMtIdx, 0, FALSE))
       => BtnInv' /\ \A b \in Buttons : ReleasedBySetter(b)
  BY <1>2, FingerReportEffect DEF BtnInv
<1>11. CASE RawEventFingers
  <2>1. PICK rec \in SUBSET Slots :
          IF DevMtIdx = mt_feature_index
          THEN /\ UNCHANGED <<button_depressor, devBtn>>
               /\ ReportUnchanged
          ELSE ButtonOnlyReport(FeatureReport(DevMtIdx, 0, FALSE))
    BY <1>11 DEF RawEventFingers
  <2>2. CASE DevMtIdx = mt_feature_index
    BY <1>2, <2>1, <2>2 DEF ReportUnchanged
  <2>3. CASE DevMtIdx # mt_feature_index
    BY <1>10, <2>1, <2>3 DEF ButtonOnlyReport, ReportUnchanged
  <2> QED
    BY <2>2, <2>3
<1>12. CASE FingerFrameEnd
  BY <1>10, <1>12 DEF FingerFrameEnd, ReportUnchanged
<1> QED
  BY <1>3, <1>4, <1>5, <1>6, <1>7, <1>8, <1>9, <1>11, <1>12 DEF Next

\* Init: no button is held and no feature index is known.
LEMMA InitBtnInv == Init => BtnInv
  BY DEF Init, FreshDriver, BtnInv, FeaturesKnown, ButtonConsistent, DEPRESSOR_NONE, DEPRESSOR_MOUSE,
       DEPRESSOR_RAWPTS, DEPRESSOR_1B03

\* For every mouse (any feature indices, with or without a 0x1b03 feature,
\* T620 or T650), emit_buttons never reports a button down that the source
\* holding it last reported up: no interleaving of mouse, 0x1b03 and
\* raw-points reports, renegotiation or rebinding leaves a button stuck.
THEOREM NoStuckButtonHolds == Spec => []NoStuckButton
<1>1. Init => IInv /\ BtnInv
  BY InitIInv, InitBtnInv
<1>2. IInv /\ BtnInv /\ [Next]_vars => IInv' /\ BtnInv'
  BY NextIInv, NextBtnInv
<1>3. BtnInv => NoStuckButton
  BY DEF BtnInv, ButtonConsistent, NoStuckButton
<1> QED
  BY <1>1, <1>2, <1>3, PTL DEF Spec

\* While the driver stays bound, a button held by one report source is
\* released only to NONE and only by that source's report saying it is up.
THEOREM ButtonOwnedBySetterHolds == Spec => ButtonOwnedBySetter
<1>1. Init => IInv /\ BtnInv
  BY InitIInv, InitBtnInv
<1>2. IInv /\ BtnInv /\ [Next]_vars => IInv' /\ BtnInv'
  BY NextIInv, NextBtnInv
<1>3. IInv /\ BtnInv /\ [Next]_vars
        => [phase' = "bound" =>
              \A b \in Buttons :
                 LET d == button_depressor[b] IN
                 d # DEPRESSOR_NONE /\ button_depressor'[b] # d =>
                     /\ button_depressor'[b] = DEPRESSOR_NONE
                     /\ ~devBtn'[d][b]]_vars
  BY NextBtnInv DEF ReleasedBySetter
<1> QED
  BY <1>1, <1>2, <1>3, PTL DEF Spec, ButtonOwnedBySetter


-----------------------------------------------------------------------------
(***************************************************************************)
(* Tracking ids.  emit_fingers gives a slot a new id only when the slot is *)
(* absent from prev_slots_used, so TrackingIdStable needs to know that a   *)
(* slot with a live id is in prev_slots_used, or, once the loop has passed *)
(* it in this report, in slots_used.  While max_fingers is 0 the loop      *)
(* touches no slot, so no slot has an id; that is what makes the frame end *)
(* (prev_slots_used = slots_used) keep the fact.                            *)
(***************************************************************************)
SlotIdsKnown ==
    /\ max_fingers = 0 => \A i \in Slots : sinkId[i] = NoId
    /\ \A i \in Slots :
         sinkId[i] # NoId =>
           IF loopI # NoLoop /\ i < loopI THEN i \in slots_used
           ELSE i \in prev_slots_used

\* The body of TrackingIdStable.
IdKept ==
    \A i \in Slots : sinkId[i] # NoId /\ sinkId'[i] # NoId => sinkId'[i] = sinkId[i]

\* A step that leaves the slot bookkeeping alone keeps SlotIdsKnown.
LEMMA SlotsUnchangedIds ==
    ASSUME SlotIdsKnown,
           UNCHANGED <<max_fingers, sinkId, loopI, slots_used, prev_slots_used>>
    PROVE  SlotIdsKnown' /\ IdKept
  BY DEF SlotIdsKnown, IdKept

\* A step that clears every tracking id with the rest of tm_data.
LEMMA ResetIds ==
    ASSUME ResetDriver PROVE SlotIdsKnown' /\ IdKept
  BY DEF ResetDriver, SlotIdsKnown, IdKept

LEMMA NextSlotIds ==
    IInv /\ SlotIdsKnown /\ [Next]_vars => SlotIdsKnown' /\ IdKept
<1> SUFFICES ASSUME IInv, SlotIdsKnown, [Next]_vars
             PROVE  SlotIdsKnown' /\ IdKept
  OBVIOUS
<1>1. CASE ProbeStart \/ Remove
  BY <1>1, ResetIds DEF ProbeStart, Remove
<1>2. CASE ProbeFinish
  BY <1>2, ResetIds, SlotsUnchangedIds DEF ProbeFinish
<1>3. CASE GetTouchpadInfo
  BY <1>3 DEF GetTouchpadInfo, NegUnchanged, SlotIdsKnown, IdKept
<1>4. CASE \/ GetProtocolVersion \/ GetFeature6110 \/ GetFeature1b03
           \/ RequestRawMode \/ NegCommandFails
           \/ Disconnect \/ Reconnect \/ ConnectChange \/ UNCHANGED vars
  BY <1>4, SlotsUnchangedIds DEF GetProtocolVersion, GetFeature6110,
     GetFeature1b03, RequestRawMode, NegCommandFails, NegUnchanged,
     Disconnect, Reconnect, ConnectChange, vars
<1>5. ASSUME NEW r, ButtonOnlyReport(r) PROVE SlotIdsKnown' /\ IdKept
  BY <1>5, SlotsUnchangedIds DEF ButtonOnlyReport, ReportUnchanged
<1>6. CASE RawEventMouse \/ RawEvent1b03 \/ RawEventRawPtsButton
  BY <1>5, <1>6 DEF RawEventMouse, RawEvent1b03, RawEventRawPtsButton
<1>7. CASE RawEventFingers
  <2>1. loopI = NoLoop
    BY <1>7 DEF RawEventFingers, CanReport
  <2>2. CASE DevMtIdx = mt_feature_index
    <3>1. /\ loopI' = 0 /\ slots_used' = {}
          /\ UNCHANGED <<max_fingers, sinkId, prev_slots_used>>
      BY <1>7, <2>2 DEF RawEventFingers, ReportUnchanged
    <3> QED
      BY <2>1, <3>1 DEF SlotIdsKnown, IdKept, NoLoop, Slots
  <2>3. CASE DevMtIdx # mt_feature_index
    BY <1>5, <1>7, <2>3 DEF RawEventFingers
  <2> QED
    BY <2>2, <2>3
<1>8. CASE FingerSlot
  <2> DEFINE k == loopI
  <2>1. /\ k \in 0..(DevMaxFingers - 1) /\ k < max_fingers
        /\ loopI' = k + 1
        /\ UNCHANGED <<max_fingers, prev_slots_used>>
    BY <1>8 DEF FingerSlot, IInv, TypeOK, MaxFingersKnown, NoLoop, ReportUnchanged
  <2>2. next_tracking_id # NoId
    BY DEF IInv, IdInRange, NoId
  <2>3. \A i \in Slots \ {k} :
          /\ sinkId'[i] = sinkId[i]
          /\ slots_used \subseteq slots_used'
    BY <1>8 DEF FingerSlot, IInv, TypeOK, Slots
  <2>4. ASSUME NEW i \in Slots \ {k}
        PROVE  /\ sinkId'[i] # NoId =>
                    IF loopI' # NoLoop /\ i < loopI' THEN i \in slots_used'
                    ELSE i \in prev_slots_used'
               /\ sinkId[i] # NoId /\ sinkId'[i] # NoId => sinkId'[i] = sinkId[i]
    BY <2>1, <2>3 DEF SlotIdsKnown, NoLoop, Slots
  <2>5. ASSUME NEW i \in Slots, i = k
        PROVE  /\ sinkId'[i] # NoId =>
                    IF loopI' # NoLoop /\ i < loopI' THEN i \in slots_used'
                    ELSE i \in prev_slots_used'
               /\ sinkId[i] # NoId /\ sinkId'[i] # NoId => sinkId'[i] = sinkId[i]
    <3>1. CASE k \notin loopRec
      BY <1>8, <2>1, <2>5, <3>1 DEF FingerSlot, IInv, TypeOK, Slots
    <3>2. CASE k \in loopRec /\ k \notin prev_slots_used
      <4>1. sinkId[k] = NoId
        BY <2>1, <2>5, <3>2 DEF SlotIdsKnown, NoLoop
      <4> QED
        BY <1>8, <2>1, <2>5, <3>2, <4>1 DEF FingerSlot, IInv, TypeOK, Slots, NoLoop
    <3>3. CASE k \in loopRec /\ k \in prev_slots_used
      BY <1>8, <2>1, <2>5, <3>3 DEF FingerSlot, NoLoop
    <3> QED
      BY <3>1, <3>2, <3>3
  <2>6. max_fingers' # 0
    BY <2>1
  <2> QED
    BY <2>4, <2>5, <2>6 DEF SlotIdsKnown, IdKept
<1>9. CASE FingerFrameEnd
  <2>1. /\ loopI' = NoLoop /\ prev_slots_used' = slots_used
        /\ UNCHANGED <<max_fingers, sinkId>>
        /\ loopI # NoLoop /\ loopI >= max_fingers
    BY <1>9 DEF FingerFrameEnd, ReportUnchanged
  <2>2. CASE max_fingers = 0
    BY <2>1, <2>2 DEF SlotIdsKnown, IdKept
  <2>3. CASE max_fingers = DevMaxFingers
    <3>1. \A i \in Slots : i < loopI
      BY <2>1, <2>3 DEF Slots, IInv, TypeOK, NoLoop
    <3> QED
      BY <2>1, <3>1 DEF SlotIdsKnown, IdKept
  <2> QED
    BY <2>2, <2>3 DEF IInv, MaxFingersKnown
<1> QED
  BY <1>1, <1>2, <1>3, <1>4, <1>6, <1>7, <1>8, <1>9 DEF Next

\* Init: no slot has a tracking id.
LEMMA InitSlotIds == Init => SlotIdsKnown
  BY DEF Init, FreshDriver, SlotIdsKnown, NoId

\* For every counter width and finger count, a slot that keeps a finger
\* from one report to the next keeps its tracking id: emit_fingers never
\* renumbers a live contact, whatever renegotiation or rebinding happens.
THEOREM TrackingIdStableHolds == Spec => TrackingIdStable
<1>1. Init => IInv /\ SlotIdsKnown
  BY InitIInv, InitSlotIds
<1>2. IInv /\ SlotIdsKnown /\ [Next]_vars => IInv' /\ SlotIdsKnown'
  BY NextIInv, NextSlotIds
<1>3. IInv /\ SlotIdsKnown /\ [Next]_vars => [IdKept]_vars
  BY NextSlotIds
<1> QED
  BY <1>1, <1>2, <1>3, PTL DEF Spec, TrackingIdStable, IdKept


-----------------------------------------------------------------------------
(***************************************************************************)
(* The refinement of ContactTracker.  Mid-report, a slot's tracking id is  *)
(* live exactly when the slot is in slots_used, if the loop has passed it, *)
(* or in prev_slots_used, if not; slots_used is the passed slots whose     *)
(* record is a contact.  A loop runs only in a bound driver (reports are  *)
(* taken only once hid_hw_start has run, in a successful probe) and stops *)
(* at max_fingers, and while max_fingers is 0 no slot was used.            *)
(***************************************************************************)
TrackerInv ==
    /\ hid_hw_started => phase = "bound"
    /\ loopI # NoLoop => phase = "bound" /\ loopI <= max_fingers
    /\ max_fingers = 0 => prev_slots_used = {}
    /\ slots_used = {i \in Visited : i \in loopRec}
    /\ \A i \in Slots :
         sinkId[i] # NoId <=>
           IF i \in Visited THEN i \in slots_used ELSE i \in prev_slots_used


\* A step that clears tm_data outside a report keeps TrackerInv.
LEMMA ResetTrackerInv ==
    ASSUME TrackerInv, ResetDriver, loopI = NoLoop,
           UNCHANGED <<loopI, loopRec, slots_used>>
    PROVE  TrackerInv'
  BY DEF ResetDriver, TrackerInv, Visited

\* A step that leaves the slot bookkeeping alone keeps TrackerInv.
LEMMA SlotsUnchangedTrackerInv ==
    ASSUME TrackerInv,
           UNCHANGED <<phase, hid_hw_started, max_fingers, prev_slots_used,
                       slots_used, loopI, loopRec, sinkId>>
    PROVE  TrackerInv'
  BY DEF TrackerInv, Visited

LEMMA NextTrackerInv == IInv /\ TrackerInv /\ [Next]_vars => TrackerInv'
<1> SUFFICES ASSUME IInv, TrackerInv, [Next]_vars PROVE TrackerInv'
  OBVIOUS
<1>1. phase # "bound" => loopI = NoLoop
  BY DEF TrackerInv
<1>2. CASE ProbeStart \/ Remove
  BY <1>1, <1>2, ResetTrackerInv DEF ProbeStart, Remove
<1>3. CASE ProbeFinish
  <2>1. loopI = NoLoop
    BY <1>1, <1>3 DEF ProbeFinish
  <2>2. CASE phase' = "bound"
    BY <1>3, <2>1, <2>2 DEF ProbeFinish, TrackerInv, Visited
  <2>3. CASE phase' # "bound"
    BY <1>3, <2>1, <2>3, ResetTrackerInv DEF ProbeFinish
  <2> QED
    BY <2>2, <2>3
<1>4. CASE GetTouchpadInfo
  <2>1. /\ max_fingers' = DevMaxFingers
        /\ UNCHANGED <<phase, hid_hw_started, prev_slots_used, slots_used,
                       loopI, loopRec, sinkId>>
    BY <1>4 DEF GetTouchpadInfo, NegUnchanged
  <2>2. loopI # NoLoop => loopI <= DevMaxFingers
    BY DEF TrackerInv, IInv, TypeOK, MaxFingersKnown, NoLoop
  <2>3. UNCHANGED Visited
    BY <2>1 DEF Visited
  <2> QED
    BY <2>1, <2>2, <2>3 DEF TrackerInv
<1>5. CASE \/ GetProtocolVersion \/ GetFeature6110 \/ GetFeature1b03
           \/ RequestRawMode \/ NegCommandFails
           \/ Disconnect \/ Reconnect \/ ConnectChange \/ UNCHANGED vars
  BY <1>5, SlotsUnchangedTrackerInv DEF GetProtocolVersion, GetFeature6110,
     GetFeature1b03, RequestRawMode, NegCommandFails, NegUnchanged,
     Disconnect, Reconnect, ConnectChange, vars
<1>6. ASSUME NEW r, ButtonOnlyReport(r) PROVE TrackerInv'
  BY <1>6, SlotsUnchangedTrackerInv DEF ButtonOnlyReport, ReportUnchanged
<1>7. CASE RawEventMouse \/ RawEvent1b03 \/ RawEventRawPtsButton
  BY <1>6, <1>7 DEF RawEventMouse, RawEvent1b03, RawEventRawPtsButton
<1>8. CASE RawEventFingers
  <2>1. hid_hw_started /\ loopI = NoLoop
    BY <1>8 DEF RawEventFingers, CanReport
  <2>2. CASE DevMtIdx = mt_feature_index
    <3>1. /\ loopI' = 0 /\ slots_used' = {}
          /\ UNCHANGED <<phase, hid_hw_started, max_fingers, sinkId,
                         prev_slots_used>>
      BY <1>8, <2>2 DEF RawEventFingers, ReportUnchanged
    <3>2. Visited = {} /\ Visited' = {}
      BY <2>1, <3>1 DEF Visited, NoLoop
    <3> QED
      BY <2>1, <3>1, <3>2 DEF TrackerInv, IInv, TypeOK
  <2>3. CASE DevMtIdx # mt_feature_index
    BY <1>6, <1>8, <2>3 DEF RawEventFingers
  <2> QED
    BY <2>2, <2>3
<1>9. CASE FingerSlot
  <2> DEFINE k == loopI
  <2>1. /\ k \in 0..(DevMaxFingers - 1) /\ k < max_fingers
        /\ loopI' = k + 1
        /\ UNCHANGED <<phase, hid_hw_started, max_fingers, prev_slots_used,
                       loopRec>>
    BY <1>9 DEF FingerSlot, IInv, TypeOK, MaxFingersKnown, NoLoop, ReportUnchanged
  <2>2. Visited = 0..(k - 1) /\ Visited' = 0..k
    BY <2>1 DEF Visited, NoLoop
  <2>3. phase = "bound"
    BY <2>1 DEF TrackerInv, NoLoop
  <2>4. \A i \in Slots \ {k} : sinkId'[i] = sinkId[i]
    BY <1>9 DEF FingerSlot, IInv, TypeOK
  <2>5. /\ slots_used' = {i \in Visited' : i \in loopRec}
        /\ sinkId'[k] # NoId <=> k \in loopRec
    <3>1. CASE k \notin loopRec
      BY <1>9, <2>1, <2>2, <3>1 DEF FingerSlot, TrackerInv, IInv, TypeOK, Slots
    <3>2. CASE k \in loopRec /\ k \notin prev_slots_used
      BY <1>9, <2>1, <2>2, <3>2 DEF FingerSlot, TrackerInv, IInv, TypeOK,
         IdInRange, Slots, NoId
    <3>3. CASE k \in loopRec /\ k \in prev_slots_used
      <4>1. sinkId[k] # NoId
        BY <2>1, <2>2, <3>3 DEF TrackerInv, Slots
      <4> QED
        BY <1>9, <2>1, <2>2, <3>3, <4>1 DEF FingerSlot, TrackerInv
    <3> QED
      BY <3>1, <3>2, <3>3
  <2>6. ASSUME NEW i \in Slots
        PROVE  sinkId'[i] # NoId <=>
                 IF i \in Visited' THEN i \in slots_used' ELSE i \in prev_slots_used'
    <3>1. CASE i = k
      BY <2>1, <2>2, <2>5, <3>1
    <3>2. CASE i # k
      BY <2>1, <2>2, <2>4, <2>5, <3>2 DEF TrackerInv, Slots
    <3> QED
      BY <3>1, <3>2
  <2>7. /\ hid_hw_started' => phase' = "bound"
        /\ loopI' # NoLoop => phase' = "bound" /\ loopI' <= max_fingers'
        /\ max_fingers' = 0 => prev_slots_used' = {}
    BY <2>1, <2>3 DEF TrackerInv, IInv, TypeOK, NoLoop
  <2>8. \A i \in Slots :
          sinkId'[i] # NoId <=>
            IF i \in Visited' THEN i \in slots_used' ELSE i \in prev_slots_used'
    BY <2>6
  <2> QED
    BY <2>1, <2>5, <2>7, <2>8 DEF TrackerInv
<1>10. CASE FingerFrameEnd
  <2>1. /\ loopI' = NoLoop /\ prev_slots_used' = slots_used
        /\ slots_used' = {} /\ loopRec' = {}
        /\ UNCHANGED <<phase, hid_hw_started, max_fingers, sinkId>>
        /\ loopI # NoLoop /\ loopI >= max_fingers
    BY <1>10 DEF FingerFrameEnd, ReportUnchanged
  <2>2. Visited' = {}
    BY <2>1 DEF Visited
  <2>3. CASE max_fingers = 0
    <3>1. Visited = {}
      BY <2>1, <2>3 DEF TrackerInv, Visited, IInv, TypeOK, NoLoop
    <3> QED
      BY <2>1, <2>2, <2>3, <3>1 DEF TrackerInv
  <2>4. CASE max_fingers = DevMaxFingers
    <3>1. Visited = Slots
      BY <2>1, <2>4 DEF TrackerInv, Visited, IInv, TypeOK, NoLoop, Slots
    <3> QED
      BY <2>1, <2>2, <2>4, <3>1 DEF TrackerInv
  <2> QED
    BY <2>3, <2>4 DEF IInv, MaxFingersKnown
<1> QED
  BY <1>2, <1>3, <1>4, <1>5, <1>7, <1>8, <1>9, <1>10 DEF Next


\* Init: the fresh driver is a fresh tracker, between frames.
LEMMA InitTracker == Init => TrackerInv /\ Tracker!Init
<1> SUFFICES ASSUME Init PROVE TrackerInv /\ Tracker!Init
  OBVIOUS
<1>1. loopI = NoLoop /\ Visited = {} /\ \A i \in Slots : sinkId[i] = NoId
  BY DEF Init, FreshDriver, NoFingerLoop, Visited
<1>2. TrackerInv
  BY <1>1 DEF Init, FreshDriver, NoFingerLoop, TrackerInv
<1>3. /\ TrackedActive = {}
      /\ TrackedFrame = Tracker!NoFrame
      /\ TrackedReport = Tracker!NoFrame
      /\ TrackedClosing
  BY <1>1 DEF TrackedActive, TrackedFrame, TrackedReport, TrackedClosing,
     Tracker!NoFrame, NoLoop
<1> QED
  BY <1>2, <1>3 DEF Tracker!Init

\* An iteration of the emit_fingers loop for slot k is a report inside the
\* frame naming k alone, touching unless its record is the sentinel.
LEMMA FingerSlotRefines ==
    ASSUME IInv, TrackerInv, TrackerInv', FingerSlot
    PROVE  Tracker!Next
<1> DEFINE k == loopI
           R == [i \in {k} |-> i \in loopRec]
           M == Tracker!Merge(TrackedFrame, R)
<1>1. /\ k \in 0..(DevMaxFingers - 1)
      /\ loopI' = k + 1
      /\ loopRec' = loopRec
      /\ \A i \in Slots \ {k} : sinkId'[i] = sinkId[i]
  BY DEF FingerSlot, IInv, TypeOK, MaxFingersKnown, NoLoop
<1>2. Visited = 0..(k - 1) /\ Visited' = 0..k
  BY <1>1 DEF Visited, NoLoop
<1>3. R \in Tracker!Statuses
  <2>1. {k} \in SUBSET Slots /\ R \in [{k} -> BOOLEAN]
    BY <1>1 DEF Slots
  <2> QED
    BY <2>1 DEF Tracker!Statuses
<1>4. TrackedReport' = R /\ TrackedClosing' = FALSE
  BY <1>1 DEF TrackedReport, TrackedClosing, NoLoop
<1>5. sinkId'[k] # NoId <=> k \in loopRec
  <2>1. k \in Slots /\ k \in Visited'
    BY <1>1, <1>2 DEF Slots
  <2> QED
    BY <1>1, <2>1 DEF TrackerInv
<1>6. TrackedActive' = (TrackedActive \ DOMAIN R) \cup Tracker!Touching(R)
  <2>1. ASSUME NEW i \in Slots
        PROVE  i \in TrackedActive' <=>
                 i \in (TrackedActive \ DOMAIN R) \cup Tracker!Touching(R)
    <3>1. CASE i = k
      BY <1>5, <3>1 DEF TrackedActive, Tracker!Touching
    <3>2. CASE i # k
      BY <1>1, <3>2 DEF TrackedActive, Tracker!Touching
    <3> QED
      BY <3>1, <3>2
  <2>2. Tracker!Touching(R) \subseteq Slots
    BY <1>1 DEF Tracker!Touching, Slots
  <2> QED
    BY <2>1, <2>2 DEF TrackedActive
<1>7. TrackedFrame' = M
  <2>1. DOMAIN M = Visited'
    BY <1>1, <1>2 DEF Tracker!Merge, TrackedFrame
  <2>2. \A i \in Visited' : M[i] = (i \in loopRec)
    BY <1>1, <1>2 DEF Tracker!Merge, TrackedFrame
  <2>3. M = [i \in DOMAIN M |-> M[i]]
    BY DEF Tracker!Merge
  <2> QED
    BY <1>1, <2>1, <2>2, <2>3 DEF TrackedFrame
<1> QED
  BY <1>3, <1>4, <1>6, <1>7 DEF Tracker!Next, Tracker!Report

\* The end of emit_fingers closes the frame: the host then sees exactly
\* the slots whose record in this report was a contact.
LEMMA FrameEndRefines ==
    ASSUME IInv, TrackerInv, TrackerInv', FingerFrameEnd
    PROVE  Tracker!Next
<1> DEFINE R == Tracker!NoFrame
<1>1. /\ loopI' = NoLoop /\ prev_slots_used' = slots_used
      /\ loopRec' = {} /\ UNCHANGED sinkId
  BY DEF FingerFrameEnd
<1>2. R \in Tracker!Statuses
  <2>1. {} \in SUBSET Slots /\ R \in [{} -> BOOLEAN]
    BY DEF Tracker!NoFrame
  <2> QED
    BY <2>1 DEF Tracker!Statuses
<1>3. TrackedReport' = R /\ TrackedClosing' = TRUE /\ TrackedFrame' = Tracker!NoFrame
  BY <1>1 DEF TrackedReport, TrackedClosing, TrackedFrame, Visited,
     Tracker!NoFrame, NoLoop
<1>4. TrackedActive' = slots_used
  <2>1. \A i \in Slots : sinkId'[i] # NoId <=> i \in slots_used
    BY <1>1 DEF TrackerInv, Visited
  <2>2. slots_used \subseteq Slots
    BY DEF IInv, TypeOK
  <2> QED
    BY <2>1, <2>2 DEF TrackedActive
<1>5. Tracker!Touching(Tracker!Merge(TrackedFrame, R)) = slots_used
  BY DEF Tracker!Touching, Tracker!Merge, TrackedFrame, Tracker!NoFrame, TrackerInv
<1> QED
  BY <1>2, <1>3, <1>4, <1>5 DEF Tracker!Next, Tracker!Report


\* A step that leaves the slots, the loop index and the records alone leaves
\* the tracked state alone.
LEMMA SlotsUnchangedTracker ==
    ASSUME UNCHANGED <<sinkId, loopI, loopRec>>
    PROVE  UNCHANGED Tracker!vars
  BY DEF TrackedActive, TrackedFrame, TrackedReport, TrackedClosing, Visited,
     Tracker!vars

\* tm_probe, a failed probe and tm_remove clear every slot: the tracker's Reset.
LEMMA ResetRefines ==
    ASSUME ResetDriver, loopI = NoLoop, UNCHANGED <<loopI, loopRec>>
    PROVE  Tracker!Next
<1>1. TrackedActive' = {}
  BY DEF ResetDriver, TrackedActive
<1>2. TrackedFrame' = Tracker!NoFrame /\ TrackedClosing'
  BY DEF TrackedFrame, TrackedClosing, Visited, Tracker!NoFrame
<1>3. UNCHANGED TrackedReport
  BY DEF TrackedReport
<1> QED
  BY <1>1, <1>2, <1>3 DEF Tracker!Next, Tracker!Reset

\* Every step of the driver is a step of the tracker or a stutter.
LEMMA NextTracker ==
    IInv /\ TrackerInv /\ TrackerInv' /\ [Next]_vars
      => [Tracker!Next]_Tracker!vars
<1> SUFFICES ASSUME IInv, TrackerInv, TrackerInv', [Next]_vars
             PROVE  [Tracker!Next]_Tracker!vars
  OBVIOUS
<1>1. phase # "bound" => loopI = NoLoop
  BY DEF TrackerInv
<1>2. CASE ProbeStart \/ Remove
  BY <1>1, <1>2, ResetRefines DEF ProbeStart, Remove
<1>3. CASE ProbeFinish
  <2>1. loopI = NoLoop
    BY <1>1, <1>3 DEF ProbeFinish
  <2>2. CASE phase' = "bound"
    BY <1>3, <2>2, SlotsUnchangedTracker DEF ProbeFinish
  <2>3. CASE phase' # "bound"
    BY <1>3, <2>1, <2>3, ResetRefines DEF ProbeFinish
  <2> QED
    BY <2>2, <2>3
<1>4. CASE \/ GetProtocolVersion \/ GetFeature6110 \/ GetFeature1b03
           \/ GetTouchpadInfo \/ RequestRawMode \/ NegCommandFails
           \/ Disconnect \/ Reconnect \/ ConnectChange \/ UNCHANGED vars
  BY <1>4, SlotsUnchangedTracker DEF GetProtocolVersion, GetFeature6110,
     GetFeature1b03, GetTouchpadInfo, RequestRawMode, NegCommandFails,
     NegUnchanged, Disconnect, Reconnect, ConnectChange, vars
<1>5. ASSUME NEW r, ButtonOnlyReport(r) PROVE UNCHANGED Tracker!vars
  BY <1>5, SlotsUnchangedTracker DEF ButtonOnlyReport
<1>6. CASE RawEventMouse \/ RawEvent1b03 \/ RawEventRawPtsButton
  BY <1>5, <1>6 DEF RawEventMouse, RawEvent1b03, RawEventRawPtsButton
\* Starting the loop changes nothing the host sees: no slot is visited yet.
<1>7. CASE RawEventFingers
  <2>1. loopI = NoLoop
    BY <1>7 DEF RawEventFingers, CanReport
  <2>2. CASE DevMtIdx = mt_feature_index
    <3>1. loopI' = 0 /\ UNCHANGED sinkId
      BY <1>7, <2>2 DEF RawEventFingers
    <3>2. Visited = {} /\ Visited' = {}
      BY <2>1, <3>1 DEF Visited, NoLoop
    <3>3. /\ UNCHANGED TrackedActive
          /\ TrackedFrame = Tracker!NoFrame /\ TrackedFrame' = Tracker!NoFrame
          /\ UNCHANGED TrackedReport
          /\ UNCHANGED TrackedClosing
      BY <2>1, <3>1, <3>2 DEF TrackedActive, TrackedFrame, TrackedReport,
         TrackedClosing, Tracker!NoFrame, NoLoop
    <3> QED
      BY <3>3 DEF Tracker!vars
  <2>3. CASE DevMtIdx # mt_feature_index
    BY <1>5, <1>7, <2>3 DEF RawEventFingers
  <2> QED
    BY <2>2, <2>3
<1>8. CASE FingerSlot
  BY <1>8, FingerSlotRefines
<1>9. CASE FingerFrameEnd
  BY <1>9, FrameEndRefines
<1> QED
  BY <1>2, <1>3, <1>4, <1>6, <1>7, <1>8, <1>9 DEF Next

\* Across reports, renegotiation and rebinding, the multitouch slots that
\* emit_fingers drives implement the abstract contact tracker: each loop
\* iteration changes only the slot it visits, and after each report the
\* host sees exactly the slots whose record was a contact.
THEOREM TrackerRefinement == Spec => TrackerSpec
<1>1. Init => IInv /\ TrackerInv
  BY InitIInv, InitTracker
<1>2. IInv /\ TrackerInv /\ [Next]_vars => IInv' /\ TrackerInv'
  BY NextIInv, NextTrackerInv
<1>3. Init => Tracker!Init
  BY InitTracker
<1>4. IInv /\ TrackerInv /\ TrackerInv' /\ [Next]_vars
        => [Tracker!Next]_Tracker!vars
  BY NextTracker
<1> QED
  BY <1>1, <1>2, <1>3, <1>4, PTL DEF Spec, TrackerSpec, Tracker!Spec

\* A slot's tracking id is live exactly when the slot was a contact in the
\* last report, or in this one once the emit_fingers loop has passed it.
THEOREM TrackerInvHolds == Spec => []TrackerInv
<1>1. Init => IInv /\ TrackerInv
  BY InitIInv, InitTracker
<1>2. IInv /\ TrackerInv /\ [Next]_vars => IInv' /\ TrackerInv'
  BY NextIInv, NextTrackerInv
<1> QED
  BY <1>1, <1>2, PTL DEF Spec

=============================================================================
