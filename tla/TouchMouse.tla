----------------------------- MODULE TouchMouse -----------------------------
(***************************************************************************)
(* The Logitech touch-mouse driver, drivers/hid/hid-logitech-tm.c.         *)
(*                                                                         *)
(* Three contexts share the driver data struct tm_data:                    *)
(*  - probe (tm_probe), which negotiates raw mode with the mouse through   *)
(*    tm_set_raw_report_state and then starts the HID hardware;            *)
(*  - the HID++ connection work, which calls tm_connect_change when the    *)
(*    mouse comes back into range and re-runs tm_set_raw_report_state;     *)
(*  - report delivery, which calls tm_raw_event for every report.          *)
(* tm_set_raw_report_state issues five blocking commands; each is one step *)
(* here, so reports are decoded between them.  The finger loop of          *)
(* emit_fingers is one step per slot, since it re-reads tp_info.max_fingers *)
(* on every iteration while the connection work may be rewriting it.       *)
(*                                                                         *)
(* Data is abstracted: a finger record is "contact" or the 0xff sentinel,  *)
(* coordinates and relative motion are left to module TouchCodec; a report *)
(* carries only the fields that the decoder branches on.                   *)
(***************************************************************************)
EXTENDS Integers, FiniteSets

CONSTANTS
    DevMaxFingers,      \* max_fingers the mouse reports in its params reply
    DevMtIdx,           \* the mouse's feature index of 0x6110 (raw points)
    Dev1b03Idx,         \* the mouse's feature index of 0x1b03 (0: absent)
    IdMod,              \* 2^16: next_tracking_id is a __u16
    IgnoreMouseButtons  \* product == UNIFYING_DEVICE_ID_TOUCH_MOUSE_T620

\* A long HID++ report has 16 parameter bytes: at most 4 finger records.
ASSUME DevMaxFingersAssumption == DevMaxFingers \in 1..4
ASSUME FeatureIdxAssumption ==
    /\ DevMtIdx \in 1..255
    /\ Dev1b03Idx \in 0..255
    /\ DevMtIdx # Dev1b03Idx
ASSUME IdModAssumption == IdMod \in Nat /\ IdMod >= 3
ASSUME IgnoreAssumption == IgnoreMouseButtons \in BOOLEAN

VARIABLES
    \* --- driver binding and tm_data ---
    phase,                \* "unbound" | "probing" | "bound"
    mt_feature_index,     \* fd->mt_feature_index
    feature_1b03,         \* fd->feature_1b03
    max_fingers,          \* fd->tp_info.max_fingers
    hid_hw_started,       \* fd->hid_hw_started
    in_raw_mode,          \* fd->in_raw_mode
    next_tracking_id,     \* fd->next_tracking_id
    prev_slots_used,      \* fd->prev_slots_used, as the set of its bits
    button_depressor,     \* fd->button_depressor[0..2]
    \* --- tm_set_raw_report_state in progress ---
    negPc,                \* next command to send, or "idle"
    connPending,          \* a connect notification queued for the HID++ work
    \* --- emit_fingers in progress ---
    loopI,                \* loop index i, or NoLoop
    loopRec,              \* slots whose record is not the 0xff sentinel
    slots_used,           \* local slots_used of emit_fingers
    \* --- the mouse ---
    connected,            \* in radio range
    devRaw,               \* sending raw-points reports
    devBtn,               \* devBtn[src][b]: src's latest report says b is down
    \* --- what the input device has been told ---
    input_num_slots,      \* input_mt_init_slots(input, ...) at hid_hw_start
    sinkId,               \* last ABS_MT_TRACKING_ID emitted per slot (-1: none)
    toolKeys              \* k with BTN_TOOL_* for k fingers last reported 1

vars == <<phase, mt_feature_index, feature_1b03, max_fingers, hid_hw_started,
          in_raw_mode, next_tracking_id, prev_slots_used, button_depressor,
          negPc, connPending, loopI, loopRec, slots_used, connected, devRaw,
          devBtn, input_num_slots, sinkId, toolKeys>>

-----------------------------------------------------------------------------
Slots == 0..(DevMaxFingers - 1)
Buttons == 0..2                       \* 0: BTN_LEFT, 1: BTN_RIGHT, 2: BTN_MIDDLE
NoLoop == -1
NoId == -1

\* DEPRESSOR_NONE, DEPRESSOR_MOUSE, DEPRESSOR_RAWPTS, DEPRESSOR_1B03
DEPRESSOR_NONE == 0
DEPRESSOR_MOUSE == 1
DEPRESSOR_RAWPTS == 2
DEPRESSOR_1B03 == 3
Sources == {DEPRESSOR_MOUSE, DEPRESSOR_RAWPTS, DEPRESSOR_1B03}

\* The commands of tm_set_raw_report_state, in the order they are sent.
NegStates == {"idle", "root", "feat6110", "feat1b03", "params", "enable"}

\* The value of the u8 bit mask whose set bits are S (slots are < 4).
SlotMask(S) ==
    (IF 0 \in S THEN 1 ELSE 0) + (IF 1 \in S THEN 2 ELSE 0)
  + (IF 2 \in S THEN 4 ELSE 0) + (IF 3 \in S THEN 8 ELSE 0)

\* Mutant: the skip of 0xffff forgotten.
NextTrackingIdNoSkip(n) == (n + 1) % IdMod

\* fd->next_tracking_id++ (a __u16) and the skip of 0xffff.
NextTrackingId(n) ==
    LET m == (n + 1) % IdMod
    IN  IF m = IdMod - 1 THEN 1 ELSE m

(***************************************************************************)
(* A report, as far as tm_raw_event and emit_buttons look at it: the       *)
(* report id (bytes[0]), the feature index (bytes[2]), the high nibble of  *)
(* bytes[3], the button bits of a mouse report (bytes[1]) and the one      *)
(* button byte of a feature event (bytes[5] for 0x1b03, bytes[4] & 2 for   *)
(* the raw-points button event).                                           *)
(***************************************************************************)
MouseReport(btns) ==
    [id |-> 2, feat |-> 0, sub |-> 0, btns |-> btns, pressed |-> FALSE]
FeatureReport(f, s, p) ==
    [id |-> 17, feat |-> f, sub |-> s, btns |-> {}, pressed |-> p]

\* The per-source state machines of emit_buttons, in the order of the code.
\* Mutant: a mouse report releases a button whoever pressed it.
MouseButtonsAnyRelease(dep, r) ==
    IF r.id = 2 /\ ~IgnoreMouseButtons
    THEN [b \in Buttons |->
            IF dep[b] = DEPRESSOR_NONE /\ b \in r.btns THEN DEPRESSOR_MOUSE
            ELSE IF dep[b] # DEPRESSOR_NONE /\ b \notin r.btns
                 THEN DEPRESSOR_NONE
                 ELSE dep[b]]
    ELSE dep

MouseButtons(dep, r) ==
    IF r.id = 2 /\ ~IgnoreMouseButtons
    THEN [b \in Buttons |->
            IF dep[b] = DEPRESSOR_NONE /\ b \in r.btns THEN DEPRESSOR_MOUSE
            ELSE IF dep[b] = DEPRESSOR_MOUSE /\ b \notin r.btns
                 THEN DEPRESSOR_NONE
                 ELSE dep[b]]
    ELSE dep

Buttons1b03(dep, r) ==
    IF r.id = 17 /\ r.feat = feature_1b03
    THEN [dep EXCEPT ![2] =
            IF @ = DEPRESSOR_NONE /\ r.pressed THEN DEPRESSOR_1B03
            ELSE IF @ = DEPRESSOR_1B03 /\ ~r.pressed THEN DEPRESSOR_NONE
                 ELSE @]
    ELSE dep

\* Mutant: the raw-points release branch missing.
ButtonsRawPtsNoRelease(dep, r) ==
    IF r.id = 17 /\ r.feat = mt_feature_index /\ r.sub = 1
    THEN [dep EXCEPT ![0] =
            IF @ = DEPRESSOR_NONE /\ r.pressed THEN DEPRESSOR_RAWPTS ELSE @]
    ELSE dep

ButtonsRawPts(dep, r) ==
    IF r.id = 17 /\ r.feat = mt_feature_index /\ r.sub = 1
    THEN [dep EXCEPT ![0] =
            IF @ = DEPRESSOR_NONE /\ r.pressed THEN DEPRESSOR_RAWPTS
            ELSE IF @ = DEPRESSOR_RAWPTS /\ ~r.pressed THEN DEPRESSOR_NONE
                 ELSE @]
    ELSE dep

emit_buttons(r) ==
    ButtonsRawPts(Buttons1b03(MouseButtons(button_depressor, r), r), r)

\* The mouse's own view: each report it sends overwrites its source's bits.
DeviceButtons(r) ==
    CASE r.id = 2 ->
            [devBtn EXCEPT ![DEPRESSOR_MOUSE] = [b \in Buttons |-> b \in r.btns]]
      [] r.id = 17 /\ r.feat = Dev1b03Idx ->
            [devBtn EXCEPT ![DEPRESSOR_1B03][2] = r.pressed]
      [] r.id = 17 /\ r.feat = DevMtIdx /\ r.sub = 1 ->
            [devBtn EXCEPT ![DEPRESSOR_RAWPTS][0] = r.pressed]
      [] OTHER -> devBtn

-----------------------------------------------------------------------------
(* kzalloc'ed tm_data as tm_probe leaves it before negotiating. *)
FreshDriver ==
    /\ mt_feature_index = 0
    /\ feature_1b03 = 0
    /\ max_fingers = 0
    /\ hid_hw_started = FALSE
    /\ in_raw_mode = FALSE
    /\ next_tracking_id = 1
    /\ prev_slots_used = {}
    /\ button_depressor = [b \in Buttons |-> DEPRESSOR_NONE]
    /\ input_num_slots = 0
    /\ sinkId = [i \in Slots |-> NoId]
    /\ toolKeys = {}

NoFingerLoop == loopI = NoLoop /\ loopRec = {} /\ slots_used = {}

Init ==
    /\ phase = "unbound"
    /\ FreshDriver
    /\ negPc = "idle"
    /\ connPending = FALSE
    /\ NoFingerLoop
    /\ connected \in BOOLEAN
    /\ devRaw = FALSE
    /\ devBtn = [s \in Sources |-> [b \in Buttons |-> FALSE]]

\* The same values, assigned by kzalloc and tm_probe (or dropped by kfree).
ResetDriver ==
    /\ mt_feature_index' = 0
    /\ feature_1b03' = 0
    /\ max_fingers' = 0
    /\ hid_hw_started' = FALSE
    /\ in_raw_mode' = FALSE
    /\ next_tracking_id' = 1
    /\ prev_slots_used' = {}
    /\ button_depressor' = [b \in Buttons |-> DEPRESSOR_NONE]
    /\ input_num_slots' = 0
    /\ sinkId' = [i \in Slots |-> NoId]
    /\ toolKeys' = {}

-----------------------------------------------------------------------------
(***************************************************************************)
(* Binding: tm_probe and tm_remove.                                        *)
(***************************************************************************)

\* tm_probe up to tm_set_raw_report_state: tm_data is allocated and reset,
\* hidpp_init succeeds and device I/O is opened; the first command is sent.
ProbeStart ==
    /\ phase = "unbound"
    /\ phase' = "probing"
    /\ ResetDriver
    /\ negPc' = "root"
    /\ UNCHANGED <<connPending, loopI, loopRec, slots_used, connected, devRaw,
                   devBtn>>

\* tm_probe after tm_set_raw_report_state: its result is ignored,
\* in_raw_mode is set, and hid_hw_start (which calls tm_input_mapping and so
\* input_mt_init_slots(input, MAX(2, max_fingers))) either succeeds or the
\* probe fails and frees tm_data.
ProbeFinish ==
    /\ phase = "probing"
    /\ negPc = "idle"
    /\ \/ /\ phase' = "bound"
          /\ in_raw_mode' = TRUE
          /\ hid_hw_started' = TRUE
          /\ input_num_slots' = IF max_fingers > 2 THEN max_fingers ELSE 2
          /\ UNCHANGED <<mt_feature_index, feature_1b03, max_fingers,
                         next_tracking_id, prev_slots_used, button_depressor,
                         sinkId, toolKeys>>
       \/ /\ phase' = "unbound"
          /\ ResetDriver
    /\ UNCHANGED <<negPc, connPending, loopI, loopRec, slots_used, connected,
                   devRaw, devBtn>>

\* tm_remove: cancel_work_sync, hid_hw_stop, hidpp_remove, kfree.  Removal
\* waits for the HID++ work and for report delivery to finish.
Remove ==
    /\ phase = "bound"
    /\ negPc = "idle"
    /\ loopI = NoLoop
    /\ phase' = "unbound"
    /\ ResetDriver
    /\ connPending' = FALSE
    /\ UNCHANGED <<negPc, loopI, loopRec, slots_used, connected, devRaw,
                   devBtn>>

-----------------------------------------------------------------------------
(***************************************************************************)
(* tm_set_raw_report_state: five synchronous HID++ commands.  A command    *)
(* can only succeed while the mouse is in range and can always fail (a     *)
(* timeout); a failure returns at once, leaving what the earlier commands  *)
(* wrote.                                                                  *)
(***************************************************************************)
NegUnchanged ==
    UNCHANGED <<phase, hid_hw_started, in_raw_mode, next_tracking_id,
                prev_slots_used, button_depressor, connPending, loopI,
                loopRec, slots_used, connected, devBtn, input_num_slots,
                sinkId, toolKeys>>

\* Root feature, function 1: the HID++ version, only logged.
GetProtocolVersion ==
    /\ negPc = "root" /\ connected
    /\ negPc' = "feat6110"
    /\ UNCHANGED <<mt_feature_index, feature_1b03, max_fingers, devRaw>>
    /\ NegUnchanged

\* Root feature, function 0 on 0x6110: fd->mt_feature_index = f_idx.
GetFeature6110 ==
    /\ negPc = "feat6110" /\ connected
    /\ negPc' = "feat1b03"
    /\ mt_feature_index' = DevMtIdx
    /\ UNCHANGED <<feature_1b03, max_fingers, devRaw>>
    /\ NegUnchanged

\* Root feature, function 0 on 0x1b03: fd->feature_1b03.
GetFeature1b03 ==
    /\ negPc = "feat1b03" /\ connected
    /\ negPc' = "params"
    /\ feature_1b03' = Dev1b03Idx
    /\ UNCHANGED <<mt_feature_index, max_fingers, devRaw>>
    /\ NegUnchanged

\* 0x6110 function 0: fd->tp_info (only max_fingers is kept here).
GetTouchpadInfo ==
    /\ negPc = "params" /\ connected
    /\ negPc' = "enable"
    /\ max_fingers' = DevMaxFingers
    /\ UNCHANGED <<mt_feature_index, feature_1b03, devRaw>>
    /\ NegUnchanged

\* 0x6110 function 2 with params[0] = 3: the mouse enters raw mode.
RequestRawMode ==
    /\ negPc = "enable" /\ connected
    /\ negPc' = "idle"
    /\ devRaw' = TRUE
    /\ UNCHANGED <<mt_feature_index, feature_1b03, max_fingers>>
    /\ NegUnchanged

\* Any of the five commands returns an error: return -ret.
NegCommandFails ==
    /\ negPc # "idle"
    /\ negPc' = "idle"
    /\ UNCHANGED <<mt_feature_index, feature_1b03, max_fingers, devRaw>>
    /\ NegUnchanged

-----------------------------------------------------------------------------
(***************************************************************************)
(* The mouse: radio range, and tm_connect_change run from the HID++ work.  *)
(***************************************************************************)

\* The mouse leaves radio range and forgets raw mode.
Disconnect ==
    /\ connected
    /\ connected' = FALSE
    /\ devRaw' = FALSE
    /\ UNCHANGED <<phase, mt_feature_index, feature_1b03, max_fingers,
                   hid_hw_started, in_raw_mode, next_tracking_id,
                   prev_slots_used, button_depressor, negPc, connPending,
                   loopI, loopRec, slots_used, devBtn, input_num_slots,
                   sinkId, toolKeys>>

\* The mouse comes back; a bound driver is notified through the HID++ work.
Reconnect ==
    /\ ~connected
    /\ connected' = TRUE
    /\ connPending' = (connPending \/ phase # "unbound")
    /\ UNCHANGED <<phase, mt_feature_index, feature_1b03, max_fingers,
                   hid_hw_started, in_raw_mode, next_tracking_id,
                   prev_slots_used, button_depressor, negPc, devRaw,
                   loopI, loopRec, slots_used, devBtn, input_num_slots,
                   sinkId, toolKeys>>

\* tm_connect_change(hidpp_dev, true): re-negotiate if the hardware started.
ConnectChange ==
    /\ connPending
    /\ negPc = "idle"
    /\ connPending' = FALSE
    /\ negPc' = IF phase = "bound" /\ hid_hw_started THEN "root" ELSE "idle"
    /\ UNCHANGED <<phase, mt_feature_index, feature_1b03, max_fingers,
                   hid_hw_started, in_raw_mode, next_tracking_id,
                   prev_slots_used, button_depressor, connected, devRaw,
                   loopI, loopRec, slots_used, devBtn, input_num_slots,
                   sinkId, toolKeys>>

-----------------------------------------------------------------------------
(***************************************************************************)
(* tm_raw_event.  Reports reach it only once hid_hw_started is set (the    *)
(* early return), one at a time; raw-points reports are only sent by a     *)
(* mouse in raw mode.                                                      *)
(***************************************************************************)
ReportUnchanged ==
    UNCHANGED <<phase, mt_feature_index, feature_1b03, max_fingers,
                hid_hw_started, in_raw_mode, negPc, connPending, connected,
                devRaw, input_num_slots>>

\* A report that emit_fingers does not decode: buttons, then input_sync.
ButtonOnlyReport(r) ==
    /\ button_depressor' = emit_buttons(r)
    /\ devBtn' = DeviceButtons(r)
    /\ UNCHANGED <<next_tracking_id, prev_slots_used, loopI, loopRec,
                   slots_used, sinkId, toolKeys>>
    /\ ReportUnchanged

CanReport == hid_hw_started /\ connected /\ loopI = NoLoop

\* Report 0x02: relative motion and the three mouse buttons.
RawEventMouse ==
    /\ CanReport
    /\ \E btns \in SUBSET Buttons : ButtonOnlyReport(MouseReport(btns))

\* Report 0x11 from 0x1b03: the middle button in bytes[5].
RawEvent1b03 ==
    /\ CanReport
    /\ Dev1b03Idx # 0
    /\ \E p \in BOOLEAN : ButtonOnlyReport(FeatureReport(Dev1b03Idx, 0, p))

\* Report 0x11 from 0x6110, event 1: the left button in bytes[4] & 2.
RawEventRawPtsButton ==
    /\ CanReport
    /\ devRaw
    /\ \E p \in BOOLEAN : ButtonOnlyReport(FeatureReport(DevMtIdx, 1, p))

\* Report 0x11 from 0x6110, event 0: one record per finger.  If the feature
\* index matches, emit_fingers starts its loop; otherwise only the buttons
\* are looked at.
RawEventFingers ==
    /\ CanReport
    /\ devRaw
    /\ \E rec \in SUBSET Slots :
         IF DevMtIdx = mt_feature_index
         THEN /\ loopI' = 0
              /\ loopRec' = rec
              /\ slots_used' = {}
              /\ UNCHANGED <<next_tracking_id, prev_slots_used,
                             button_depressor, devBtn, sinkId, toolKeys>>
              /\ ReportUnchanged
         ELSE ButtonOnlyReport(FeatureReport(DevMtIdx, 0, FALSE))

\* Mutant: the loop runs while i <= max_fingers.
FingerSlotOffByOne ==
    LET i == loopI IN
    /\ loopI # NoLoop
    /\ i <= max_fingers
    /\ loopI' = i + 1
    /\ IF i \notin loopRec
       THEN /\ sinkId' = [sinkId EXCEPT ![i] = NoId]
            /\ UNCHANGED <<slots_used, next_tracking_id>>
       ELSE /\ slots_used' = slots_used \cup {i}
            /\ IF i \notin prev_slots_used
               THEN /\ sinkId' = [sinkId EXCEPT ![i] = next_tracking_id]
                    /\ next_tracking_id' = NextTrackingId(next_tracking_id)
               ELSE UNCHANGED <<sinkId, next_tracking_id>>
    /\ UNCHANGED <<loopRec, prev_slots_used, button_depressor, devBtn,
                   toolKeys>>
    /\ ReportUnchanged

\* One iteration of the emit_fingers loop, for slot i < tp_info.max_fingers:
\* a sentinel record emits tracking id -1; otherwise the slot is marked used
\* and, if it was not used by the previous report, gets a new tracking id.
FingerSlot ==
    LET i == loopI IN
    /\ loopI # NoLoop
    /\ i < max_fingers
    /\ loopI' = i + 1
    /\ IF i \notin loopRec
       THEN /\ sinkId' = [sinkId EXCEPT ![i] = NoId]
            /\ UNCHANGED <<slots_used, next_tracking_id>>
       ELSE /\ slots_used' = slots_used \cup {i}
            /\ IF i \notin prev_slots_used
               THEN /\ sinkId' = [sinkId EXCEPT ![i] = next_tracking_id]
                    /\ next_tracking_id' = NextTrackingId(next_tracking_id)
               ELSE UNCHANGED <<sinkId, next_tracking_id>>
    /\ UNCHANGED <<loopRec, prev_slots_used, button_depressor, devBtn,
                   toolKeys>>
    /\ ReportUnchanged

\* Mutant: fd->prev_slots_used = slots_used forgotten.
FingerFrameEndNoPrev ==
    LET r == FeatureReport(DevMtIdx, 0, FALSE) IN
    /\ loopI # NoLoop
    /\ loopI >= max_fingers
    /\ toolKeys' = {k \in 1..4 : SlotMask(slots_used) = k}
    /\ prev_slots_used' = prev_slots_used
    /\ button_depressor' = emit_buttons(r)
    /\ devBtn' = DeviceButtons(r)
    /\ loopI' = NoLoop /\ loopRec' = {} /\ slots_used' = {}
    /\ UNCHANGED <<next_tracking_id, sinkId>>
    /\ ReportUnchanged

\* The end of emit_fingers (BTN_TOOL_* from slots_used, prev_slots_used
\* updated), then emit_buttons and input_sync of tm_raw_event.
FingerFrameEnd ==
    LET r == FeatureReport(DevMtIdx, 0, FALSE) IN
    /\ loopI # NoLoop
    /\ loopI >= max_fingers
    /\ toolKeys' = {k \in 1..4 : SlotMask(slots_used) = k}
    /\ prev_slots_used' = slots_used
    /\ button_depressor' = emit_buttons(r)
    /\ devBtn' = DeviceButtons(r)
    /\ loopI' = NoLoop /\ loopRec' = {} /\ slots_used' = {}
    /\ UNCHANGED <<next_tracking_id, sinkId>>
    /\ ReportUnchanged

-----------------------------------------------------------------------------
Next ==
    \/ ProbeStart \/ ProbeFinish \/ Remove
    \/ GetProtocolVersion \/ GetFeature6110 \/ GetFeature1b03
    \/ GetTouchpadInfo \/ RequestRawMode \/ NegCommandFails
    \/ Disconnect \/ Reconnect \/ ConnectChange
    \/ RawEventMouse \/ RawEvent1b03 \/ RawEventRawPtsButton
    \/ RawEventFingers \/ FingerSlot \/ FingerFrameEnd

Spec == Init /\ [][Next]_vars

(***************************************************************************)
(* Fairness.  The HID++ work runs every queued notification, report       *)
(* delivery finishes the report it started, and probe runs to its end.     *)
(* Strong fairness of each successful command says that the transport      *)
(* answers a command eventually if it is asked often enough while the mouse *)
(* is in range: an assumption about the radio link, not about the driver.  *)
(***************************************************************************)
FairSpec ==
    /\ Spec
    /\ WF_vars(ConnectChange) /\ WF_vars(ProbeFinish)
    /\ WF_vars(FingerSlot) /\ WF_vars(FingerFrameEnd)
    /\ SF_vars(GetProtocolVersion) /\ SF_vars(GetFeature6110)
    /\ SF_vars(GetFeature1b03) /\ SF_vars(GetTouchpadInfo)
    /\ SF_vars(RequestRawMode)

-----------------------------------------------------------------------------
(***************************************************************************)
(* Properties.                                                             *)
(***************************************************************************)

\* Every variable holds a value of its C type (abstracted as above).
TypeOK ==
    /\ phase \in {"unbound", "probing", "bound"}
    /\ mt_feature_index \in 0..255
    /\ feature_1b03 \in 0..255
    /\ max_fingers \in 0..255
    /\ hid_hw_started \in BOOLEAN
    /\ in_raw_mode \in BOOLEAN
    /\ next_tracking_id \in 0..(IdMod - 1)
    /\ prev_slots_used \in SUBSET Slots
    /\ button_depressor \in [Buttons -> {DEPRESSOR_NONE} \cup Sources]
    /\ negPc \in NegStates
    /\ connPending \in BOOLEAN
    /\ loopI \in {NoLoop} \cup 0..DevMaxFingers
    /\ loopRec \in SUBSET Slots
    /\ slots_used \in SUBSET Slots
    /\ connected \in BOOLEAN
    /\ devRaw \in BOOLEAN
    /\ devBtn \in [Sources -> [Buttons -> BOOLEAN]]
    /\ input_num_slots \in 0..255
    /\ sinkId \in [Slots -> {NoId} \cup 0..(IdMod - 1)]
    /\ toolKeys \in SUBSET (1..4)

\* emit_fingers never hands the input layer a tracking id 0 or 0xffff: the
\* __u16 counter, incremented past 0xfffe, skips 0xffff and wraps to 1.
IdInRange ==
    /\ next_tracking_id \in 1..(IdMod - 2)
    /\ \A i \in Slots : sinkId[i] \in {NoId} \cup 1..(IdMod - 2)

\* A finger that stays on the surface keeps its tracking id from report to
\* report: emit_fingers assigns a new id only to slots absent from
\* prev_slots_used, so the id of a slot changes only through a retirement.
TrackingIdStable ==
    [][\A i \in Slots :
         sinkId[i] # NoId /\ sinkId'[i] # NoId => sinkId'[i] = sinkId[i]]_vars

\* A button held by one report source is released only by that source
\* reporting it up: emit_buttons sets a depressor only from NONE and clears
\* it only from its own source's report, while the driver stays bound.
ButtonOwnedBySetter ==
    [][phase' = "bound" =>
        \A b \in Buttons :
           LET d == button_depressor[b] IN
           d # DEPRESSOR_NONE /\ button_depressor'[b] # d =>
               /\ button_depressor'[b] = DEPRESSOR_NONE
               /\ ~devBtn'[d][b]]_vars

\* A button is reported down only while the source holding it last said it
\* is down: no report interleaving leaves a button stuck in emit_buttons.
NoStuckButton ==
    \A b \in Buttons :
        button_depressor[b] # DEPRESSOR_NONE =>
            devBtn[button_depressor[b]][b]

\* (Spec, section 3) No two fingers on the surface share a tracking id.
ActiveIdsDistinct ==
    \A i, j \in Slots :
        i # j /\ sinkId[i] # NoId => sinkId[i] # sinkId[j]

\* (Spec, section 4.2) After a finger report exactly the BTN_TOOL_* key for
\* the number of fingers on the surface is set.
ToolMatchesActiveCount ==
    loopI = NoLoop =>
        LET n == Cardinality({i \in Slots : sinkId[i] # NoId})
        IN  toolKeys = {k \in 1..4 : k = n}

\* (Spec, section 4.5) The input device is started only once the mouse has
\* confirmed raw mode, never with legacy reports still coming.
SinkStartedOnlyInRawMode ==
    [][~hid_hw_started /\ hid_hw_started' => devRaw']_vars

\* (Spec, section 4.2, edge case) emit_fingers never addresses a slot the
\* input device does not have: the slot input_mt_slot(fd->input, i) selects
\* is below the count input_mt_init_slots set up at hid_hw_start.
InputSlotExists ==
    loopI # NoLoop /\ loopI < max_fingers => loopI < input_num_slots

\* (Spec, sections 4.5 and 7) A failed negotiation is retried: while the
\* driver stays bound and the mouse stays in range, it eventually sends raw
\* reports again.
RawModeRestored ==
    (phase = "bound" /\ connected) ~> (devRaw \/ ~connected \/ phase # "bound")


-----------------------------------------------------------------------------
(***************************************************************************)
(* Refinement: the multitouch slots of the input device, as emit_fingers   *)
(* drives them, implement the abstract tracker of module ContactTracker.   *)
(* Each finger report is one frame; each iteration of the emit_fingers     *)
(* loop is a report inside it naming one slot, touching unless its record  *)
(* is the 0xff sentinel; the end of emit_fingers closes the frame.  The    *)
(* host sees as touching the slots whose last ABS_MT_TRACKING_ID is not    *)
(* -1.  tm_probe and tm_remove are the tracker's Reset; every other step   *)
(* is a stutter.                                                           *)
(***************************************************************************)
\* The slots the current report's loop has passed.
Visited == IF loopI = NoLoop THEN {} ELSE 0..(loopI - 1)

TrackedActive == {i \in Slots : sinkId[i] # NoId}
TrackedFrame == [i \in Visited |-> i \in loopRec]
TrackedReport ==
    IF loopI \in 1..DevMaxFingers THEN [i \in {loopI - 1} |-> i \in loopRec]
    ELSE [i \in {} |-> FALSE]
TrackedClosing == loopI \in {NoLoop, 0}

Tracker == INSTANCE ContactTracker
               WITH Contacts <- Slots,
                    active <- TrackedActive,
                    frame <- TrackedFrame,
                    report <- TrackedReport,
                    closing <- TrackedClosing

\* (Spec, section 4.2) emit_fingers, across reports, renegotiation and
\* rebinding, behaves as the abstract tracker: within a report a slot
\* changes only when the loop visits it, and after the report the host
\* sees exactly the slots whose record was a contact.
TrackerSpec == Tracker!Spec

=============================================================================
