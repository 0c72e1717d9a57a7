---------------------------- MODULE WtpTouchpad ----------------------------
(***************************************************************************)
(* The Logitech wireless-touchpad driver, drivers/hid/hid-logitech-wtp.c.  *)
(*                                                                         *)
(* A dual-touch report (hidpp_touchpad_raw_xy_event) carries at most two   *)
(* finger records; a frame of three or four fingers spans two reports.     *)
(* wtp_touchpad_raw_xy_event updates the slot of each finger it decodes    *)
(* (slot = finger_id - 1) and, at a frame boundary, retires every active   *)
(* slot that no report of the frame mentioned.                             *)
(*                                                                         *)
(* The HID++ core that calls wtp_device_init and wtp_connect_change and    *)
(* owns hidpp_dev->initialized is not part of this source tree; its part   *)
(* is modelled from the specification (section 4.5): device_init is tried *)
(* at probe and again after each reconnection until it succeeds.           *)
(* Coordinates, pressure and area are abstracted away.                     *)
(***************************************************************************)
EXTENDS Integers

CONSTANTS
    MaxContacts,   \* ARRAY_SIZE(fd->slots), 5
    FingerIds      \* finger_id values the touchpad sends (id >> 4: 0..15)

ASSUME MaxContactsAssumption == MaxContacts \in Nat \ {0}
ASSUME FingerIdsAssumption == FingerIds \subseteq 0..15 /\ FingerIds # {}

VARIABLES
    phase,         \* "unbound" | "bound"
    initialized,   \* hidpp_dev->initialized
    initPending,   \* the HID++ core will (re)try wtp_device_init
    initPc,        \* command of wtp_device_init in progress, or "idle"
    connected,     \* the touchpad is in radio range
    devRaw,        \* the touchpad sends raw XY reports
    slots,         \* fd->slots[i].touch_state / .seen_in_this_frame
    \* --- history of the reports, for the properties ---
    frameSeen,     \* slots mentioned since the last frame boundary
    lastContact,   \* contact_status of the last record naming each slot
    closedFrame,   \* frameSeen of the frame the last boundary closed
    lastBoundary,  \* the last report closed a frame
    lastSlots      \* slot indices written by the last report

vars == <<phase, initialized, initPending, initPc, connected, devRaw, slots,
          frameSeen, lastContact, closedFrame, lastBoundary, lastSlots>>

-----------------------------------------------------------------------------
SlotIdx == 0..(MaxContacts - 1)
FingerCounts == 0..4      \* counts above 4 take the branches of 3
FingerRecord == [finger_id : FingerIds, contact_status : BOOLEAN]

EmptySlot == [touch_state |-> FALSE, seen_in_this_frame |-> FALSE]

\* hidpp_touchpad_raw_xy_event and wtp_touchpad_raw_xy_event decode and
\* apply fingers[0] when finger_count is non-zero ...
FirstFingerDecoded(count) == count # 0

\* ... and fingers[1] when, besides, the report is the first of a frame of
\* three or more fingers or the last of a frame of four.
SecondFingerDecoded(eof, count) ==
    count # 0 /\ ((eof /\ count = 4) \/ (~eof /\ count >= 2))

\* Mutant: the slot takes the status but is not marked seen.
wtp_touch_eventNoSeen(s, f) ==
    [s EXCEPT ![f.finger_id - 1].touch_state = f.contact_status]

\* wtp_touch_event: slot finger_id - 1 is marked seen and takes the contact
\* status.  An index outside fd->slots writes outside the array; the model
\* records the index in lastSlots and leaves slots unchanged.
wtp_touch_event(s, f) ==
    [s EXCEPT ![f.finger_id - 1] = [touch_state |-> f.contact_status,
                                   seen_in_this_frame |-> TRUE]]

\* The if (finger_count) block of wtp_touchpad_raw_xy_event.
ApplyFingers(s, eof, count, f0, f1) ==
    LET s1 == IF FirstFingerDecoded(count) THEN wtp_touch_event(s, f0) ELSE s
    IN  IF SecondFingerDecoded(eof, count) THEN wtp_touch_event(s1, f1) ELSE s1

\* For the history: the slot indices the decoded records name, and the
\* status a report gives slot i (the later record wins), or old if none.
NamedSlots(eof, count, f0, f1) ==
    (IF FirstFingerDecoded(count) THEN {f0.finger_id - 1} ELSE {})
    \cup (IF SecondFingerDecoded(eof, count) THEN {f1.finger_id - 1} ELSE {})
ReportedStatus(i, eof, count, f0, f1, old) ==
    IF SecondFingerDecoded(eof, count) /\ f1.finger_id - 1 = i THEN f1.contact_status
    ELSE IF FirstFingerDecoded(count) /\ f0.finger_id - 1 = i THEN f0.contact_status
    ELSE old

\* The end-of-frame test of wtp_touchpad_raw_xy_event.
FrameBoundary(eof, count) == eof \/ count <= 2

\* Mutant: the loop runs one slot too far (i <= ARRAY_SIZE(fd->slots)).
RetireUnseenOffByOne(s) ==
    [i \in 0..MaxContacts |->
        [touch_state |-> IF i \in SlotIdx THEN s[i].touch_state /\ s[i].seen_in_this_frame ELSE FALSE,
         seen_in_this_frame |-> FALSE]]

\* Mutant: seen_in_this_frame not cleared at the boundary.
RetireUnseenNoReset(s) ==
    [i \in SlotIdx |->
        [touch_state |-> s[i].touch_state /\ s[i].seen_in_this_frame,
         seen_in_this_frame |-> s[i].seen_in_this_frame]]

\* The loop over fd->slots at a frame boundary: an active slot not seen in
\* this frame is released; every seen flag is cleared.
RetireUnseen(s) ==
    [i \in SlotIdx |->
        [touch_state |-> s[i].touch_state /\ s[i].seen_in_this_frame,
         seen_in_this_frame |-> FALSE]]

-----------------------------------------------------------------------------
Init ==
    /\ phase = "unbound"
    /\ initialized = FALSE
    /\ initPending = FALSE
    /\ initPc = "idle"
    /\ connected \in BOOLEAN
    /\ devRaw = FALSE
    /\ slots = [i \in SlotIdx |-> EmptySlot]
    /\ frameSeen = {}
    /\ lastContact = [i \in SlotIdx |-> FALSE]
    /\ closedFrame = {}
    /\ lastBoundary = TRUE
    /\ lastSlots = {}

HistoryUnchanged ==
    UNCHANGED <<frameSeen, lastContact, closedFrame, lastBoundary, lastSlots>>

\* wtp_probe: kzalloc'ed wtp_data, hid_parse, hid_hw_start (wtp_input_mapping
\* sets up fd->maxcontacts slots) and hidpp_init, which asks for
\* wtp_device_init.
Probe ==
    /\ phase = "unbound"
    /\ phase' = "bound"
    /\ initialized' = FALSE
    /\ initPending' = TRUE
    /\ slots' = [i \in SlotIdx |-> EmptySlot]
    /\ UNCHANGED <<initPc, connected, devRaw>>
    /\ frameSeen' = {} /\ closedFrame' = {} /\ lastBoundary' = TRUE
    /\ UNCHANGED <<lastContact, lastSlots>>

\* wtp_remove: hid_hw_stop, hidpp_remove (which waits for the HID++ work).
Remove ==
    /\ phase = "bound"
    /\ initPc = "idle"
    /\ phase' = "unbound"
    /\ initialized' = FALSE
    /\ initPending' = FALSE
    /\ UNCHANGED <<initPc, connected, devRaw, slots>>
    /\ HistoryUnchanged

-----------------------------------------------------------------------------
(***************************************************************************)
(* wtp_device_init and wtp_connect_change.                                 *)
(***************************************************************************)
InitUnchanged == UNCHANGED <<phase, connected, slots>> /\ HistoryUnchanged

\* The HID++ core calls wtp_device_init.
DeviceInitStart ==
    /\ phase = "bound"
    /\ initPending
    /\ ~initialized
    /\ initPc = "idle"
    /\ initPending' = FALSE
    /\ initPc' = "setRaw"
    /\ UNCHANGED <<initialized, devRaw>>
    /\ InitUnchanged

\* hidpp_touchpad_set_raw_report_state(hidpp_dev, true, true, true) succeeds.
SetRawReportState ==
    /\ initPc = "setRaw" /\ connected
    /\ initPc' = "getInfo"
    /\ devRaw' = TRUE
    /\ UNCHANGED <<initialized, initPending>>
    /\ InitUnchanged

\* hidpp_touchpad_get_raw_info succeeds: x_size and y_size are stored
\* (abstracted) and wtp_device_init returns 0; the HID++ core sets
\* initialized.
GetRawInfo ==
    /\ initPc = "getInfo" /\ connected
    /\ initPc' = "idle"
    /\ initialized' = TRUE
    /\ UNCHANGED <<initPending, devRaw>>
    /\ InitUnchanged

\* Either command fails: wtp_device_init returns the error.
DeviceInitFails ==
    /\ initPc \in {"setRaw", "getInfo"}
    /\ initPc' = "idle"
    /\ UNCHANGED <<initialized, initPending, devRaw>>
    /\ InitUnchanged

\* The touchpad leaves radio range and forgets raw mode.
Disconnect ==
    /\ connected
    /\ connected' = FALSE
    /\ devRaw' = FALSE
    /\ UNCHANGED <<phase, initialized, initPending, initPc, slots>>
    /\ HistoryUnchanged

\* The touchpad comes back.  wtp_connect_change(hidpp_dev, true) re-enables
\* raw mode if initialized (its result ignored); otherwise the HID++ core
\* retries wtp_device_init.
Reconnect ==
    /\ ~connected
    /\ connected' = TRUE
    /\ \/ /\ phase = "bound" /\ initialized
          /\ devRaw' \in BOOLEAN
          /\ UNCHANGED initPending
       \/ /\ ~(phase = "bound" /\ initialized)
          /\ initPending' = (phase = "bound")
          /\ UNCHANGED devRaw
    /\ UNCHANGED <<phase, initialized, initPc, slots>>
    /\ HistoryUnchanged

-----------------------------------------------------------------------------
(***************************************************************************)
(* hidpp_touchpad_raw_xy_event and wtp_touchpad_raw_xy_event: one dual-    *)
(* touch report, with end_of_frame = touches[0].id & 1 and finger_count =  *)
(* touches[1].id & 0x0f.  Reports before initialization return 0 at once.  *)
(***************************************************************************)
RawXYReport(eof, count, f0, f1) ==
    LET s2 == ApplyFingers(slots, eof, count, f0, f1)
        named == NamedSlots(eof, count, f0, f1)
        \* the specification's frame boundary, for the history
        closes == eof \/ count <= 2
        seenNow == frameSeen \cup (named \cap SlotIdx)
    IN
    /\ slots' = IF FrameBoundary(eof, count) THEN RetireUnseen(s2) ELSE s2
    /\ lastSlots' = named
    /\ lastContact' =
          [i \in SlotIdx |-> ReportedStatus(i, eof, count, f0, f1, lastContact[i])]
    /\ lastBoundary' = closes
    /\ frameSeen' = IF closes THEN {} ELSE seenNow
    /\ closedFrame' = IF closes THEN seenNow ELSE closedFrame

RawXYEvent ==
    /\ phase = "bound" /\ initialized /\ connected /\ devRaw
    /\ \E eof \in BOOLEAN, count \in FingerCounts,
          f0 \in FingerRecord, f1 \in FingerRecord :
         RawXYReport(eof, count, f0, f1)
    /\ UNCHANGED <<phase, initialized, initPending, initPc, connected, devRaw>>

-----------------------------------------------------------------------------
Next ==
    \/ Probe \/ Remove
    \/ DeviceInitStart \/ SetRawReportState \/ GetRawInfo \/ DeviceInitFails
    \/ Disconnect \/ Reconnect
    \/ RawXYEvent

Spec == Init /\ [][Next]_vars

(***************************************************************************)
(* Fairness of the driver's own steps: the HID++ core eventually calls     *)
(* wtp_device_init when asked, and the transport eventually answers a      *)
(* command asked often enough while the touchpad is in range (strong       *)
(* fairness of each success).  Radio range, probe and remove are the       *)
(* environment and get no fairness.                                        *)
(***************************************************************************)
FairSpec ==
    /\ Spec
    /\ WF_vars(DeviceInitStart)
    /\ SF_vars(SetRawReportState) /\ SF_vars(GetRawInfo)

-----------------------------------------------------------------------------
(***************************************************************************)
(* Properties.                                                             *)
(***************************************************************************)

\* Every variable holds a value of its type.
TypeOK ==
    /\ phase \in {"unbound", "bound"}
    /\ initialized \in BOOLEAN
    /\ initPending \in BOOLEAN
    /\ initPc \in {"idle", "setRaw", "getInfo"}
    /\ connected \in BOOLEAN
    /\ devRaw \in BOOLEAN
    /\ slots \in [SlotIdx -> [touch_state : BOOLEAN,
                              seen_in_this_frame : BOOLEAN]]
    /\ frameSeen \in SUBSET SlotIdx
    /\ lastContact \in [SlotIdx -> BOOLEAN]
    /\ closedFrame \in SUBSET SlotIdx
    /\ lastBoundary \in BOOLEAN
    /\ lastSlots \in SUBSET (-1..14)

\* (Spec, section 4.2) Right after a frame boundary the active slots are
\* exactly those that some report of the frame named, with the last such
\* record saying "contact": wtp_touchpad_raw_xy_event's seen flags and
\* retirement loop reassemble a frame spread over several reports.
FrameContactsExact ==
    lastBoundary =>
        \A i \in SlotIdx :
            slots[i].touch_state <=> (i \in closedFrame /\ lastContact[i])

\* (Spec, sections 4.5 and 7) A failed re-enable of raw mode is retried:
\* while an initialized touchpad stays bound and in range, it eventually
\* sends raw reports again (wtp_connect_change after a reconnect).
RawModeRestored ==
    (phase = "bound" /\ initialized /\ connected)
        ~> (devRaw \/ ~connected \/ phase # "bound")

\* (Spec, section 4.2) The tracker never indexes outside its slot array,
\* whatever finger_id the touchpad sends.
SlotIndexInRange == lastSlots \subseteq SlotIdx

-----------------------------------------------------------------------------
(***************************************************************************)
(* Refinement: the slot array, read through its touch_state and            *)
(* seen_in_this_frame flags, implements the abstract tracker of module     *)
(* ContactTracker, fed the same reports: the in-range slots the last      *)
(* report named with their statuses, and whether it ended a frame by the  *)
(* specification's rule.  Probe is its Reset, a raw XY report its Report, *)
(* every other step a stutter.                                             *)
(***************************************************************************)
TrackedActive == {i \in SlotIdx : slots[i].touch_state}
TrackedFrame ==
    [i \in {j \in SlotIdx : slots[j].seen_in_this_frame} |-> slots[i].touch_state]
TrackedReport == [i \in lastSlots \cap SlotIdx |-> lastContact[i]]

Tracker == INSTANCE ContactTracker
               WITH Contacts <- SlotIdx,
                    active <- TrackedActive,
                    frame <- TrackedFrame,
                    report <- TrackedReport,
                    closing <- lastBoundary

\* (Spec, section 4.2) wtp_touchpad_raw_xy_event, with wtp_probe's fresh
\* slot array, behaves as the abstract tracker: a report inside a frame
\* changes only the slots it names, and a report that ends a frame leaves
\* active exactly the slots the frame last reported touching.
TrackerSpec == Tracker!Spec

=============================================================================
