------------------------- MODULE WtpTouchpadProofs -------------------------
(***************************************************************************)
(* Proofs about WtpTouchpad for every number of slots and every set of     *)
(* finger ids the touchpad may send.                                       *)
(*                                                                         *)
(* The heart of every proof is ApplyFingersShape: after the                *)
(* if (finger_count) block of wtp_touchpad_raw_xy_event, a slot the report *)
(* named is seen and holds the status the report gave it last, and every   *)
(* other slot is as it was.                                                *)
(***************************************************************************)
EXTENDS WtpTouchpad, TLAPS

SlotRec == [touch_state : BOOLEAN, seen_in_this_frame : BOOLEAN]
SlotArray == [SlotIdx -> SlotRec]

USE MaxContactsAssumption, FingerIdsAssumption

-----------------------------------------------------------------------------
\* wtp_touch_event rewrites the one slot finger_id - 1, if it exists.
LEMMA TouchEventShape ==
    ASSUME NEW s \in SlotArray, NEW f \in FingerRecord
    PROVE  /\ wtp_touch_event(s, f) \in SlotArray
           /\ \A i \in SlotIdx :
                 wtp_touch_event(s, f)[i] =
                    IF i = f.finger_id - 1
                    THEN [touch_state |-> f.contact_status,
                          seen_in_this_frame |-> TRUE]
                    ELSE s[i]
  BY DEF wtp_touch_event, SlotArray, SlotRec, FingerRecord

\* After the if (finger_count) block, a slot the report named is seen and
\* holds the status the report gave it last; every other slot is as it was.
LEMMA ApplyFingersShape ==
    ASSUME NEW s \in SlotArray, NEW eof \in BOOLEAN, NEW count \in FingerCounts,
           NEW f0 \in FingerRecord, NEW f1 \in FingerRecord,
           NEW lc \in [SlotIdx -> BOOLEAN]
    PROVE  /\ ApplyFingers(s, eof, count, f0, f1) \in SlotArray
           /\ \A i \in SlotIdx :
                 ApplyFingers(s, eof, count, f0, f1)[i] =
                    IF i \in NamedSlots(eof, count, f0, f1)
                    THEN [touch_state |->
                            ReportedStatus(i, eof, count, f0, f1, lc[i]),
                          seen_in_this_frame |-> TRUE]
                    ELSE s[i]
<1> DEFINE d0 == FirstFingerDecoded(count)
           d1 == SecondFingerDecoded(eof, count)
           t0 == wtp_touch_event(s, f0)
<1>1. d1 => d0
  BY DEF FirstFingerDecoded, SecondFingerDecoded
<1>2. /\ t0 \in SlotArray
      /\ \A i \in SlotIdx :
            t0[i] = IF i = f0.finger_id - 1
                    THEN [touch_state |-> f0.contact_status,
                          seen_in_this_frame |-> TRUE]
                    ELSE s[i]
  BY TouchEventShape
<1>3. /\ wtp_touch_event(t0, f1) \in SlotArray
      /\ \A i \in SlotIdx :
            wtp_touch_event(t0, f1)[i] =
               IF i = f1.finger_id - 1
               THEN [touch_state |-> f1.contact_status,
                     seen_in_this_frame |-> TRUE]
               ELSE t0[i]
  BY <1>2, TouchEventShape
<1>4. CASE ~d0
  <2>1. ~d1 /\ ApplyFingers(s, eof, count, f0, f1) = s
    BY <1>1, <1>4 DEF ApplyFingers
  <2>2. NamedSlots(eof, count, f0, f1) = {}
    BY <1>1, <1>4 DEF NamedSlots
  <2>3. QED
    BY <2>1, <2>2
<1>5. CASE d0 /\ ~d1
  <2>1. ApplyFingers(s, eof, count, f0, f1) = t0
    BY <1>5 DEF ApplyFingers
  <2>2. NamedSlots(eof, count, f0, f1) = {f0.finger_id - 1}
    BY <1>5 DEF NamedSlots
  <2>3. \A i \in SlotIdx : i = f0.finger_id - 1 =>
           ReportedStatus(i, eof, count, f0, f1, lc[i]) = f0.contact_status
    BY <1>5 DEF ReportedStatus
  <2>4. QED
    BY <1>2, <2>1, <2>2, <2>3
<1>6. CASE d1
  <2>1. ApplyFingers(s, eof, count, f0, f1) = wtp_touch_event(t0, f1)
    BY <1>1, <1>6 DEF ApplyFingers
  <2>2. NamedSlots(eof, count, f0, f1) = {f0.finger_id - 1, f1.finger_id - 1}
    BY <1>1, <1>6 DEF NamedSlots
  <2>3. \A i \in SlotIdx :
           /\ i = f1.finger_id - 1 =>
                ReportedStatus(i, eof, count, f0, f1, lc[i]) = f1.contact_status
           /\ i # f1.finger_id - 1 /\ i = f0.finger_id - 1 =>
                ReportedStatus(i, eof, count, f0, f1, lc[i]) = f0.contact_status
    BY <1>1, <1>6 DEF ReportedStatus
  <2>4. QED
    BY <1>2, <1>3, <2>1, <2>2, <2>3
<1>7. QED
  BY <1>4, <1>5, <1>6

\* A report leaves every slot it does not name as it was.
LEMMA UnnamedSlotUnchanged ==
    ASSUME NEW s \in SlotArray, NEW eof \in BOOLEAN, NEW count \in FingerCounts,
           NEW f0 \in FingerRecord, NEW f1 \in FingerRecord,
           NEW k \in SlotIdx \ NamedSlots(eof, count, f0, f1)
    PROVE  ApplyFingers(s, eof, count, f0, f1)[k] = s[k]
<1> DEFINE t0 == wtp_touch_event(s, f0)
<1>1. t0 \in SlotArray /\ t0[k] = IF k = f0.finger_id - 1
                                  THEN [touch_state |-> f0.contact_status,
                                        seen_in_this_frame |-> TRUE]
                                  ELSE s[k]
  BY TouchEventShape
<1>2. wtp_touch_event(t0, f1)[k] = IF k = f1.finger_id - 1
                                  THEN [touch_state |-> f1.contact_status,
                                        seen_in_this_frame |-> TRUE]
                                  ELSE t0[k]
  BY <1>1, TouchEventShape
<1>3. /\ FirstFingerDecoded(count) => k # f0.finger_id - 1
      /\ SecondFingerDecoded(eof, count) => k # f1.finger_id - 1
  BY DEF NamedSlots
<1>4. SecondFingerDecoded(eof, count) => FirstFingerDecoded(count)
  BY DEF FirstFingerDecoded, SecondFingerDecoded
<1>5. CASE ~FirstFingerDecoded(count)
  BY <1>4, <1>5 DEF ApplyFingers
<1>6. CASE FirstFingerDecoded(count) /\ ~SecondFingerDecoded(eof, count)
  <2>1. ApplyFingers(s, eof, count, f0, f1) = t0
    BY <1>6 DEF ApplyFingers
  <2>2. QED
    BY <1>1, <1>3, <1>6, <2>1
<1>7. CASE SecondFingerDecoded(eof, count)
  <2>1. ApplyFingers(s, eof, count, f0, f1) = wtp_touch_event(t0, f1)
    BY <1>4, <1>7 DEF ApplyFingers
  <2>2. QED
    BY <1>1, <1>2, <1>3, <1>4, <1>7, <2>1
<1>8. QED
  BY <1>5, <1>6, <1>7

\* A slot the report names is seen and holds the status it gave the slot last.
LEMMA NamedSlotSet ==
    ASSUME NEW s \in SlotArray, NEW eof \in BOOLEAN, NEW count \in FingerCounts,
           NEW f0 \in FingerRecord, NEW f1 \in FingerRecord,
           NEW lc \in [SlotIdx -> BOOLEAN],
           NEW k \in SlotIdx \cap NamedSlots(eof, count, f0, f1)
    PROVE  ApplyFingers(s, eof, count, f0, f1)[k] =
              [touch_state |-> ReportedStatus(k, eof, count, f0, f1, lc[k]),
               seen_in_this_frame |-> TRUE]
<1> DEFINE t0 == wtp_touch_event(s, f0)
<1>1. t0 \in SlotArray /\ t0[k] = IF k = f0.finger_id - 1
                                  THEN [touch_state |-> f0.contact_status,
                                        seen_in_this_frame |-> TRUE]
                                  ELSE s[k]
  BY TouchEventShape
<1>2. wtp_touch_event(t0, f1)[k] = IF k = f1.finger_id - 1
                                  THEN [touch_state |-> f1.contact_status,
                                        seen_in_this_frame |-> TRUE]
                                  ELSE t0[k]
  BY <1>1, TouchEventShape
<1>3. SecondFingerDecoded(eof, count) => FirstFingerDecoded(count)
  BY DEF FirstFingerDecoded, SecondFingerDecoded
<1>4. CASE ~FirstFingerDecoded(count)
  BY <1>3, <1>4 DEF NamedSlots
<1>5. CASE FirstFingerDecoded(count) /\ ~SecondFingerDecoded(eof, count)
  <2>1. ApplyFingers(s, eof, count, f0, f1) = t0
    BY <1>5 DEF ApplyFingers
  <2>2. k = f0.finger_id - 1
    BY <1>5 DEF NamedSlots
  <2>3. ReportedStatus(k, eof, count, f0, f1, lc[k]) = f0.contact_status
    BY <1>5, <2>2 DEF ReportedStatus
  <2>4. QED
    BY <1>1, <2>1, <2>2, <2>3
<1>6. CASE SecondFingerDecoded(eof, count)
  <2>1. ApplyFingers(s, eof, count, f0, f1) = wtp_touch_event(t0, f1)
    BY <1>3, <1>6 DEF ApplyFingers
  <2>2. CASE k = f1.finger_id - 1
    <3>1. ReportedStatus(k, eof, count, f0, f1, lc[k]) = f1.contact_status
      BY <1>6, <2>2 DEF ReportedStatus
    <3>2. QED
      BY <1>2, <2>1, <2>2, <3>1
  <2>3. CASE k # f1.finger_id - 1
    <3>1. k = f0.finger_id - 1
      BY <1>3, <1>6, <2>3 DEF NamedSlots
    <3>2. ReportedStatus(k, eof, count, f0, f1, lc[k]) = f0.contact_status
      BY <1>3, <1>6, <2>3, <3>1 DEF ReportedStatus
    <3>3. QED
      BY <1>1, <1>2, <2>1, <2>3, <3>1, <3>2
  <2>4. QED
    BY <2>2, <2>3
<1>7. QED
  BY <1>4, <1>5, <1>6

-----------------------------------------------------------------------------
(***************************************************************************)
(* The inductive invariant.  FrameContactsExact speaks only of the moment *)
(* after a boundary; to carry it across the reports of a frame, IInv also *)
(* says that the seen flags are the slots named since the boundary, and   *)
(* that each of those holds the status its last record gave it.           *)
(***************************************************************************)
SeenIsFrame ==
    \A i \in SlotIdx : slots[i].seen_in_this_frame <=> i \in frameSeen

FrameHoldsLastStatus ==
    \A i \in frameSeen : slots[i].touch_state = lastContact[i]

BoundaryStartsFrame == lastBoundary => frameSeen = {}

IInv ==
    /\ TypeOK
    /\ SeenIsFrame
    /\ FrameHoldsLastStatus
    /\ BoundaryStartsFrame
    /\ FrameContactsExact

\* The Boolean-valued variables.  The SMT backend reads x = FALSE as "x is
\* not true" and loses x \in BOOLEAN, so their type is shown with Zenon.
BoolVars ==
    /\ initialized \in BOOLEAN
    /\ initPending \in BOOLEAN
    /\ connected \in BOOLEAN
    /\ devRaw \in BOOLEAN
    /\ lastBoundary \in BOOLEAN

LEMMA InitIInv == Init => IInv
<1> SUFFICES ASSUME Init PROVE IInv
  OBVIOUS
<1>1. BoolVars
  BY Zenon DEF Init, BoolVars
<1>2. QED
  BY <1>1 DEF Init, IInv, TypeOK, BoolVars, EmptySlot, SeenIsFrame,
             FrameHoldsLastStatus, BoundaryStartsFrame, FrameContactsExact

LEMMA NextBoolVars == BoolVars /\ [Next]_vars => BoolVars'
  BY Zenon DEF BoolVars, Next, vars, Probe, Remove, DeviceInitStart,
               SetRawReportState, GetRawInfo, DeviceInitFails, Disconnect,
               Reconnect, RawXYEvent, RawXYReport, InitUnchanged, HistoryUnchanged


\* The slot indices a report names lie in -1..14, and the statuses it
\* leaves behind are Boolean.
LEMMA ReportHistoryType ==
    ASSUME NEW eof \in BOOLEAN, NEW count \in FingerCounts,
           NEW f0 \in FingerRecord, NEW f1 \in FingerRecord,
           NEW lc \in [SlotIdx -> BOOLEAN]
    PROVE  /\ NamedSlots(eof, count, f0, f1) \subseteq -1..14
           /\ [i \in SlotIdx |-> ReportedStatus(i, eof, count, f0, f1, lc[i])]
                 \in [SlotIdx -> BOOLEAN]
<1>1. NamedSlots(eof, count, f0, f1) \subseteq -1..14
  <2>0. f0.finger_id \in FingerIds /\ f1.finger_id \in FingerIds
    BY DEF FingerRecord
  <2>1. \A x \in FingerIds : x - 1 \in -1..14
    BY FingerIdsAssumption
  <2>2. f0.finger_id - 1 \in -1..14 /\ f1.finger_id - 1 \in -1..14
    BY <2>0, <2>1, Zenon
  <2>3. QED
    BY <2>2 DEF NamedSlots
<1>2. \A i \in SlotIdx : ReportedStatus(i, eof, count, f0, f1, lc[i]) \in BOOLEAN
  BY DEF ReportedStatus, FingerRecord
<1>3. QED
  BY <1>1, <1>2

\* A slot the report does not name keeps the status it had.
LEMMA ReportedStatusUnnamed ==
    ASSUME NEW i, NEW eof, NEW count, NEW f0, NEW f1, NEW old,
           i \notin NamedSlots(eof, count, f0, f1)
    PROVE  ReportedStatus(i, eof, count, f0, f1, old) = old
  BY DEF ReportedStatus, NamedSlots

\* The steps other than Probe and a raw XY report leave the slots and the
\* history of the reports alone.
QuietStep ==
    \/ Remove \/ DeviceInitStart \/ SetRawReportState \/ GetRawInfo
    \/ DeviceInitFails \/ Disconnect \/ Reconnect

LEMMA NextIInv == IInv /\ [Next]_vars => IInv'
<1> SUFFICES ASSUME IInv, [Next]_vars PROVE IInv'
  OBVIOUS
<1>0. BoolVars'
  BY NextBoolVars DEF IInv, TypeOK, BoolVars
<1> USE DEF IInv, TypeOK
<1>1. CASE Probe
  BY <1>0, <1>1 DEF BoolVars, Probe, EmptySlot, SeenIsFrame, FrameHoldsLastStatus,
              BoundaryStartsFrame, FrameContactsExact
<1>2. CASE QuietStep
  <2>1. UNCHANGED <<slots, frameSeen, lastContact, closedFrame, lastBoundary,
                    lastSlots>>
    BY <1>2 DEF QuietStep, Remove, DeviceInitStart, SetRawReportState,
                GetRawInfo, DeviceInitFails, Disconnect, Reconnect,
                InitUnchanged, HistoryUnchanged
  <2>2. /\ phase' \in {"unbound", "bound"}
        /\ initPc' \in {"idle", "setRaw", "getInfo"}
    BY <1>2 DEF QuietStep, Remove, DeviceInitStart, SetRawReportState,
                GetRawInfo, DeviceInitFails, Disconnect, Reconnect,
                InitUnchanged
  <2>3. QED
    BY <1>0, <2>1, <2>2 DEF BoolVars, SeenIsFrame, FrameHoldsLastStatus, BoundaryStartsFrame,
                      FrameContactsExact
<1>3. CASE RawXYEvent
  <2>1. PICK eof \in BOOLEAN, count \in FingerCounts,
             f0 \in FingerRecord, f1 \in FingerRecord :
               RawXYReport(eof, count, f0, f1)
    BY <1>3 DEF RawXYEvent
  <2> DEFINE a == ApplyFingers(slots, eof, count, f0, f1)
             N == NamedSlots(eof, count, f0, f1)
             closes == eof \/ count <= 2
             seenNow == frameSeen \cup (N \cap SlotIdx)
  <2>2. /\ a \in SlotArray
        /\ \A i \in SlotIdx :
              a[i] = IF i \in N
                     THEN [touch_state |->
                             ReportedStatus(i, eof, count, f0, f1, lastContact[i]),
                           seen_in_this_frame |-> TRUE]
                     ELSE slots[i]
    <3>1. slots \in SlotArray
      BY DEF SlotArray, SlotRec
    <3>2. QED
      BY <3>1, ApplyFingersShape
  <2>3. /\ N \subseteq -1..14
        /\ lastContact' \in [SlotIdx -> BOOLEAN]
        /\ \A i \in SlotIdx :
              lastContact'[i] = ReportedStatus(i, eof, count, f0, f1, lastContact[i])
    BY <2>1, ReportHistoryType DEF RawXYReport
  <2>4. /\ lastSlots' = N
        /\ lastBoundary' = closes
        /\ frameSeen' = IF closes THEN {} ELSE seenNow
        /\ closedFrame' = IF closes THEN seenNow ELSE closedFrame
        /\ slots' = IF closes THEN RetireUnseen(a) ELSE a
        /\ UNCHANGED <<phase, initPc>>
    BY <1>3, <2>1 DEF RawXYEvent, RawXYReport, FrameBoundary
  \* A slot the report named is seen and holds the status lastContact'
  \* records; any other slot, and its last status, are as they were.
  <2>5. ASSUME NEW i \in N \cap SlotIdx
        PROVE  /\ a[i].seen_in_this_frame = TRUE
               /\ a[i].touch_state = lastContact'[i]
    <3>1. a[i] = [touch_state |->
                    ReportedStatus(i, eof, count, f0, f1, lastContact[i]),
                  seen_in_this_frame |-> TRUE]
      BY <2>2
    <3>2. ReportedStatus(i, eof, count, f0, f1, lastContact[i]) = lastContact'[i]
      BY <2>3
    <3>3. QED
      BY <3>1, <3>2
  <2>6. ASSUME NEW i \in SlotIdx \ N
        PROVE  /\ a[i] = slots[i]
               /\ lastContact'[i] = lastContact[i]
    <3>1. a[i] = slots[i]
      BY <2>2
    <3>2. ReportedStatus(i, eof, count, f0, f1, lastContact[i]) = lastContact[i]
      BY ReportedStatusUnnamed
    <3>3. QED
      BY <2>3, <3>1, <3>2
  \* Within the frame, the seen flags are the slots named since the
  \* boundary, and those hold their last reported status.
  <2>7. ASSUME NEW i \in SlotIdx
        PROVE  /\ a[i].seen_in_this_frame <=> i \in seenNow
               /\ i \in seenNow => a[i].touch_state = lastContact'[i]
    <3>1. CASE i \in N
      <4>1. a[i].seen_in_this_frame = TRUE /\ a[i].touch_state = lastContact'[i]
        BY <2>5, <3>1
      <4>2. QED
        BY <3>1, <4>1
    <3>2. CASE i \notin N
      <4>1. a[i] = slots[i] /\ lastContact'[i] = lastContact[i]
        BY <2>6, <3>2
      <4>2. slots[i].seen_in_this_frame <=> i \in frameSeen
        BY DEF SeenIsFrame
      <4>3. i \in frameSeen => slots[i].touch_state = lastContact[i]
        BY DEF FrameHoldsLastStatus
      <4>4. QED
        BY <3>2, <4>1, <4>2, <4>3
    <3>3. QED
      BY <3>1, <3>2
  <2>8. CASE closes
    <3>1. /\ slots' \in [SlotIdx -> SlotRec]
          /\ \A i \in SlotIdx :
                /\ slots'[i].seen_in_this_frame = FALSE
                /\ slots'[i].touch_state =
                      (a[i].touch_state /\ a[i].seen_in_this_frame)
      BY <2>2, <2>4, <2>8 DEF RetireUnseen, SlotArray, SlotRec
    <3>2. /\ lastBoundary' = TRUE
          /\ frameSeen' = {}
          /\ closedFrame' = seenNow
      BY <2>4, <2>8
    <3>3. FrameContactsExact'
      BY <2>7, <3>1, <3>2, Zenon DEF FrameContactsExact
    <3>4. SeenIsFrame' /\ FrameHoldsLastStatus' /\ BoundaryStartsFrame'
      BY <3>1, <3>2, Zenon DEF SeenIsFrame, FrameHoldsLastStatus,
                               BoundaryStartsFrame
    <3>5. TypeOK'
      BY <1>0, <2>3, <2>4, <3>1, <3>2 DEF BoolVars, SlotRec
    <3>6. QED
      BY <3>3, <3>4, <3>5
  <2>9. CASE ~closes
    <3>1. /\ slots' = a
          /\ lastBoundary' = FALSE
          /\ frameSeen' = seenNow
          /\ closedFrame' = closedFrame
      BY <2>4, <2>9
    <3>2. SeenIsFrame' /\ FrameHoldsLastStatus'
      BY <2>7, <3>1, Zenon DEF SeenIsFrame, FrameHoldsLastStatus
    <3>3. BoundaryStartsFrame' /\ FrameContactsExact'
      BY <3>1, Zenon DEF BoundaryStartsFrame, FrameContactsExact
    <3>4. TypeOK'
      BY <1>0, <2>2, <2>3, <2>4, <3>1 DEF BoolVars, SlotArray, SlotRec
    <3>5. QED
      BY <3>2, <3>3, <3>4
  <2>10. QED
    BY <2>8, <2>9
<1>4. CASE UNCHANGED vars
  BY <1>0, <1>4 DEF BoolVars, vars, SeenIsFrame, FrameHoldsLastStatus, BoundaryStartsFrame,
              FrameContactsExact
<1>5. QED
  BY <1>1, <1>2, <1>3, <1>4 DEF Next, QuietStep


-----------------------------------------------------------------------------
\* For every number of slots and every set of finger ids in 0..15, every
\* variable of the touchpad model keeps its type.
THEOREM TypeCorrect == Spec => []TypeOK
<1>1. Init => IInv
  BY InitIInv
<1>2. IInv /\ [Next]_vars => IInv'
  BY NextIInv
<1>3. IInv => TypeOK
  BY DEF IInv
<1>4. QED
  BY <1>1, <1>2, <1>3, PTL DEF Spec

\* (Spec, section 4.2) For every number of slots: right after a frame
\* boundary the active slots are exactly those the frame's reports named
\* with a last status of "contact" -- the seen flags and the retirement
\* loop of wtp_touchpad_raw_xy_event reassemble a frame split over reports.
THEOREM FrameContactsExactHolds == Spec => []FrameContactsExact
<1>1. IInv => FrameContactsExact
  BY DEF IInv
<1>2. QED
  BY <1>1, InitIInv, NextIInv, PTL DEF Spec


-----------------------------------------------------------------------------
(***************************************************************************)
(* The refinement.  Only TypeOK is needed: the abstract state is a        *)
(* function of the slot array, and each raw XY report, read through the   *)
(* mapping, is the abstract Report of the statuses it carried.            *)
(***************************************************************************)
LEMMA InitRefines == Init => Tracker!Init
<1> SUFFICES ASSUME Init PROVE Tracker!Init
  OBVIOUS
<1>1. \A i \in SlotIdx : ~slots[i].touch_state /\ ~slots[i].seen_in_this_frame
  BY DEF Init, EmptySlot
<1>2. TrackedActive = {}
  BY <1>1 DEF TrackedActive
<1>3. {j \in SlotIdx : slots[j].seen_in_this_frame} = {}
  BY <1>1
<1>4. TrackedFrame = Tracker!NoFrame
  BY <1>3 DEF TrackedFrame, Tracker!NoFrame
<1>5. TrackedReport = Tracker!NoFrame
  BY DEF Init, TrackedReport, Tracker!NoFrame
<1>6. QED
  BY <1>2, <1>4, <1>5 DEF Init, Tracker!Init


\* A raw XY report is the abstract Report of the in-range statuses it
\* carried, closing the frame when the specification's boundary rule says.
LEMMA ReportRefines ==
    ASSUME TypeOK, NEW eof \in BOOLEAN, NEW count \in FingerCounts,
           NEW f0 \in FingerRecord, NEW f1 \in FingerRecord,
           RawXYReport(eof, count, f0, f1)
    PROVE  Tracker!Next
<1> DEFINE a == ApplyFingers(slots, eof, count, f0, f1)
           N == NamedSlots(eof, count, f0, f1)
           D == N \cap SlotIdx
           closes == eof \/ count <= 2
<1>2. /\ lastContact' \in [SlotIdx -> BOOLEAN]
      /\ \A i \in SlotIdx :
            lastContact'[i] = ReportedStatus(i, eof, count, f0, f1, lastContact[i])
      /\ lastSlots' = N
      /\ lastBoundary' = closes
      /\ slots' = IF closes THEN RetireUnseen(a) ELSE a
  BY ReportHistoryType DEF TypeOK, RawXYReport, FrameBoundary
<1>3. slots \in SlotArray /\ lastContact \in [SlotIdx -> BOOLEAN]
  BY DEF TypeOK, SlotArray, SlotRec
<1> DEFINE R == [i \in D |-> lastContact'[i]]
           M == Tracker!Merge(TrackedFrame, R)
<1>4. ASSUME NEW i \in D
      PROVE  a[i].seen_in_this_frame = TRUE /\ a[i].touch_state = R[i]
  <2>1. a[i] = [touch_state |->
                  ReportedStatus(i, eof, count, f0, f1, lastContact[i]),
                seen_in_this_frame |-> TRUE]
    BY <1>3, NamedSlotSet
  <2>2. ReportedStatus(i, eof, count, f0, f1, lastContact[i]) = R[i]
    BY <1>2
  <2>3. QED
    BY <2>1, <2>2
<1>5. ASSUME NEW i \in SlotIdx \ D PROVE a[i] = slots[i]
  <2>1. slots \in SlotArray
    BY DEF TypeOK, SlotArray, SlotRec
  <2>2. QED
    BY <2>1, UnnamedSlotUnchanged
<1>6. R \in Tracker!Statuses
  <2>1. D \in SUBSET SlotIdx /\ R \in [D -> BOOLEAN]
    BY <1>2
  <2>2. QED
    BY <2>1 DEF Tracker!Statuses
<1>7. TrackedReport' = R
  BY <1>2 DEF TrackedReport
\* The frame the report extends: a slot is in it if seen before or named
\* now, with the status the report gave it, else the status it had.
<1>8. /\ DOMAIN M = {j \in SlotIdx : slots[j].seen_in_this_frame} \cup D
      /\ \A i \in DOMAIN M :
            M[i] = IF i \in D THEN R[i] ELSE slots[i].touch_state
  BY DEF Tracker!Merge, TrackedFrame
<1>9. CASE closes
  <2>1. ASSUME NEW i \in SlotIdx
        PROVE  /\ slots'[i].seen_in_this_frame = FALSE
               /\ slots'[i].touch_state =
                     (a[i].touch_state /\ a[i].seen_in_this_frame)
    BY <1>2, <1>3, <1>9 DEF RetireUnseen
  <2>2. ASSUME NEW i \in SlotIdx
        PROVE  i \in TrackedActive' <=> i \in Tracker!Touching(M)
    <3>1. CASE i \in D
      BY <1>4, <1>8, <2>1, <3>1 DEF TrackedActive, Tracker!Touching
    <3>2. CASE i \notin D
      BY <1>5, <1>8, <2>1, <3>2 DEF TrackedActive, Tracker!Touching
    <3>3. QED
      BY <3>1, <3>2
  <2>3. TrackedActive' = Tracker!Touching(M)
    BY <1>8, <2>2 DEF TrackedActive, Tracker!Touching
  <2>4. TrackedFrame' = Tracker!NoFrame
    <3>1. {j \in SlotIdx : slots'[j].seen_in_this_frame} = {}
      BY <2>1
    <3>2. QED
      BY <3>1 DEF TrackedFrame, Tracker!NoFrame
  <2>5. QED
    BY <1>2, <1>6, <1>7, <1>9, <2>3, <2>4 DEF Tracker!Next, Tracker!Report
<1>10. CASE ~closes
  <2>1. slots' = a
    BY <1>2, <1>10
  <2>2. ASSUME NEW i \in SlotIdx
        PROVE  i \in TrackedActive' <=>
                 i \in (TrackedActive \ DOMAIN R) \cup Tracker!Touching(R)
    <3>1. CASE i \in D
      BY <1>4, <2>1, <3>1 DEF TrackedActive, Tracker!Touching
    <3>2. CASE i \notin D
      BY <1>5, <2>1, <3>2 DEF TrackedActive, Tracker!Touching
    <3>3. QED
      BY <3>1, <3>2
  <2>3. TrackedActive' = (TrackedActive \ DOMAIN R) \cup Tracker!Touching(R)
    BY <2>2 DEF TrackedActive, Tracker!Touching
  <2>4. ASSUME NEW i \in SlotIdx
        PROVE  /\ slots'[i].seen_in_this_frame <=> i \in DOMAIN M
               /\ i \in DOMAIN M => slots'[i].touch_state = M[i]
    <3>1. CASE i \in D
      BY <1>4, <1>8, <2>1, <3>1
    <3>2. CASE i \notin D
      BY <1>5, <1>8, <2>1, <3>2
    <3>3. QED
      BY <3>1, <3>2
  <2>5. TrackedFrame' = M
    <3>1. {j \in SlotIdx : slots'[j].seen_in_this_frame} = DOMAIN M
      BY <1>8, <2>4
    <3>2. \A i \in DOMAIN M : slots'[i].touch_state = M[i]
      BY <1>8, <2>4
    <3>3. M = [i \in DOMAIN M |-> M[i]]
      BY DEF Tracker!Merge
    <3>4. QED
      BY <3>1, <3>2, <3>3 DEF TrackedFrame
  <2>6. QED
    BY <1>2, <1>6, <1>7, <1>10, <2>3, <2>5 DEF Tracker!Next, Tracker!Report
<1>11. QED
  BY <1>9, <1>10


\* Every step of the driver is a step of the tracker or leaves the tracked
\* state alone: probe is Reset, a raw XY report is Report, the rest stutter.
LEMMA NextRefines == TypeOK /\ [Next]_vars => [Tracker!Next]_Tracker!vars
<1> SUFFICES ASSUME TypeOK, [Next]_vars PROVE [Tracker!Next]_Tracker!vars
  OBVIOUS
<1>1. CASE Probe
  <2>1. \A i \in SlotIdx : ~slots'[i].touch_state /\ ~slots'[i].seen_in_this_frame
    BY <1>1 DEF Probe, EmptySlot
  <2>2. TrackedActive' = {}
    BY <2>1 DEF TrackedActive
  <2>3. {j \in SlotIdx : slots'[j].seen_in_this_frame} = {}
    BY <2>1
  <2>4. TrackedFrame' = Tracker!NoFrame
    BY <2>3 DEF TrackedFrame, Tracker!NoFrame
  <2>5. TrackedReport' = TrackedReport
    BY <1>1 DEF Probe, TrackedReport
  <2>6. QED
    BY <1>1, <2>2, <2>4, <2>5 DEF Probe, Tracker!Next, Tracker!Reset
<1>2. CASE QuietStep
  <2>1. UNCHANGED <<slots, lastContact, lastBoundary, lastSlots>>
    BY <1>2 DEF QuietStep, Remove, DeviceInitStart, SetRawReportState,
                GetRawInfo, DeviceInitFails, Disconnect, Reconnect,
                InitUnchanged, HistoryUnchanged
  <2>2. QED
    BY <2>1 DEF Tracker!vars, TrackedActive, TrackedFrame, TrackedReport
<1>3. CASE RawXYEvent
  <2>1. PICK eof \in BOOLEAN, count \in FingerCounts,
             f0 \in FingerRecord, f1 \in FingerRecord :
               RawXYReport(eof, count, f0, f1)
    BY <1>3 DEF RawXYEvent
  <2>2. QED
    BY <2>1, ReportRefines
<1>4. CASE UNCHANGED vars
  BY <1>4 DEF vars, Tracker!vars, TrackedActive, TrackedFrame, TrackedReport
<1>5. QED
  BY <1>1, <1>2, <1>3, <1>4 DEF Next, QuietStep

\* (Spec, section 4.2) The touchpad driver implements the frame-based
\* contact tracker: the slot array of wtp_touchpad_raw_xy_event, read
\* through the refinement mapping, only ever changes as ContactTracker allows.
THEOREM Refinement == Spec => TrackerSpec
<1>1. Init => Tracker!Init
  BY InitRefines
<1>2. TypeOK /\ [Next]_vars => [Tracker!Next]_Tracker!vars
  BY NextRefines
<1>3. QED
  BY <1>1, <1>2, TypeCorrect, PTL DEF Spec, TrackerSpec, Tracker!Spec

=============================================================================
