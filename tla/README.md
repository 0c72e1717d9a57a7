# Verification of the Logitech touch-mouse and wireless-touchpad HID drivers

This directory models the two HID drivers:

- `src/drivers/hid/hid-logitech-tm.c` (Logitech touch mice T400/T620)
- `src/drivers/hid/hid-logitech-wtp.c` (Logitech wireless touchpads)

It contains TLA+ modules, TLC configurations and TLAPS proofs.
`PROJECT.json` lists every component, run, mutant, mapped definition,
finding, hazard and theorem. This file explains them.

## 1. The system

Both drivers sit on the HID++ core (`hid-logitech-hidpp.c`). That core is not
part of this tree. It delivers device reports to the driver's `raw_event`
callback one at a time. Connection changes reach the driver's `connect_change`
from a work item. The core calls `device_init` until it succeeds.

**Touch mouse (`tm.c`).** Three contexts share `struct tm_data`.

- **Probe.** `tm_probe` allocates `tm_data`, calls `hidpp_init` and negotiates
  raw mode with `tm_set_raw_report_state`. That is five blocking HID++
  commands: root version, index of feature 0x6110, index of feature 0x1b03,
  touchpad params, enable raw. It then sets `in_raw_mode` and calls
  `hid_hw_start`. The negotiation's result is ignored. `hid_hw_start` calls
  `tm_input_mapping`, which sizes the MT slots from `max_fingers`.
- **HID++ connection work.** When the mouse comes back into range it calls
  `tm_connect_change`, which re-runs the whole negotiation if the hardware
  started. It writes `mt_feature_index`, `feature_1b03` and `tp_info` without
  the lock.
- **Report delivery.** `tm_raw_event` returns early until `hid_hw_started`.
  A feature-event report of feature 0x6110, sub-event 0, runs
  `emit_fingers`. That loop runs once per finger up to `tp_info.max_fingers`,
  re-reading the bound on each pass. It skips sentinel records, allocates
  tracking ids for slots missing from `prev_slots_used`, then sets the
  `BTN_TOOL_*` keys and `prev_slots_used`. Every report then runs
  `emit_buttons`. That holds three depressor state machines, one per button,
  fed by three report kinds: the mouse report, 0x6110 raw-points and 0x1b03.

`delayedwork_callback` is initialised but never queued, so it never runs.

**Wireless touchpad (`wtp.c`).**

- **Probe.** `wtp_probe` starts the hardware and `hidpp_init`. The core then
  runs `wtp_device_init`: set raw report state, then get raw info. Until that
  succeeds, `initialized` stays false and reports are dropped.
- **Reports.** `hidpp_touchpad_raw_xy_event` decodes a dual-touch report into
  one or two finger records. `wtp_touchpad_raw_xy_event` marks slot
  `finger_id - 1` as seen with the record's contact status. At a frame
  boundary (`end_of_frame || finger_count <= 2`) it retires every active slot
  not seen in the frame, then clears the seen flags. A frame of 3-4 fingers
  therefore spans two reports.
- **Reconnect.** `wtp_connect_change` re-enables raw mode and ignores the
  result.

## 2. Modules

| Module | Models | Kind |
|---|---|---|
| `TouchMouse` | tm.c: probe, negotiation, connect change, report decoding, buttons, remove | component |
| `MCTouchMouse` | TouchMouse with a 2-bit tracking-id counter | TLC instance |
| `TouchMouseProofs` | TLAPS proofs about TouchMouse, the refinement of `ContactTracker` included | proofs |
| `MCTouchMouseProofs` | MCTouchMouse with the inductive invariants of `TouchMouseProofs`, for the `tm_core` run | TLC instance |
| `WtpTouchpad` | wtp.c: probe, device_init, connect change, dual-touch frames, remove | component |
| `MCWtpTouchpad` | WtpTouchpad with 3 slots | TLC instance |
| `ContactTracker` | what a frame-based contact tracker promises (spec §4.2), with no slot array; both drivers implement it | abstract specification |
| `WtpTouchpadProofs` | TLAPS proofs about WtpTouchpad, the refinement included | proofs |
| `TouchCodec` | the byte decoding: `REL_X`/`REL_Y` sign extension (`tm.c:210-221`) and the dual-touch sub-record (`wtp.c:184-199`) | pure operators |
| `MCTouchCodec` | TouchCodec on boundary bytes | TLC instance |

The two drivers share no state: each binds its own device. They are separate
modules with no composition. They meet in `ContactTracker`: each one's
multitouch slots are shown to implement it.

### TouchMouse: state and actions

**Driver state.** The variables are the fields of `tm_data`:

- `mt_feature_index`, `feature_1b03`, `max_fingers`
- `hid_hw_started`, `in_raw_mode`
- `next_tracking_id`
- `prev_slots_used`: the bitmask as the set of its bits
- `button_depressor`

Three groups of variables model code that is in progress:

- **Negotiation.** `negPc` is the next command to send, or `idle`.
  `connPending` marks a connect notification queued for the work item.
- **emit_fingers.** `loopI` is the loop index. `loopRec` is the set of slots
  whose record is not the sentinel. `slots_used` is the local bitmask.

**Mouse state.**

- `connected`: the mouse is in radio range.
- `devRaw`: the mouse sends raw-points reports.
- `devBtn[src][b]`: the latest report of kind `src` says button `b` is down.

**What the input layer was told.**

- `input_num_slots`: the slot count given at `hid_hw_start`.
- `sinkId`: the last `ABS_MT_TRACKING_ID` sent per slot.
- `toolKeys`: the `BTN_TOOL_*` keys that are set.

**Actions.** Each action maps to the code it translates:

| Action | Code |
|---|---|
| `ProbeStart` | `tm_probe` up to `hid_device_io_start` |
| `GetProtocolVersion` .. `RequestRawMode`, `NegCommandFails` | one per command of `tm_set_raw_report_state`, each able to fail and return |
| `ProbeFinish` | the rest of `tm_probe`: `hid_hw_start` succeeds, or it fails and `tm_data` is freed |
| `Remove` | `tm_remove` |
| `Disconnect`, `Reconnect` | the radio link and the HID++ core's notification |
| `ConnectChange` | `tm_connect_change` |
| `RawEventMouse`, `RawEvent1b03`, `RawEventRawPtsButton`, `RawEventFingers` | the branches of `tm_raw_event` |
| `FingerSlot` | one iteration of the `emit_fingers` loop |
| `FingerFrameEnd` | the end of `emit_fingers`, plus `emit_buttons` and `input_sync` |

Each negotiation command is its own step, and so is each loop iteration. That
lets TLC interleave the connect work with a report being decoded, which is the
race the code has.

**Data abstraction.**

- A finger record is "contact" or "sentinel". Coordinates and pressure are
  dropped. The `REL_X`/`REL_Y` arithmetic is modelled in `TouchCodec`.
- A report keeps only the fields `emit_buttons` branches on: report id,
  feature index, sub-event, and button bits.
- `tracking_id` is a `__u16`. It is modelled modulo the constant `IdMod`,
  keeping the skip of `IdMod - 1` (0xffff).

### WtpTouchpad: state and actions

**State.**

- `slots`: `fd->slots[i]`, each with `touch_state` and `seen_in_this_frame`.
- `initialized`: `hidpp_dev->initialized`.
- `initPc`: the command of `wtp_device_init` in progress.
- `connected`, `devRaw`: the touchpad.
- History variables for the properties:
  - `frameSeen`: slots named since the last boundary.
  - `closedFrame`: what the last boundary closed.
  - `lastContact`: the last contact status per slot.
  - `lastBoundary`: whether the last report closed a frame.
  - `lastSlots`: the slot indices the last report wrote.

**Actions.**

- `Probe` and `Remove`.
- `DeviceInitStart`, `SetRawReportState`, `GetRawInfo`, `DeviceInitFails`
  (`wtp_device_init`).
- `Disconnect`; `Reconnect` (`wtp_connect_change`, or the core's retry of
  `device_init`).
- `RawXYEvent`: one whole dual-touch report, decoding plus tracking. Its
  guard is the early return before `initialized`; its body is `RawXYReport`.
  The helpers are translated line for line:
  - `FirstFingerDecoded`, `SecondFingerDecoded`: which records are decoded;
  - `wtp_touch_event`, and `ApplyFingers` for the `if (finger_count)` block;
  - `FrameBoundary` and `RetireUnseen`: the boundary test and loop.
  `NamedSlots` and `ReportedStatus` compute the history: the slots a report
  names and the status it gives each.

**Fairness** (`FairSpec`, used only by `wtp_raw_restored`). Weak fairness on
`DeviceInitStart`: the core calls `device_init` when asked. Strong fairness on
`SetRawReportState` and `GetRawInfo`: asked often enough while in range, the
transport eventually answers. Radio range, probe and remove get no fairness;
they are the environment.

### ContactTracker: the abstract tracker

`ContactTracker` says what the slot array promises, without slots, seen
flags or a retirement loop. It has four variables:

- `active`: the contacts the host sees as touching;
- `frame`: for each contact mentioned since the frame began, its last status;
- `report`: the statuses the last report carried;
- `closing`: whether that report ended a frame.

There are two actions. `Report(R, closes)` inside a frame changes exactly
the contacts `R` names. At the end of a frame it makes `active` the contacts
of the merged frame whose last status is "touching", and starts a new frame.
`Reset` is a fresh tracker.

`WtpTouchpad` maps onto it as follows (`Tracker == INSTANCE ContactTracker
WITH ...`):

- `active` is the set of slots with `touch_state`;
- `frame` is `touch_state` restricted to the slots with `seen_in_this_frame`;
- `report` is the last report's in-range slots with their statuses;
- `closing` is `lastBoundary`.

The abstract spec has to see the report itself. With `report` and `closing`
left out, any step could be read as some `Report`, and the refinement would
say almost nothing.

`TouchMouse` maps onto it in its last section. The mapping reads each pass
of `emit_fingers` as one frame, and each loop iteration as a report that
names the one slot it visits:

- `active` is the set of slots with a live tracking id (`sinkId # NoId`);
- `frame` covers the slots the loop has passed (`Visited`, that is
  `0..loopI-1`), each with whether its record was a contact;
- `report` is the slot just visited with its status, or nothing outside the
  loop and right after it starts;
- `closing` holds when no loop is running or none of it has run yet.

Under this mapping, `FingerSlot` is `Report` of one slot, not closing.
`FingerFrameEnd` is a closing `Report` that names nothing. `ProbeStart`,
`Remove` and a failed probe are `Reset`. Everything else stutters, including
the start of the loop in `RawEventFingers`, because no slot has been visited
yet. Unlike the touchpad, where a slot changes only at a boundary, the
mouse's tracker changes a slot as soon as the loop visits it: each visit is
a report naming that slot alone, and what the refinement adds is that a
visit changes no other slot. The frame end then adopts the visited contacts
and releases nothing more, because every slot without a contact was
released on its visit.

**Modelled from the specification.** The HID++ core is not in this tree.
Its part is modelled from spec section 4.5 and marked `spec_modelled` in the
map:

- when `device_init` is called;
- that it is retried after a reconnection;
- the mouse's connect notification.

### TouchCodec

The decoders are operators named after the code:

- `RelX` and `RelY`: the shift pair of `tm_raw_event`.
- `hidpp_touchpad_touch_event`.

Their building blocks model C's arithmetic:

- `U8`: truncation to a `u8`.
- `IntWrap`, `ShlInt` and `AsrInt`: the `int` shifts. A left shift into the
  sign bit is undefined in ISO C. The kernel builds with
  `-fno-strict-overflow`, so gcc wraps; gcc's `>>` on a negative int is
  arithmetic.

`|`, `&` and `shiftR` come from the Bitwise module. The run makes every
combination of the input bytes an initial state, and one decode step produces
the output. The decoder then stops, which is why this run alone turns off the
deadlock check. The width of `int` is the constant `IntBits`, because the code
computes `shift = sizeof(int)*8 - 12`. TLC's own integers are 32-bit, so the
run uses `IntBits = 30`. The 12-bit field still lands in the sign bit, which
is the case that matters.

## 3. Runs

All runs use small constants.

- **Touch mouse:** `DevMaxFingers = 2`, `DevMtIdx = 2`, `Dev1b03Idx = 3`, and
  a 2-bit tracking-id counter (`IdMod = 4`, ids 1 and 2, 3 skipped).
  - Two slots are the least that shows the slot-mask and id-sharing cases.
  - With ids 1..2 the counter wraps after two allocations. The wrap and the
    skip are therefore reached in every run.
- **Touchpad:** 3 slots and finger ids 1..3. A three-finger frame over two
  reports then happens, and so does a finger left over from the previous
  frame.

| Run | Expect | Properties | What it shows |
|---|---|---|---|
| `tm_core` | pass | `TypeOK`, `IdInRange`, `NoStuckButton`, `TrackerInv`, `TrackingIdStable`, `ButtonOwnedBySetter`, `TrackerSpec` | Negotiation, reconnection and report decoding are interleaved arbitrarily, mid-loop included. Through all of it, ids never hit 0 or the sentinel, and a finger that stays down keeps its id. Each button is attributed to one source and cleared only by that source's release, and a button is never held by a source whose latest report says "up". The `emit_fingers` slots implement `ContactTracker` (`TrackerSpec`). `TrackerInv`, the inductive invariant of the refinement proof (section 5), holds as well. (858,680 states) |
| `tm_ids_distinct` | violation | `ActiveIdsDistinct` | After the counter wraps, a new finger receives the id of a finger still down. |
| `tm_tool_keys` | violation | `ToolMatchesActiveCount` | One finger in slot 1 (bitmask 2) yields `BTN_TOOL_DOUBLETAP`; two fingers in slots 0 and 1 (bitmask 3) yield `BTN_TOOL_TRIPLETAP`. |
| `tm_sink_raw` | violation | `SinkStartedOnlyInRawMode` | `tm_probe` starts the input device after a failed negotiation. |
| `tm_raw_restored` | violation | `RawModeRestored` | Even under the fairness below, a failed negotiation is never retried. The mouse stays in legacy mode for as long as it stays in range. |
| `tm_input_slot` | violation | `InputSlotExists` | A three-finger mouse probed while its negotiation fails gets `MAX(2, 0)` input slots. A later successful `tm_connect_change` sets `max_fingers` to 3, and `emit_fingers` then selects slot 2, which the input device does not have. (`DevMaxFingers = 3` in this run.) |
| `wtp_core` | pass | `TypeOK`, `FrameContactsExact` | At every boundary the active slots are exactly those named in the frame with contact as their last status, for frames split over two reports too. It holds across disconnects and re-initialisation. |
| `wtp_refinement` | pass | `TrackerSpec` | The slot array, read through the mapping, implements `ContactTracker` across probes, disconnects and re-initialisation. (13,568 states) |
| `wtp_raw_restored` | violation | `RawModeRestored` | Under `FairSpec`, a touchpad that was initialised and whose re-enable fails on reconnect never returns to raw mode: `wtp_connect_change` ignores the result, and nothing retries. |
| `codec` | pass | `TypeOK`, `RelIsTwos12`, `TouchBitsPreserved` | For every combination of the bytes 0, 1, 8, 63, 64, 127, 128 and 255, `REL_X`/`REL_Y` equal the two's-complement values of the packed 12-bit fields. The u8 truncation drops exactly the two status bits: x, y and the status fields give back the four input bytes. (66,560 states) |
| `codec_finger_id` | violation | `FingerIdLowNibble` | `finger_id` is `id >> 4`, while the specification says the low four bits. |
| `wtp_slot_index` | violation | `SlotIndexInRange` | A finger id of 0 makes `wtp_touch_event` write `slots[-1]`, outside the array. The code's array has 5 slots, so ids 6..15 would also be out of range there; in this 3-slot model, id 4 stands for them. |

**Mutants.** Each property of a passing run has one, listed in
`PROJECT.json`. A mutant is a plausible bug in the definition the property is
about:

- the skip of 0xffff dropped;
- `i <= max_fingers` in the loop;
- `prev_slots_used` not updated;
- a release accepted from any source;
- a raw-points release ignored;
- the retirement loop one slot too far;
- the seen flags not cleared;
- `REL_Y` built from the wrong nibble;
- status bits split off with `>> 7`;
- `x_m` and `y_m` not truncated to a u8;
- `wtp_touch_event` not setting `seen_in_this_frame`, which breaks the
  refinement: a frame that ends then drops a slot that was reported touching.

TLC finds every one of them violated under the run's own configuration.

**Fairness of the mouse** (only `tm_raw_restored` uses it).

- Weak fairness on `ConnectChange`, `ProbeFinish`, `FingerSlot` and
  `FingerFrameEnd`. The work item runs what is queued, a probe runs to its
  end, and a report being decoded is finished.
- Strong fairness on each successful negotiation command. If asked often
  enough while in range, the radio eventually answers. This is an assumption
  about the link, not the driver.

The violation holds even under these generous assumptions, because no step of
the code asks again.

## 4. Findings

| Finding | Code | Specification |
|---|---|---|
| Tracking ids are not unique after a wrap | `tm.c:172` | Spec §3: ids are unique among active slots. It takes 65,534 allocations with a finger held throughout. |
| Tool keys come from the bitmask, not the finger count | `tm.c:189-192`; a code bug | Spec §4.2: the key matches the number of active slots. |
| The input device starts without raw mode | `tm.c:514-525` | Spec §4.5: the sink is deferred until raw mode is confirmed. In addition, `MAX(2, 0)` slots are set up, so a mouse with 3-4 fingers later addresses slots that were never initialised. |
| No retry of a failed negotiation | `tm.c:479`, `tm.c:435` | Spec §4.5 and §7: one retry per failure. |
| `finger_id` comes from the high nibble | `wtp.c:196` | Spec §4.1 says the low four bits. The low nibble of the second record's id is the finger count (`wtp.c:210`), so the specification's reading would collide with it. |
| Input slot beyond those created | `tm.c:162`, `tm.c:407`; a code bug | Spec §4.2: the tracker must not index out of the slot array. The slot count is fixed at `hid_hw_start`, but `max_fingers` can grow at a later renegotiation. |
| No retry of a failed raw-mode re-enable on the touchpad | `wtp.c:306` | Spec §4.5 and §7: a transport failure schedules one retry. |
| Unchecked `finger_id` as slot index | `wtp.c:116`; a code bug | Spec §4.2: indices outside the slot array are clamped or ignored. |

## 5. Proofs

`TouchMouseProofs` proves seven theorems with TLAPS. They hold for every value
of the constants allowed by the `ASSUME`s of `TouchMouse`:

- `DevMaxFingers ∈ 1..4`;
- the feature indices are bytes. The 0x6110 index is not 0, and the two
  indices differ. Index 0 is the HID++ root feature, which every device
  has, so no other feature can be at 0. A 0x1b03 index of 0 is what the
  root feature answers for a feature the mouse lacks (`tm.c:341` stores it
  as given). The model sends no event report at index 0 then;
- `IdMod ≥ 3`;
- `IgnoreMouseButtons` is Boolean (T620 or T650).

The theorems:

- `TypeCorrect == Spec => []TypeOK`
- `TrackingIdsInRange == Spec => []IdInRange`, for every counter width.
- `NoStuckButtonHolds == Spec => []NoStuckButton`
- `ButtonOwnedBySetterHolds == Spec => ButtonOwnedBySetter`
- `TrackingIdStableHolds == Spec => TrackingIdStable`
- `TrackerInvHolds == Spec => []TrackerInv`, the strengthening the
  refinement rests on
- `TrackerRefinement == Spec => TrackerSpec`, for every finger count

**Why `TypeOK` needs strengthening.** `TypeOK` is not inductive.
`FingerSlot` moves `loopI` up to `max_fingers`, and `max_fingers` is a
byte. Only the fact that the driver's `max_fingers` is 0 or the mouse's
`DevMaxFingers` keeps the loop inside the slot array. The inductive invariant
is therefore:

`IInv == TypeOK /\ MaxFingersKnown /\ IdInRange`

**Proof structure.** `NextIInv` has one case per action. Each case splits on
the branches of that action.

**Lemmas.**

- `NextIdInRange`: the increment-and-skip maps `1..IdMod-2` into itself.
- `EmitButtonsType` and `DeviceButtonsType`: the button functions preserve
  their types.
- `ReportShapes`: the reports the model builds have the expected shape.
- `BoolVars` and `NextBoolVars`: the Boolean variables stay Boolean. These are
  proved with Zenon, because the SMT encoding does not derive `x \in BOOLEAN`
  from `x = FALSE`.

**The buttons.** `NoStuckButton` is not inductive. It says nothing about
*which* report may change a depressor. In a state where the driver's
`mt_feature_index` equalled the 0x1b03 index, a 0x1b03 report would reach
`emit_buttons` as a raw-points event and could release a button that the
1b03 source still holds down. Such a state is unreachable, and the
strengthening says why:

`BtnInv == FeaturesKnown /\ \A b \in Buttons : ButtonConsistent(b)`

- `FeaturesKnown`: each feature index the driver holds is 0 or the mouse's
  own.
- `ButtonConsistent(b)`: button `b` is held by the raw-points or the 0x1b03
  source only once the driver knows that source's index. On a T620 it is
  never held by the mouse report. And the holding source last reported `b`
  down (`NoStuckButton` for `b`).

With `FeaturesKnown` and the distinct non-zero device indices, each report
reaches exactly one of the three state machines of `emit_buttons`. The
lemmas `MouseReportEffect`, `Report1b03Effect`, `RawPtsEffect` and
`FingerReportEffect` state which one, and how `DeviceButtons` changes.

`MouseReportBtnInv`, `Report1b03BtnInv` and `RawPtsBtnInv` then prove, button
by button, both `BtnInv'` and `ReleasedBySetter(b)`. Each splits on the IF
chain of its state machine: take, release, keep. `ReleasedBySetter(b)` is the
body of `ButtonOwnedBySetter`.

`NextBtnInv` covers the other actions:

- unbinding, a failed probe and a new probe clear every depressor, and they
  leave the driver unbound;
- negotiation writes only the mouse's own indices.

**Tracking ids.** `TrackingIdStable` needs to know that a slot with a live id
is not given a new one. `emit_fingers` gives a new id only to a slot absent
from `prev_slots_used`. The invariant:

`SlotIdsKnown`: a slot with a live id is in `prev_slots_used`, or in
`slots_used` once this report's loop has passed it. While `max_fingers` is 0,
no slot has an id.

The last clause is what lets the frame end's `prev_slots_used = slots_used`
keep the fact. The loop then stops at `max_fingers`, which is 0 or
`DevMaxFingers`, so it has passed every slot that can hold an id.

`NextSlotIds` proves the invariant and the step property together. The
`FingerSlot` case is split into the slot being visited and all other slots.

**The mouse's tracker.** `TrackerRefinement` needs more than
`SlotIdsKnown`, which says only "live id => known slot". The refinement needs
the converse, and it needs to know what `slots_used` holds:

`TrackerInv`:

- the driver is bound whenever the input device is started or the loop runs;
- the loop index never passes `max_fingers`;
- with `max_fingers = 0`, `prev_slots_used` is empty;
- `slots_used` is exactly the visited slots whose record was a contact;
- a slot has a live id **exactly** when it is a contact of this report (if
  visited) or of the last one (if not).

The second conjunct is what makes `Reset` sound. Probe and remove clear every
slot, and they can happen only when no loop is running, so `frame` and
`report` are left in a state `Reset` allows. Without the exact slot
equivalence, the frame end could not show that `active'` is the merged
frame's contacts.

`NextTrackerInv` proves the invariant, with one case per action.
`FingerSlotRefines` and `FrameEndRefines` prove the two `Report` cases, and
`ResetRefines` proves the `Reset` case. `NextTracker` assembles the step
mapping. The theorem then follows by `PTL` from these, `InitTracker` and
`NextIInv`.

`TrackerInv` is checked by TLC in the `tm_core` run. `BtnInv` and
`SlotIdsKnown` are only proof lemmas now: `BtnInv` contains `NoStuckButton`,
and `SlotIdsKnown` follows from `TrackerInv`, so checking them adds nothing.
All three were checked before their proofs on three more
instances: a T620 (`IgnoreMouseButtons = TRUE`), a mouse without a 0x1b03
feature (`Dev1b03Idx = 0`) and, for `SlotIdsKnown`, a three-finger mouse.

`WtpTouchpadProofs` proves three theorems. They hold for every slot count
`MaxContacts >= 1` and every set of finger ids within `0..15` (the `ASSUME`s
of `WtpTouchpad`; `id >> 4` gives no more than 4 bits):

- `TypeCorrect == Spec => []TypeOK`
- `FrameContactsExactHolds == Spec => []FrameContactsExact`
- `Refinement == Spec => TrackerSpec`

**The inductive invariant.** `FrameContactsExact` speaks only of the moment
after a boundary. Across the reports of a frame it is not inductive: a report
in mid-frame must leave behind enough to rebuild the frame at its end. So

`IInv == TypeOK /\ SeenIsFrame /\ FrameHoldsLastStatus /\ BoundaryStartsFrame /\ FrameContactsExact`

- `SeenIsFrame`: the seen flags are exactly the slots named since the last
  boundary;
- `FrameHoldsLastStatus`: each such slot holds the status it was last given;
- `BoundaryStartsFrame`: right after a boundary nothing is seen yet.

**Lemmas.** `ApplyFingersShape`, `NamedSlotSet` and `UnnamedSlotUnchanged`
describe the `if (finger_count)` block slot by slot: a named slot is seen and
holds the status the report gave it last, and every other slot is as it was.
All the report cases rest on them.

**The refinement.** It needs only `TypeOK`. `InitRefines` shows that a fresh
driver is a fresh tracker. `NextRefines` shows that `Probe` is `Reset`, that a
report is `Report(R, closes)`, and that every other step leaves the mapped
state alone. Here `R` is the report's in-range slots with their statuses, and
`closes` is the specification's boundary. `ReportRefines` proves the report
case slot by slot, for a closing and a non-closing report. The theorem then
follows by `PTL` from these and `TypeCorrect`.

**Left to TLC.** These are only model-checked:

- liveness (both `RawModeRestored` runs). Liveness and `ENABLED` are beyond
  the prover.
- the codec's invariants (`codec`). `TouchCodec` is built on `Bitwise`,
  and a module with theorems may not use `Bitwise`.
- the properties of the violation runs, which are about what the code gets
  wrong. Proving them false is TLC's counterexample.

## 6. Not modelled

- The `use_raw_mode = false` probe path. It is plain `hid_hw_start`.
- `tm_input_mapping` and `wtp_input_mapping`, apart from the slot count. They
  set fixed capability bits and ranges.
- Module init/exit and the device tables.
- The per-finger coordinate arithmetic of `emit_fingers` (`tm.c:156-185`):
  position, axis swap and pressure. It only computes values for
  `input_event`, and no property is about them.
- Hazards without a covering property are listed in `PROJECT.json` with the
  reason. They are:
  - the u8 slot mask beyond 8 fingers, and the reads past the 16 parameter
    bytes. Both need `max_fingers` above 4, which no supported mouse
    reports; `DevMaxFingers` is bounded to `1..4`.
  - a remove racing the HID++ connect work. That depends on `hidpp_remove`,
    which is not in this tree.

## 7. Plan for later work

1. `TouchCodec`: add the `emit_fingers` record decoding and axis swap
   (`tm.c:150-185`), checked against spec §8's four-origin table.
2. An abstract negotiation specification (NotStarted, InProgress,
   Succeeded, Failed) for the mouse, with `TouchMouse` mapped onto it. The
   missing retry means only the safety part can refine.
3. `hid_hw_start`'s slot count in the mouse's refinement: `TrackerInv`
   does not yet relate `input_num_slots` to `max_fingers`, which is the gap
   the `tm_input_slot` finding shows.
