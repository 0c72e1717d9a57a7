----------------------------- MODULE TouchCodec -----------------------------
(***************************************************************************)
(* The byte-level decoding of the two drivers, as pure operators:          *)
(*  - relative motion in tm_raw_event (report 0x02): two 12-bit fields     *)
(*    packed in reg_address and params[0..1], sign-extended by shifting    *)
(*    them into the top of a 32-bit int and arithmetic-shifting back;      *)
(*  - one touch sub-record of a dual-touch report in                       *)
(*    hidpp_touchpad_touch_event, whose x_m and y_m bytes carry two status *)
(*    bits above six coordinate bits, split off by a u8 truncation.        *)
(* Each is checked against a reference definition written with arithmetic *)
(* only, on every combination of a set of boundary byte values: the run   *)
(* enumerates the inputs as initial states and decodes each once.         *)
(*                                                                         *)
(* A left shift into the sign bit of an int is undefined in ISO C; the    *)
(* kernel is built with -fno-strict-overflow and gcc produces the wrapped *)
(* two's-complement value, which is what IntWrap gives.  gcc's >> on a      *)
(* negative int is arithmetic: floor division by the power of two.        *)
(***************************************************************************)
EXTENDS Integers, Bitwise

CONSTANTS
    ByteVals,   \* byte values the inputs are drawn from
    IntBits     \* sizeof(int)*8: 32 on Linux targets

ASSUME ByteValsAssumption == ByteVals \subseteq 0..255 /\ ByteVals # {}
\* The int must hold a 12-bit field shifted up to its sign bit.
ASSUME IntBitsAssumption == IntBits \in Nat /\ IntBits >= 13

VARIABLES
    rpt,   \* the report bytes handed to the decoder
    out    \* what the decoder produced, or NoOut before it ran

vars == <<rpt, out>>

-----------------------------------------------------------------------------
\* A value truncated to an 8-bit unsigned (u8) variable.
U8(x) == x % 256

\* A value stored in an IntBits-bit two's-complement int.
IntWrap(x) ==
    LET u == x % (2^IntBits)
    IN  IF u >= 2^(IntBits - 1) THEN u - 2^IntBits ELSE u

\* x << k and x >> k on an int.
ShlInt(x, k) == IntWrap(x * 2^k)
AsrInt(x, k) == x \div (2^k)

\* int shift = sizeof(int)*8 - 12;
SHIFT == IntBits - 12

\* REL_X: value = reg_address | (params[0] & 0xf) << 8, sign-extended.
RelX(reg, p0) ==
    AsrInt(ShlInt(reg | ((p0 & 15) * 256), SHIFT), SHIFT)

\* Mutant: REL_Y takes the low nibble of params[0], as REL_X does.
RelYLowNibble(p0, p1) ==
    AsrInt(ShlInt((p1 * 16) | (p0 & 15), SHIFT), SHIFT)

\* REL_Y: value = params[1] << 4 | params[0] >> 4, sign-extended.
RelY(p0, p1) ==
    AsrInt(ShlInt((p1 * 16) | shiftR(p0, 4), SHIFT), SHIFT)

\* Mutant: the u8 locals x_m and y_m declared int, so no bit is dropped.
TouchEventNoTruncation(t) ==
    [contact_type   |-> shiftR(t.x_m, 6),
     x              |-> ((t.x_m * 4) * 64) | t.x_l,
     contact_status |-> shiftR(t.y_m, 6),
     y              |-> ((t.y_m * 4) * 64) | t.y_l,
     finger_id      |-> shiftR(t.id, 4)]

\* Mutant: the status bits taken with >> 7 instead of >> 6.
TouchEventShift7(t) ==
    [contact_type   |-> shiftR(t.x_m, 7),
     x              |-> (U8(t.x_m * 4) * 64) | t.x_l,
     contact_status |-> shiftR(t.y_m, 7),
     y              |-> (U8(t.y_m * 4) * 64) | t.y_l,
     finger_id      |-> shiftR(t.id, 4)]

\* hidpp_touchpad_touch_event: u8 x_m = x_m << 2; x = x_m << 6 | x_l; the
\* two bits shifted out are contact_type (x) and contact_status (y).
hidpp_touchpad_touch_event(t) ==
    [contact_type   |-> shiftR(t.x_m, 6),
     x              |-> (U8(t.x_m * 4) * 64) | t.x_l,
     contact_status |-> shiftR(t.y_m, 6),
     y              |-> (U8(t.y_m * 4) * 64) | t.y_l,
     finger_id      |-> shiftR(t.id, 4)]

-----------------------------------------------------------------------------
RelReports == [kind : {"rel"}, reg : ByteVals, p0 : ByteVals, p1 : ByteVals]
TouchReports ==
    [kind : {"touch"}, x_m : ByteVals, x_l : ByteVals, y_m : ByteVals,
     y_l : ByteVals, id : ByteVals]

NoOut == [kind |-> "none"]

Init ==
    /\ rpt \in RelReports \cup TouchReports
    /\ out = NoOut

\* tm_raw_event, report_id 0x02: REL_X and REL_Y.
DecodeRelative ==
    /\ rpt.kind = "rel" /\ out = NoOut
    /\ out' = [kind |-> "rel", dx |-> RelX(rpt.reg, rpt.p0),
               dy |-> RelY(rpt.p0, rpt.p1)]
    /\ UNCHANGED rpt

\* hidpp_touchpad_raw_xy_event decoding touches[0] of a dual-touch report.
DecodeTouch ==
    /\ rpt.kind = "touch" /\ out = NoOut
    /\ out' = [kind |-> "touch", finger |-> hidpp_touchpad_touch_event(rpt)]
    /\ UNCHANGED rpt

Next == DecodeRelative \/ DecodeTouch

Spec == Init /\ [][Next]_vars

-----------------------------------------------------------------------------
\* Every variable holds a value of its type: REL_X and REL_Y are 12-bit
\* signed, x and y 14-bit, the status fields 2-bit, finger_id a nibble.
TypeOK ==
    /\ rpt \in RelReports \cup TouchReports
    /\ \/ out = NoOut
       \/ out \in [kind : {"rel"}, dx : -2048..2047, dy : -2048..2047]
       \/ out \in [kind : {"touch"},
                  finger : [contact_type : 0..3, x : 0..16383,
                            contact_status : 0..3, y : 0..16383,
                            finger_id : 0..15]]

\* The 12-bit two's-complement value of a field.
Twos12(v) == IF v >= 2048 THEN v - 4096 ELSE v

\* (Spec, section 4.1) tm_raw_event's shift pair sign-extends both packed
\* 12-bit motion fields: REL_X and REL_Y are their two's-complement values,
\* for every byte of the report.
RelIsTwos12 ==
    out.kind = "rel" =>
        /\ out.dx = Twos12(rpt.reg + (rpt.p0 % 16) * 256)
        /\ out.dy = Twos12(rpt.p1 * 16 + rpt.p0 \div 16)

\* hidpp_touchpad_touch_event loses no bit of a sub-record's x_m, x_l, y_m
\* and y_l: the u8 truncation drops exactly the two bits it hands on as
\* contact_type and contact_status, and x and y keep the other fourteen.
TouchBitsPreserved ==
    out.kind = "touch" =>
        /\ out.finger.contact_type * 64 + out.finger.x \div 256 = rpt.x_m
        /\ out.finger.x % 256 = rpt.x_l
        /\ out.finger.contact_status * 64 + out.finger.y \div 256 = rpt.y_m
        /\ out.finger.y % 256 = rpt.y_l

\* (Spec, section 4.1) The finger identifier of a dual-touch sub-record is
\* the low four bits of its trailing id byte.
FingerIdLowNibble ==
    out.kind = "touch" => out.finger.finger_id = rpt.id % 16

=============================================================================
