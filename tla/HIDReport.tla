------------------------------ MODULE HIDReport ------------------------------
(***************************************************************************)
(* HIDMouseDescriptorHandler: it reads the mouse's report descriptor, item *)
(* by item, to find where the axes, the wheel and the buttons are in a     *)
(* report; parseMouseData() takes them from a report, process() passes the *)
(* first five buttons on, formatMouseData() puts all into a frame for the  *)
(* PC, and process() writes the byte of the buttons once more.  The PC has *)
(* the same descriptor and reads the frame by it.  The serial line is      *)
(* silent here, and no button is filtered or handed over (ButtonHandoff).  *)
(*                                                                         *)
(* A bit is numbered as the code does, from the first byte, which is the   *)
(* report ID if there is one; the ID itself is not kept.  A report that    *)
(* does not begin with it is read at the same bits.  A step of the parser  *)
(* is one Input item with the page, usages, limits, size and count before  *)
(* it: so written, no usage is left over from a collection.                *)
(***************************************************************************)
EXTENDS Integers, Sequences

CONSTANTS ByteBits,  \* bits of a byte: 8
          PassedButtons, \* buttons that process() passes on: 5
          Inputs,    \* the Input items a descriptor may have
          ReportIds, \* the report IDs it may give
          MaxInputs, \* Input items of a descriptor
          MaxBits    \* bits of a report

Axes == {"X", "Y", "Wheel"}
Fields == Axes \cup {"Buttons"}

\* A page is "desktop", "button" or "other", a usage "X", "Y", "Wheel" or "other".
IsInput(g) ==
  /\ g.usages \in Seq(Axes \cup {"other"}) /\ g.page \in {"desktop", "button", "other"}
  /\ g.size \in Nat \ {0} /\ g.count \in Nat \ {0}
  /\ g.logical_min \in Int /\ g.logical_max \in Int /\ g.logical_min <= g.logical_max

ASSUME ReportAssumption ==
  /\ ByteBits \in Nat \ {0} /\ MaxInputs \in Nat /\ MaxBits \in Nat /\ ByteBits <= MaxBits
  /\ PassedButtons \in Nat /\ ReportIds \subseteq Nat \ {0} /\ \A g \in Inputs : IsInput(g)

VARIABLES
  stage,       \* "parse", "ready", or "sent" when a report has been processed
  items,       \* Input items so far
  current_bit, report_id,  \* of the parser
  field,       \* x_field, y_field, wheel_field and buttons_field, those that were found
  report_size_bytes,
  layout,      \* history: the fields of the report, as the HID specification has them
  split,       \* history: the descriptor has a report ID after an Input
  raw,         \* rawData: the bits of the mouse's report, and behind them an earlier one's
  length,      \* rawDataLength: the bytes of the report
  frame        \* the bits of the frame that goes to the PC

hidVars == <<stage, items, current_bit, report_id, field, report_size_bytes, layout, split, raw, length,
             frame>>

Bits == [0..(MaxBits + 4 * ByteBits) -> {0, 1}]
Blank == [b \in 0..(MaxBits + 4 * ByteBits) |-> 0]
Place == [offset : Nat, bits : Nat, min : Int, max : Int]

HIDTypeOK ==
  /\ stage \in {"parse", "ready", "sent"} /\ items \in 0..MaxInputs
  /\ current_bit \in 0..MaxBits /\ report_id \in ReportIds \cup {0}
  /\ DOMAIN field \subseteq Fields /\ \A f \in DOMAIN field : field[f] \in Place
  /\ stage # "parse" => {"X", "Y"} \subseteq DOMAIN field
  /\ report_size_bytes \in Nat /\ split \in BOOLEAN
  /\ raw \in Bits /\ length \in Nat /\ frame \in Bits

HIDInit ==
  /\ stage = "parse" /\ items = 0 /\ current_bit = 0 /\ report_id = 0
  /\ field = << >> /\ report_size_bytes = 0 /\ layout = {} /\ split = FALSE
  /\ raw = Blank /\ length = 0 /\ frame = Blank

-----------------------------------------------------------------------------
\* parseDescriptor()
ReportId(id) ==
  /\ stage = "parse"
  /\ report_id' = id /\ current_bit' = ByteBits
  /\ split' = (split \/ items > 0 \/ report_id # 0)
  /\ UNCHANGED <<stage, items, field, report_size_bytes, layout, raw, length, frame>>

\* The places where an Input item has a usage that was listed before it.
Listed(g) == 1..(IF Len(g.usages) < g.count THEN Len(g.usages) ELSE g.count)
At(g, i) == [offset |-> current_bit + (i - 1) * g.size, bits |-> g.size,
             min |-> g.logical_min, max |-> g.logical_max]

\* The fields that are found in an Input item for the first time.
Found(g) ==
  IF g.page = "desktop"
  THEN [f \in ({g.usages[i] : i \in Listed(g)} \cap Axes) \ DOMAIN field |->
          At(g, CHOOSE i \in Listed(g) : g.usages[i] = f /\ \A j \in Listed(g) : g.usages[j] = f => i <= j)]
  ELSE IF g.page = "button" /\ Listed(g) # {} /\ "Buttons" \notin DOMAIN field
  THEN [f \in {"Buttons"} |-> [At(g, 1) EXCEPT !.bits = g.size * g.count]] ELSE << >>

\* HID 1.11: the last usage counts for the places that are left; all the buttons
\* of an item are one field here.
Meant(g) ==
  LET Usage(i) == IF i > Len(g.usages) THEN g.usages[Len(g.usages)] ELSE g.usages[i]
  IN IF g.usages = << >> \/ g.page = "other" THEN {}
     ELSE IF g.page = "button" THEN {<<"Buttons", [At(g, 1) EXCEPT !.bits = g.size * g.count]>>}
     ELSE {<<Usage(i), At(g, i)>> : i \in {k \in 1..g.count : Usage(k) \in Axes}}

Input(g) ==
  /\ stage = "parse" /\ items < MaxInputs /\ current_bit + g.size * g.count <= MaxBits
  /\ field' = [f \in DOMAIN field \cup DOMAIN Found(g) |->
                 IF f \in DOMAIN Found(g) THEN Found(g)[f] ELSE field[f]]
  /\ layout' = layout \cup Meant(g)
  /\ current_bit' = current_bit + g.size * g.count
  /\ items' = items + 1
  /\ UNCHANGED <<stage, report_id, report_size_bytes, split, raw, length, frame>>

\* 1 << n
Pow2[n \in Nat] == IF n = 0 THEN 1 ELSE 2 * Pow2[n - 1]

BootByte(k, lo, hi) == [offset |-> k * ByteBits, bits |-> ByteBits, min |-> lo, max |-> hi]
setBootMouseFormat ==
  LET limit == Pow2[ByteBits - 1] - 1
  IN /\ field' = [f \in Fields |->
                    CASE f = "Buttons" -> BootByte(0, 0, Pow2[ByteBits] - 1)
                      [] f = "X" -> BootByte(1, -limit, limit)
                      [] f = "Y" -> BootByte(2, -limit, limit)
                      [] f = "Wheel" -> BootByte(3, -limit, limit)]
     /\ report_size_bytes' = 3 /\ report_id' = 0

Size(bits) == (bits + ByteBits - 1) \div ByteBits

\* (mutant) One axis is enough.
EndWithOneAxis ==
  /\ stage = "parse" /\ stage' = "ready"
  /\ IF "X" \in DOMAIN field
     THEN report_size_bytes' = Size(current_bit) /\ UNCHANGED <<field, report_id>>
     ELSE setBootMouseFormat
  /\ UNCHANGED <<items, current_bit, layout, split, raw, length, frame>>

EndOfDescriptor ==
  /\ stage = "parse" /\ stage' = "ready"
  /\ IF {"X", "Y"} \subseteq DOMAIN field
     THEN report_size_bytes' = Size(current_bit) /\ UNCHANGED <<field, report_id>>
     ELSE setBootMouseFormat
  /\ UNCHANGED <<items, current_bit, layout, split, raw, length, frame>>

-----------------------------------------------------------------------------
\* The loop of extractValue(), a bit in each round.
Unsigned(data, p) ==
  LET value[n \in 0..p.bits] ==
        IF n = 0 THEN 0 ELSE value[n - 1] + data[p.offset + n - 1] * Pow2[n - 1]
  IN value[p.bits]

extractValue(data, p) ==
  LET u == Unsigned(data, p)
  IN IF p.min < 0 /\ u >= Pow2[p.bits - 1] THEN u - Pow2[p.bits] ELSE u

\* MouseState: int16_t x and y, int8_t wheel, uint8_t buttons.
Wrapped(v, bits) == ((v + Pow2[bits - 1]) % Pow2[bits]) - Pow2[bits - 1]
Extracted(data) ==
  [f \in Fields |->
     IF f \notin DOMAIN field THEN 0
     ELSE LET v == extractValue(data, field[f])
          IN CASE f = "Buttons" -> Unsigned(data, field[f]) % Pow2[ByteBits]
               [] f = "Wheel" -> Wrapped(v, ByteBits)
               [] OTHER -> Wrapped(v, 2 * ByteBits)]

Cleared == [f \in Fields |-> 0]

\* The state stays cleared if the report is too short.  A report that does not begin
\* with its ID (~begins) may be shorter by one byte.
Short(bytes, begins) ==
  LET id == IF report_id # 0 THEN 1 ELSE 0
  IN bytes - (IF begins THEN 1 ELSE 0) < report_size_bytes - id
parseMouseData(data, bytes, begins) == IF Short(bytes, begins) THEN Cleared ELSE Extracted(data)

\* process(): finalButtons.
Passed(state) ==
  [f \in Fields |-> IF f = "Buttons" THEN state[f] % Pow2[PassedButtons] ELSE state[f]]

Clamp(v, p) == IF v < p.min THEN p.min ELSE IF v > p.max THEN p.max ELSE v
insertValue(data, p, v) ==
  [b \in DOMAIN data |->
     IF b \in p.offset..(p.offset + p.bits - 1)
     THEN ((Clamp(v, p) % Pow2[p.bits]) \div Pow2[b - p.offset]) % 2 ELSE data[b]]
insertIfFound(data, f, state) ==
  IF f \in DOMAIN field THEN insertValue(data, field[f], state[f]) ELSE data
formatMouseData(state) ==
  insertIfFound(insertIfFound(insertIfFound(insertIfFound(Blank,
    "Buttons", state), "X", state), "Y", state), "Wheel", state)

getButtonByteOffset == IF "Buttons" \in DOMAIN field THEN field["Buttons"].offset \div ByteBits ELSE 0

\* (mutant) The clamped buttons are left as they are.
LeaveButtons(data, buttons) == data

\* process(): the byte of the buttons is written whole.
PlaceButtons(data, buttons) ==
  IF report_size_bytes <= getButtonByteOffset THEN data
  ELSE [b \in DOMAIN data |->
          IF b \div ByteBits = getButtonByteOffset
          THEN (buttons \div Pow2[b % ByteBits]) % 2 ELSE data[b]]

\* process(): the frame that is made of a report.
process(data, bytes, begins) ==
  LET state == Passed(parseMouseData(data, bytes, begins))
  IN PlaceButtons(formatMouseData(state), state["Buttons"])

\* The bits of rawData, the ID left out: any.
Reports ==
  LET first == IF report_id # 0 THEN ByteBits ELSE 0
  IN {[b \in DOMAIN Blank |-> IF b \in ones THEN 1 ELSE 0] : ones \in SUBSET (first..(current_bit - 1))}

\* Whether the report begins with the descriptor's ID.
Begins == IF report_id # 0 THEN BOOLEAN ELSE {FALSE}

Report ==
  /\ stage = "ready" /\ stage' = "sent"
  /\ raw' \in Reports /\ length' \in 1..report_size_bytes
  /\ \E begins \in Begins : frame' = process(raw', length', begins)
  /\ UNCHANGED <<items, current_bit, report_id, field, report_size_bytes, layout, split>>

HIDNext ==
  \/ \E id \in ReportIds : ReportId(id)
  \/ \E g \in Inputs : Input(g)
  \/ EndOfDescriptor \/ Report

HIDSpec == HIDInit /\ [][HIDNext]_hidVars

-----------------------------------------------------------------------------
\* An axis of at most width bits: one bit less if it has no sign, because MouseState
\* has one; and its limits admit a value that its bits can hold.
Fits(p, width) ==
  IF p.min < 0 THEN p.bits <= width /\ -Pow2[p.bits - 1] <= p.max
               ELSE p.bits < width /\ p.min < Pow2[p.bits]

\* The descriptors of which the code makes no more than they say: one report; X,
\* Y and buttons; one field of each kind; a wheel that fits into a byte, axes that fit
\* into two; and the buttons in a byte of their own.
Span(p) == p.offset..(p.offset + p.bits - 1)
Supported ==
  /\ ~split
  /\ \A m \in layout, k \in layout : m[1] = k[1] => m = k
  /\ {"X", "Y", "Buttons"} \subseteq {m[1] : m \in layout}
  /\ \A m \in layout :
       /\ m[1] = "Wheel" => Fits(m[2], ByteBits)
       /\ m[1] \in {"X", "Y"} => Fits(m[2], 2 * ByteBits)
       /\ m[1] = "Buttons" =>
            /\ m[2].offset % ByteBits = 0 /\ m[2].bits <= ByteBits
            /\ \A k \in layout \ {m} : \A b \in Span(k[2]) :
                 b \div ByteBits # m[2].offset \div ByteBits

\* What the PC reads at a place of a frame or report, and what it is to read there of a
\* value: the first buttons, and the movement within its limits.
Value(data, m) == IF m[1] = "Buttons" THEN Unsigned(data, m[2]) ELSE extractValue(data, m[2])
Meaning(v, m) == IF m[1] = "Buttons" THEN v % Pow2[PassedButtons] ELSE Clamp(v, m[2])

\* The PC reads from the frame, at every place the descriptor has for them, the movement of
\* the mouse's report, clamped to its limits, and its buttons, those after PassedButtons
\* excepted; of a report that is cut off, no movement and no buttons; and the frame is as
\* long as a report: whatever the widths of the fields, their order, the padding
\* between them, and whether they are aligned to bytes.  One byte may be missing when
\* reports have IDs: see Short.
FrameMeansReport ==
  stage = "sent" /\ Supported =>
    /\ report_size_bytes = Size(current_bit)
    /\ length >= report_size_bytes => \A m \in layout : Value(frame, m) = Meaning(Value(raw, m), m)
    /\ length + (IF report_id # 0 THEN 1 ELSE 0) < report_size_bytes =>
         \A m \in layout : Value(frame, m) = Meaning(0, m)
=============================================================================
