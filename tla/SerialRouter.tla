---------------------------- MODULE SerialRouter ----------------------------
(***************************************************************************)
(* SunBoxCommands: two protocols on one serial line.  A sender puts frames *)
(* of a fixed length and lines of text on the line byte by byte, the       *)
(* UART's interrupt queues the bytes, and check(), called once per loop,   *)
(* reads what is there and decides by the first byte what it is.  A frame  *)
(* of mouse data goes into one slot, which process() empties.              *)
(*                                                                         *)
(* A byte is the item it belongs to, its place there, and its kind: what   *)
(* detectAndRoute(), routeToDevtools() and routeToLegacy() tell apart.     *)
(***************************************************************************)
EXTENDS Naturals, Sequences

CONSTANTS MaxItems,     \* how many frames and lines are sent
          FrameLength,  \* bytes of a frame: 9 in the code
          BufferSize,   \* of routingBuffer: 256
          RxSize,       \* bytes the serial port queues: 63
          MaxLine,      \* bytes of a line of text, its ending not counted
          FrameKinds    \* kinds of bytes that occur in a frame after the first

(***************************************************************************)
(* "eight" is '\b' and the first byte of a frame of mouse data, "three"    *)
(* the first byte of a frame of settings, "end" a line ending, "char" any  *)
(* other printable character, "raw" any other byte.  A backspace is        *)
(* modelled at the beginning of a line, where it decides the protocol;     *)
(* further in it shortens the command and decides nothing.                 *)
(***************************************************************************)
Kinds == {"eight", "three", "char", "end", "raw"}
LegacyKinds == {"eight", "three"}

ASSUME RouterAssumption ==
  /\ MaxItems \in Nat /\ MaxLine \in Nat /\ RxSize \in Nat
  /\ FrameLength \in Nat \ {0, 1} /\ BufferSize \in Nat /\ FrameLength < BufferSize
  /\ FrameKinds \subseteq Kinds

Items == 1..MaxItems
Byte == [item : Items, pos : Nat \ {0}, kind : Kinds]

VARIABLES
  sent,       \* the items on the line so far, the last one maybe in part: [type, len]
  open,       \* the sender has not finished the last item
  rx,         \* the serial port's queue
  buf,        \* routingBuffer[0 .. bufferIndex-1]
  mode,       \* currentMode between two calls of check()
  quiet,      \* more than 1000 ms have passed since lastCharTime
  pc,         \* the loop: "check" or "process"
  slot,       \* mouse data of the serial line: "empty", "full", or "held" when
              \* process() has left it there because the endpoint was not ready
  clean,      \* history: the items nothing has disturbed, see the sender
  fate,       \* history: "taken" when handled as sent, "torn" when in parts
  clobbered   \* history: mouse data was overwritten before process() saw it

senderVars == <<sent, open>>
routerVars == <<buf, mode, slot, fate, clobbered>>
vars == <<senderVars, rx, quiet, pc, routerVars, clean>>

TypeOK ==
  /\ sent \in Seq([type : {"frame", "line"}, len : Nat \ {0}]) /\ Len(sent) <= MaxItems
  /\ open \in BOOLEAN
  /\ rx \in Seq(Byte) /\ Len(rx) <= RxSize
  /\ buf \in Seq(Byte) /\ Len(buf) < BufferSize
  /\ mode \in {"detecting", "legacy"} /\ (buf = << >> => mode = "detecting")
  /\ quiet \in BOOLEAN
  /\ pc \in {"check", "process"}
  /\ slot \in {"empty", "full", "held"}
  /\ clean \in SUBSET Items
  /\ fate \in [Items -> {"none", "taken", "torn"}]
  /\ clobbered \in BOOLEAN

Init ==
  /\ sent = << >> /\ open = FALSE /\ rx = << >>
  /\ buf = << >> /\ mode = "detecting" /\ quiet = FALSE
  /\ pc = "check" /\ slot = "empty"
  /\ clean = {} /\ fate = [i \in Items |-> "none"] /\ clobbered = FALSE

-----------------------------------------------------------------------------
(***************************************************************************)
(* The sender and the serial port.                                         *)
(*                                                                         *)
(* An item is clean as long as nothing has come in its way that two        *)
(* protocols on one line cannot tell from it: only clean frames were       *)
(* pending when it began, if it is a frame, and nothing, if it is a line;  *)
(* nothing came while it was pending, if it is a line; none of its bytes   *)
(* was lost; and a line does not begin with a backspace (the first byte of *)
(* a frame), fits the buffer, and was sent without a pause of a second.    *)
(***************************************************************************)
n == Len(sent)
IsFrame(i) == sent[i].type = "frame"
ItemsIn(s) == {s[k].item : k \in 1..Len(s)}
PendingItems == ItemsIn(buf) \cup ItemsIn(rx)
Complete(i) == i \in 1..n /\ (i = n => ~open)

\* The interrupt queues a byte, or drops it when the queue is full.
Arrive(b) == rx' = IF Len(rx) < RxSize THEN Append(rx, b) ELSE rx

BeginItem(type, kind) ==
  LET frames == {i \in PendingItems : IsFrame(i)}
      undisturbed == IF type = "frame" THEN PendingItems \subseteq frames \cap clean
                                       ELSE PendingItems = {} /\ kind # "eight"
  IN /\ ~open /\ n < MaxItems
     /\ sent' = Append(sent, [type |-> type, len |-> 1])
     /\ open' = TRUE
     /\ Arrive([item |-> n + 1, pos |-> 1, kind |-> kind])
     /\ clean' = (clean \ (PendingItems \ frames))
                   \cup (IF undisturbed /\ Len(rx) < RxSize THEN {n + 1} ELSE {})
     /\ UNCHANGED <<quiet, pc, routerVars>>

BeginFrame == \E kind \in LegacyKinds : BeginItem("frame", kind)
BeginLine == \E kind \in {"char", "eight"} : MaxLine > 0 /\ BeginItem("line", kind)

SendByte(kind) ==
  LET pos == sent[n].len + 1
      fits == IsFrame(n) \/ pos < BufferSize
  IN /\ sent' = [sent EXCEPT ![n].len = pos]
     /\ Arrive([item |-> n, pos |-> pos, kind |-> kind])
     /\ clean' = IF Len(rx) < RxSize /\ fits THEN clean ELSE clean \ {n}
     /\ UNCHANGED <<quiet, pc, routerVars>>

SendFrameByte ==
  /\ open /\ IsFrame(n)
  /\ open' = (sent[n].len + 1 < FrameLength)
  /\ \E kind \in FrameKinds : SendByte(kind)

SendLineByte ==
  /\ open /\ ~IsFrame(n)
  /\ \/ sent[n].len < MaxLine /\ open' = TRUE /\ SendByte("char")
     \/ open' = FALSE /\ SendByte("end")

\* A line may end without a line ending.
LeaveLine ==
  /\ open /\ ~IsFrame(n) /\ open' = FALSE
  /\ UNCHANGED <<sent, rx, quiet, pc, routerVars, clean>>

\* Time passes.
Quiet ==
  /\ ~quiet /\ quiet' = TRUE
  /\ clean' = IF open /\ ~IsFrame(n) THEN clean \ {n} ELSE clean
  /\ UNCHANGED <<senderVars, rx, pc, routerVars>>

-----------------------------------------------------------------------------
(***************************************************************************)
(* SunBoxCommands.  b is the buffer after check() has read the port, and   *)
(* silent says whether lastCharTime is more than 1000 ms ago.              *)
(***************************************************************************)
IsText(b) == \A k \in 1..Len(b) : b[k].kind \notin {"three", "raw"}
HasLineEnding(b) == \E k \in 1..Len(b) : b[k].kind = "end"

\* The commands in b, with their line endings.  What follows the last ending is
\* one only in silence, and nothing is one that has no character.
Commands(b, silent) ==
  {SubSeq(b, span[1], span[2]) : span \in
    {r \in (1..Len(b)) \X (1..Len(b)) :
       /\ r[1] = 1 \/ b[r[1] - 1].kind = "end"
       /\ b[r[2]].kind = "end" \/ (silent /\ r[2] = Len(b))
       /\ \A k \in r[1]..(r[2] - 1) : b[k].kind # "end"
       /\ \E k \in r[1]..r[2] : b[k].kind = "char"}}

\* s is item i, all of it and nothing else.
IsWhole(s, i) ==
  /\ Complete(i) /\ Len(s) = sent[i].len
  /\ \A k \in 1..Len(s) : s[k].item = i /\ s[k].pos = k

\* What is handled, each as one frame or one command.
Handle(all) ==
  fate' = [i \in Items |->
             IF \A s \in all : i \notin ItemsIn(s) THEN fate[i]
             ELSE IF fate[i] = "none" /\ \E s \in all : IsWhole(s, i) THEN "taken" ELSE "torn"]

Keep(b) == buf' = b /\ UNCHANGED <<mode, slot, fate, clobbered>>
ClearBuffer == buf' = << >> /\ mode' = "detecting"

\* clearBuffer() also drops what follows the last line ending.
RouteToDevtools(b, silent) ==
  /\ Handle(Commands(b, silent))
  /\ ClearBuffer
  /\ UNCHANGED <<slot, clobbered>>

\* The mouse data of a frame goes into the slot, whatever is there.
Deliver(frame) ==
  LET hid == frame[1].kind = "eight"
  IN /\ Handle(IF frame[1].kind \in LegacyKinds THEN {frame} ELSE {})
     /\ slot' = IF hid THEN "full" ELSE slot
     /\ clobbered' = (clobbered \/ (hid /\ slot = "full"))

\* (mutant) What follows the frame is dropped.
RouteDropsRest(b) ==
  IF Len(b) < FrameLength THEN Keep(b)
  ELSE Deliver(SubSeq(b, 1, FrameLength)) /\ ClearBuffer

\* (mutant) All the frames in the buffer are handled in one call.
RouteAllLegacy(b) ==
  IF Len(b) < FrameLength THEN Keep(b)
  ELSE LET frames == Len(b) \div FrameLength
           frame(j) == SubSeq(b, FrameLength * (j - 1) + 1, FrameLength * j)
           hid == {j \in 1..frames : frame(j)[1].kind = "eight"}
       IN /\ Handle({frame(j) : j \in 1..frames})
          /\ slot' = IF hid # {} THEN "full" ELSE slot
          /\ clobbered' = (clobbered \/ \E i, j \in hid : i < j)
          /\ buf' = SubSeq(b, FrameLength * frames + 1, Len(b))
          /\ mode' = IF buf' = << >> THEN "detecting" ELSE "legacy"

\* (mutant) The mode outlives the call also when nothing follows.
RouteStaysLegacy(b) ==
  IF Len(b) < FrameLength THEN Keep(b)
  ELSE /\ Deliver(SubSeq(b, 1, FrameLength))
       /\ buf' = SubSeq(b, FrameLength + 1, Len(b)) /\ mode' = "legacy"

\* One frame, whatever it begins with.  The mode outlives the call when more follow.
RouteToLegacy(b) ==
  IF Len(b) < FrameLength THEN Keep(b)
  ELSE LET rest == SubSeq(b, FrameLength + 1, Len(b))
       IN /\ Deliver(SubSeq(b, 1, FrameLength))
          /\ buf' = rest
          /\ mode' = IF rest = << >> THEN "detecting" ELSE "legacy"

\* (mutant) A line that does not end waits for its ending however long.
DetectNoTimeout(b, silent) ==
  \/ b[1].kind \in LegacyKinds /\ Len(b) >= FrameLength /\ RouteToLegacy(b)
  \/ b[1].kind \in LegacyKinds /\ Len(b) < FrameLength /\ Keep(b)
  \/ /\ b[1].kind \notin LegacyKinds
     /\ \/ ~IsText(b) /\ ClearBuffer /\ UNCHANGED <<slot, fate, clobbered>>
        \/ IsText(b) /\ HasLineEnding(b) /\ RouteToDevtools(b, silent)
        \/ IsText(b) /\ ~HasLineEnding(b) /\ Keep(b)

DetectAndRoute(b, silent) ==
  \/ b[1].kind \in LegacyKinds /\ Len(b) >= FrameLength /\ RouteToLegacy(b)
  \/ b[1].kind \in LegacyKinds /\ Len(b) < FrameLength /\ Keep(b)
  \/ /\ b[1].kind \notin LegacyKinds
     /\ \/ ~IsText(b) /\ ClearBuffer /\ UNCHANGED <<slot, fate, clobbered>>
        \/ IsText(b) /\ (HasLineEnding(b) \/ silent) /\ RouteToDevtools(b, silent)
        \/ IsText(b) /\ ~HasLineEnding(b) /\ ~silent /\ Keep(b)

ProcessBuffer(b, silent) ==
  \/ b = << >> /\ Keep(b)
  \/ b # << >> /\ mode = "legacy" /\ RouteToLegacy(b)
  \/ b # << >> /\ mode = "detecting" /\ DetectAndRoute(b, silent)

Check ==
  LET room == BufferSize - 1 - Len(buf)
      k == IF Len(rx) < room THEN Len(rx) ELSE room
  IN /\ pc = "check" /\ pc' = "process"
     /\ rx' = SubSeq(rx, k + 1, Len(rx))
     /\ quiet' = (quiet /\ k = 0)
     /\ ProcessBuffer(buf \o SubSeq(rx, 1, k), quiet /\ k = 0)
     /\ UNCHANGED <<senderVars, clean>>

\* process() sends the mouse data, drops it when the device is not configured,
\* or leaves it when the endpoint is not ready.
Process ==
  /\ pc = "process" /\ pc' = "check"
  /\ \/ slot = "empty" /\ UNCHANGED slot
     \/ slot # "empty" /\ slot' \in {"empty", "held"}
  /\ UNCHANGED <<senderVars, rx, quiet, buf, mode, fate, clobbered, clean>>

Next ==
  \/ BeginFrame \/ BeginLine \/ SendFrameByte \/ SendLineByte \/ LeaveLine \/ Quiet
  \/ Check \/ Process

Spec == Init /\ [][Next]_vars
\* loop() does not stop, and neither does time.
FairSpec == Spec /\ WF_vars(Check) /\ WF_vars(Process) /\ WF_vars(Quiet)

-----------------------------------------------------------------------------
\* Framing on a shared line: whatever is sent before and after it, and however
\* the bytes are cut up by the calls of check(), a clean item is handled as it
\* was sent once its bytes have left the buffers, and no byte of it is handled as
\* a part of something else.  What goes wrong with other items never spreads to it.
CleanItemsTaken ==
  \A i \in clean : /\ fate[i] # "torn"
                   /\ Complete(i) /\ i \notin PendingItems => fate[i] = "taken"

\* check() handles one frame per loop, so mouse data is overwritten only when
\* the PC keeps the endpoint busy, never by a burst of frames read at once.
OverwrittenOnlyWhenBusy == ~clobbered

\* Nothing but the beginning of a frame stays in the buffer: text without an
\* ending goes when the line is silent, also when it has filled the buffer.
AwaitsFrame == buf # << >> /\ Len(buf) < FrameLength
                 /\ (mode = "legacy" \/ buf[1].kind \in LegacyKinds)
BufferDrains == (buf # << >>) ~> (buf = << >> \/ AwaitsFrame)
=============================================================================
