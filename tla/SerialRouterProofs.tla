-------------------------- MODULE SerialRouterProofs --------------------------
(***************************************************************************)
(* Proofs about SerialRouter, for every length of the frames and lines,    *)
(* every size of the buffers and every number of items.                    *)
(***************************************************************************)
EXTENDS SerialRouter, SequenceTheorems, TLAPS

\* What check() reads: the buffer and the first K bytes of the serial port's queue.
Room == BufferSize - 1 - Len(buf)
K == IF Len(rx) < Room THEN Len(rx) ELSE Room
Got == buf \o SubSeq(rx, 1, K)

LEMMA CheckReads ==
  ASSUME Check
  PROVE  /\ pc = "check" /\ pc' = "process"
         /\ rx' = SubSeq(rx, K + 1, Len(rx))
         /\ quiet' = (quiet /\ K = 0)
         /\ ProcessBuffer(Got, quiet /\ K = 0)
         /\ UNCHANGED <<senderVars, clean>>
  BY DEF Check, Got, K, Room

LEMMA ReadFacts ==
  ASSUME TypeOK
  PROVE  /\ K \in 0..Len(rx) /\ K \in Nat /\ Len(rx) \in Nat
         /\ SubSeq(rx, 1, K) \in Seq(Byte) /\ Len(SubSeq(rx, 1, K)) = K
         /\ \A j \in 1..K : SubSeq(rx, 1, K)[j] = rx[j]
         /\ SubSeq(rx, K + 1, Len(rx)) \in Seq(Byte)
         /\ Len(SubSeq(rx, K + 1, Len(rx))) = Len(rx) - K
         /\ \A j \in 1..(Len(rx) - K) : SubSeq(rx, K + 1, Len(rx))[j] = rx[K + j]
         /\ Got \in Seq(Byte) /\ Len(Got) = Len(buf) + K /\ Len(Got) < BufferSize
         /\ K < Len(rx) => Len(Got) = BufferSize - 1
<1> USE RouterAssumption
<1>1. /\ Len(buf) \in Nat /\ Len(rx) \in Nat /\ Len(buf) < BufferSize
      /\ rx \in Seq(Byte) /\ buf \in Seq(Byte)
  BY DEF TypeOK
<1>2. K \in 0..Len(rx) /\ K <= Room /\ Room \in Nat /\ (K < Len(rx) => K = Room)
  BY <1>1 DEF K, Room
<1>3. /\ SubSeq(rx, 1, K) \in Seq(Byte) /\ Len(SubSeq(rx, 1, K)) = K
      /\ \A j \in 1..K : SubSeq(rx, 1, K)[j] = rx[j]
  BY <1>1, <1>2
<1>4. /\ SubSeq(rx, K + 1, Len(rx)) \in Seq(Byte)
      /\ Len(SubSeq(rx, K + 1, Len(rx))) = Len(rx) - K
      /\ \A j \in 1..(Len(rx) - K) : SubSeq(rx, K + 1, Len(rx))[j] = rx[K + j]
  BY <1>1, <1>2
<1>5. Got \in Seq(Byte) /\ Len(Got) = Len(buf) + K
  BY <1>1, <1>2, <1>3 DEF Got
<1> QED
  BY <1>1, <1>2, <1>3, <1>4, <1>5 DEF Room

-----------------------------------------------------------------------------
(***************************************************************************)
(* The four things a call of check() may do with the bytes b.              *)
(***************************************************************************)
Keeps(b) == Keep(b) /\ (b = << >> \/ Len(b) < FrameLength \/ (mode = "detecting" /\ IsText(b)))
Frames(b) ==
  /\ Len(b) >= FrameLength /\ RouteToLegacy(b)
  /\ mode = "legacy" \/ b[1].kind \in LegacyKinds
Drops(b) == b # << >> /\ ClearBuffer /\ UNCHANGED <<slot, fate, clobbered>>
              /\ b[1].kind \notin LegacyKinds /\ mode = "detecting" /\ ~IsText(b)
RunsCommands(b, silent) ==
  /\ b # << >> /\ mode = "detecting" /\ b[1].kind \notin LegacyKinds
  /\ IsText(b) /\ (HasLineEnding(b) \/ silent)
  /\ RouteToDevtools(b, silent)

LEMMA RouteCases ==
  ASSUME NEW b, NEW silent, ProcessBuffer(b, silent), Len(b) \in Nat
  PROVE  Keeps(b) \/ Frames(b) \/ Drops(b) \/ RunsCommands(b, silent)
<1> USE RouterAssumption
<1>1. CASE b = << >> /\ Keep(b)
  BY <1>1 DEF Keeps
<1>2. CASE b # << >> /\ mode = "legacy" /\ RouteToLegacy(b)
  BY <1>2 DEF Keeps, Frames, RouteToLegacy
<1>3. CASE b # << >> /\ mode = "detecting" /\ DetectAndRoute(b, silent)
  BY <1>3 DEF DetectAndRoute, Keeps, Frames, Drops, RunsCommands
<1> QED
  BY <1>1, <1>2, <1>3 DEF ProcessBuffer

FateType == [Items -> {"none", "taken", "torn"}]

LEMMA HandleType ==
  ASSUME NEW all, Handle(all), fate \in FateType
  PROVE  fate' \in FateType
  BY DEF Handle, FateType

\* What a call of check() leaves behind has its type.
LEMMA RouteType ==
  ASSUME TypeOK, NEW silent, ProcessBuffer(Got, silent)
  PROVE  /\ buf' \in Seq(Byte) /\ Len(buf') < BufferSize
         /\ mode' \in {"detecting", "legacy"} /\ (buf' = << >> => mode' = "detecting")
         /\ slot' \in {"empty", "full", "held"}
         /\ fate' \in [Items -> {"none", "taken", "torn"}] /\ clobbered' \in BOOLEAN
<1> USE RouterAssumption
<1> DEFINE b == Got
<1>1. b \in Seq(Byte) /\ Len(b) \in Nat /\ Len(b) < BufferSize
  BY ReadFacts
<1>2. b = << >> => buf = << >>
  BY ReadFacts DEF TypeOK
<1>3. Keeps(b) \/ Frames(b) \/ Drops(b) \/ RunsCommands(b, silent)
  BY <1>1, RouteCases
<1> HIDE DEF b
<1>4. CASE Keeps(b)
  BY <1>1, <1>2, <1>4 DEF Keeps, Keep, TypeOK
<1>5. CASE Frames(b)
  <2>1. ~(Len(b) < FrameLength)
    BY <1>1, <1>5 DEF Frames
  <2>2. /\ Deliver(SubSeq(b, 1, FrameLength)) /\ buf' = SubSeq(b, FrameLength + 1, Len(b))
        /\ mode' = IF buf' = << >> THEN "detecting" ELSE "legacy"
    BY <1>5, <2>1 DEF Frames, RouteToLegacy
  <2>3. buf' \in Seq(Byte) /\ Len(buf') = Len(b) - FrameLength
    BY <1>1, <2>1, <2>2
  <2>4. fate' \in FateType
    <3>1. fate \in FateType
      BY DEF TypeOK, FateType
    <3> QED
      BY <2>2, <3>1, HandleType DEF Deliver
  <2>5. slot' \in {"empty", "full", "held"} /\ clobbered' \in BOOLEAN
    BY <2>2, Zenon DEF Deliver, TypeOK
  <2>6. mode' \in {"detecting", "legacy"} /\ (buf' = << >> => mode' = "detecting")
    BY <2>2
  <2> QED
    BY <1>1, <2>3, <2>4, <2>5, <2>6 DEF FateType
<1>6. CASE Drops(b)
  BY <1>6 DEF Drops, ClearBuffer, TypeOK
<1>7. CASE RunsCommands(b, silent)
  <2>1. fate' \in FateType
    <3>1. fate \in FateType
      BY DEF TypeOK, FateType
    <3> QED
      BY <1>7, <3>1, HandleType DEF RunsCommands, RouteToDevtools
  <2> QED
    BY <1>7, <2>1 DEF RunsCommands, RouteToDevtools, ClearBuffer, TypeOK, FateType
<1> QED
  BY <1>3, <1>4, <1>5, <1>6, <1>7

-----------------------------------------------------------------------------
\* The sender is in the middle of an item only if there is one.
OpenInv == open => n >= 1
TypeInv == TypeOK /\ OpenInv

ItemType == [type : {"frame", "line"}, len : Nat \ {0}]

LEMMA ArriveType ==
  ASSUME TypeOK, NEW b \in Byte, Arrive(b)
  PROVE  rx' \in Seq(Byte) /\ Len(rx') <= RxSize
<1> USE RouterAssumption
<1>1. rx \in Seq(Byte) /\ Len(rx) \in Nat /\ Len(rx) <= RxSize
  BY DEF TypeOK
<1>2. CASE Len(rx) < RxSize
  <2>1. rx' = Append(rx, b)
    BY <1>2 DEF Arrive
  <2> QED
    BY <1>1, <1>2, <2>1
<1>3. CASE ~(Len(rx) < RxSize)
  BY <1>1, <1>3 DEF Arrive
<1> QED
  BY <1>2, <1>3

LEMMA BeginItemType ==
  ASSUME TypeInv, NEW type \in {"frame", "line"}, NEW kind \in Kinds, BeginItem(type, kind)
  PROVE  TypeInv'
<1> USE RouterAssumption
<1>1. sent \in Seq(ItemType) /\ n \in Nat /\ n < MaxItems /\ n + 1 \in Items
  BY DEF TypeInv, TypeOK, BeginItem, n, Items, ItemType
<1>2. [type |-> type, len |-> 1] \in ItemType
  BY DEF ItemType
<1>3. sent' \in Seq(ItemType) /\ n' = n + 1
  BY <1>1, <1>2 DEF BeginItem, n
<1>4. [item |-> n + 1, pos |-> 1, kind |-> kind] \in Byte
  BY <1>1 DEF Byte
<1>5. rx' \in Seq(Byte) /\ Len(rx') <= RxSize
  BY <1>4, ArriveType DEF BeginItem, TypeInv
<1>6. clean' \in SUBSET Items
  BY <1>1 DEF BeginItem, TypeInv, TypeOK
<1>7. TypeOK'
  BY <1>1, <1>3, <1>5, <1>6 DEF BeginItem, routerVars, TypeInv, TypeOK, ItemType, n
<1> QED
  BY <1>1, <1>3, <1>7 DEF TypeInv, OpenInv

LEMMA SendByteType ==
  ASSUME TypeInv, open, open' \in BOOLEAN, NEW kind \in Kinds, SendByte(kind)
  PROVE  TypeInv'
<1> USE RouterAssumption
<1>1. sent \in Seq(ItemType) /\ n \in Nat /\ n \in Items /\ n \in 1..Len(sent) /\ n <= MaxItems
  BY DEF TypeInv, TypeOK, OpenInv, n, Items, ItemType
<1> DEFINE pos == sent[n].len + 1
<1>2. sent[n] \in ItemType /\ pos \in Nat \ {0}
  <2>1. sent[n] \in ItemType
    BY <1>1
  <2>2. sent[n].len \in Nat
    BY <2>1 DEF ItemType
  <2> QED
    BY <2>1, <2>2
<1>3. [sent[n] EXCEPT !.len = pos] \in ItemType
  BY <1>2 DEF ItemType
<1>4. sent' \in Seq(ItemType) /\ n' = n
  BY <1>1, <1>3 DEF SendByte, n
<1>5. [item |-> n, pos |-> pos, kind |-> kind] \in Byte
  BY <1>1, <1>2 DEF Byte
<1>6. rx' \in Seq(Byte) /\ Len(rx') <= RxSize
  BY <1>5, ArriveType DEF SendByte, TypeInv
<1>7. clean' \in SUBSET Items
  BY DEF SendByte, TypeInv, TypeOK
<1>8. TypeOK'
  BY <1>1, <1>4, <1>6, <1>7 DEF SendByte, routerVars, TypeInv, TypeOK, ItemType, n
<1> QED
  BY <1>1, <1>4, <1>8 DEF TypeInv, OpenInv

\* Every variable has its type; in particular neither buffer is ever overrun.
THEOREM TypeInvariant == Spec => []TypeInv
<1> USE RouterAssumption
<1>1. Init => TypeInv
  <2> SUFFICES ASSUME Init PROVE TypeInv
    OBVIOUS
  <2>1. sent \in Seq([type : {"frame", "line"}, len : Nat \ {0}]) /\ Len(sent) <= MaxItems
    BY DEF Init
  <2>2. rx \in Seq(Byte) /\ Len(rx) <= RxSize /\ buf \in Seq(Byte) /\ Len(buf) < BufferSize
    BY DEF Init
  <2>3. fate \in [Items -> {"none", "taken", "torn"}] /\ clean \in SUBSET Items
    BY DEF Init
  <2> QED
    BY <2>1, <2>2, <2>3 DEF Init, TypeInv, TypeOK, OpenInv
<1>2. TypeInv /\ [Next]_vars => TypeInv'
  <2> SUFFICES ASSUME TypeInv, [Next]_vars PROVE TypeInv'
    OBVIOUS
  <2>1. CASE BeginFrame
    BY <2>1, BeginItemType DEF BeginFrame, LegacyKinds, Kinds
  <2>2. CASE BeginLine
    BY <2>2, BeginItemType DEF BeginLine, Kinds
  <2>3. CASE SendFrameByte
    <3>1. open' \in BOOLEAN /\ open
      BY <2>3 DEF SendFrameByte
    <3>2. PICK kind \in FrameKinds : SendByte(kind)
      BY <2>3 DEF SendFrameByte
    <3> QED
      BY <3>1, <3>2, SendByteType
  <2>4. CASE SendLineByte
    <3>1. open /\ open' \in BOOLEAN /\ (SendByte("char") \/ SendByte("end"))
      BY <2>4 DEF SendLineByte
    <3> QED
      BY <3>1, SendByteType DEF Kinds
  <2>5. CASE LeaveLine
    BY <2>5 DEF LeaveLine, routerVars, TypeInv, TypeOK, OpenInv, n
  <2>6. CASE Quiet
    BY <2>6 DEF Quiet, senderVars, routerVars, TypeInv, TypeOK, OpenInv, n
  <2>7. CASE Check
    <3>1. TypeOK
      BY DEF TypeInv
    <3>2. /\ pc' = "process" /\ rx' = SubSeq(rx, K + 1, Len(rx))
          /\ quiet' = (quiet /\ K = 0) /\ ProcessBuffer(Got, quiet /\ K = 0)
          /\ UNCHANGED <<senderVars, clean>>
      BY <2>7, CheckReads
    <3>3. /\ buf' \in Seq(Byte) /\ Len(buf') < BufferSize
          /\ mode' \in {"detecting", "legacy"} /\ (buf' = << >> => mode' = "detecting")
          /\ slot' \in {"empty", "full", "held"}
          /\ fate' \in [Items -> {"none", "taken", "torn"}] /\ clobbered' \in BOOLEAN
      BY <3>1, <3>2, RouteType
    <3>4. rx' \in Seq(Byte) /\ Len(rx') <= RxSize
      BY <3>1, <3>2, ReadFacts DEF TypeOK
    <3>5. quiet' \in BOOLEAN
      BY <3>1, <3>2, Zenon DEF TypeOK
    <3>6. TypeOK'
      BY <3>1, <3>2, <3>3, <3>4, <3>5 DEF TypeOK, senderVars
    <3> QED
      BY <3>2, <3>6 DEF TypeInv, OpenInv, senderVars, n
  <2>8. CASE Process
    BY <2>8 DEF Process, senderVars, TypeInv, TypeOK, OpenInv, n
  <2>9. CASE UNCHANGED vars
    BY <2>9 DEF vars, senderVars, routerVars, TypeInv, TypeOK, OpenInv, n
  <2> QED
    BY <2>1, <2>2, <2>3, <2>4, <2>5, <2>6, <2>7, <2>8, <2>9 DEF Next
<1> QED
  BY <1>1, <1>2, PTL DEF Spec

THEOREM TypeCorrect == Spec => []TypeOK
<1>1. TypeInv => TypeOK
  BY DEF TypeInv
<1> QED
  BY <1>1, TypeInvariant, PTL

\* The slot is never "full" when check() is called: process() has been called
\* since, and has left it "held" at most.
SlotInv == (pc = "check" => slot # "full") /\ ~clobbered

\* Mouse data is overwritten only while the PC keeps the endpoint busy.
THEOREM NoBurstOverwrites == Spec => []OverwrittenOnlyWhenBusy
<1>1. Init => SlotInv
  BY DEF Init, SlotInv
<1>2. TypeOK /\ SlotInv /\ [Next]_vars => SlotInv'
  <2> SUFFICES ASSUME TypeOK, SlotInv, [Next]_vars PROVE SlotInv'
    OBVIOUS
  <2> USE DEF senderVars, routerVars
  <2>1. CASE BeginFrame \/ BeginLine \/ SendFrameByte \/ SendLineByte
    <3>1. UNCHANGED <<pc, slot, clobbered>>
      <4>1. CASE BeginFrame \/ BeginLine
        BY <4>1 DEF BeginFrame, BeginLine, BeginItem
      <4>2. CASE SendFrameByte
        BY <4>2 DEF SendFrameByte, SendByte
      <4>3. CASE SendLineByte
        BY <4>3 DEF SendLineByte, SendByte
      <4> QED
        BY <2>1, <4>1, <4>2, <4>3
    <3> QED
      BY <3>1 DEF SlotInv
  <2>2. CASE LeaveLine \/ Quiet
    BY <2>2 DEF LeaveLine, Quiet, SlotInv
  <2>3. CASE Check
    <3>1. pc = "check" /\ pc' = "process" /\ ProcessBuffer(Got, quiet /\ K = 0)
      BY <2>3, CheckReads
    <3>2. \/ Keeps(Got) \/ Frames(Got) \/ Drops(Got)
          \/ RunsCommands(Got, quiet /\ K = 0)
      <4>1. Len(Got) \in Nat
        BY ReadFacts
      <4> QED
        BY <3>1, <4>1, RouteCases
    <3>3. clobbered' = clobbered \/ Frames(Got)
      BY <3>2 DEF Keeps, Keep, Drops, RunsCommands, RouteToDevtools
    <3>4. ASSUME Frames(Got) PROVE ~clobbered'
      <4>1. Deliver(SubSeq(Got, 1, FrameLength)) \/ Keep(Got)
        BY <3>4 DEF Frames, RouteToLegacy
      <4> QED
        BY <3>1, <4>1 DEF Deliver, Keep, SlotInv
    <3> QED
      BY <3>1, <3>3, <3>4 DEF SlotInv
  <2>4. CASE Process
    BY <2>4 DEF Process, SlotInv
  <2>5. CASE UNCHANGED vars
    BY <2>5 DEF vars, SlotInv
  <2> QED
    BY <2>1, <2>2, <2>3, <2>4, <2>5 DEF Next
<1>3. SlotInv => OverwrittenOnlyWhenBusy
  BY DEF SlotInv, OverwrittenOnlyWhenBusy
<1> QED
  BY <1>1, <1>2, <1>3, TypeCorrect, PTL DEF Spec

-----------------------------------------------------------------------------
(***************************************************************************)
(* Framing.  The bytes that have come and are not handled yet are one      *)
(* sequence, whose beginning is in the buffer.                             *)
(***************************************************************************)
Pending == buf \o rx
count == Len(Pending)
item == [k \in 1..count |-> Pending[k].item]
pos == [k \in 1..count |-> Pending[k].pos]
kind == [k \in 1..count |-> Pending[k].kind]
size == [i \in 1..n |-> sent[i].len]
frames == {i \in 1..n : IsFrame(i)}

ShapeType ==
  /\ count \in Nat /\ n \in Nat /\ n <= MaxItems
  /\ item \in [1..count -> Items] /\ pos \in [1..count -> Nat \ {0}]
  /\ kind \in [1..count -> Kinds]
  /\ size \in [1..n -> Nat \ {0}] /\ frames \in SUBSET (1..n)

\* The bytes come in the order in which they are sent, some may be missing.
OrderInv ==
  /\ \A k \in 1..count : item[k] <= n /\ pos[k] <= size[item[k]]
  /\ \A j, k \in 1..count :
       j < k => item[j] < item[k] \/ (item[j] = item[k] /\ pos[j] < pos[k])

SizeInv ==
  \A i \in frames : IF i = n /\ open THEN size[i] < FrameLength ELSE size[i] = FrameLength

\* A clean item that is not pending has been taken, one that is pending has not.
FateInv ==
  /\ clean \subseteq 1..n
  /\ \A i \in Items : i > n => fate[i] = "none"
  /\ \A i \in clean : IF \E k \in 1..count : item[k] = i THEN fate[i] = "none"
                      ELSE fate[i] = "taken" /\ (i = n => ~open)

\* Clean frames are pending in one piece, and only clean frames come before them.
FrameInv ==
  \A k \in 1..count : item[k] \in clean \cap frames =>
    /\ \A j \in 1..k : item[j] \in clean \cap frames
    /\ \A q \in 1..size[item[k]] :
         /\ k - pos[k] + q \in 1..count
         /\ item[k - pos[k] + q] = item[k] /\ pos[k - pos[k] + q] = q
    /\ pos[k] = 1 => kind[k] \in LegacyKinds

\* A clean line is pending alone.
LineInv ==
  \A k \in 1..count : item[k] \in clean \ frames =>
    /\ item[k] = n /\ count = size[n] /\ count < BufferSize /\ mode = "detecting"
    /\ \A j \in 1..count : /\ item[j] = n /\ pos[j] = j /\ kind[j] \in {"char", "end"}
                           /\ kind[j] = "end" => j = count /\ ~open
    /\ kind[1] = "char"
    /\ open /\ quiet => buf = << >>

CleanInv == OrderInv /\ SizeInv /\ FateInv /\ FrameInv /\ LineInv

LEMMA ShapeFacts ==
  ASSUME TypeOK
  PROVE  /\ ShapeType
         /\ Pending \in Seq(Byte) /\ count = Len(buf) + Len(rx)
         /\ \A k \in 1..Len(buf) : Pending[k] = buf[k]
         /\ \A k \in 1..Len(rx) : Pending[Len(buf) + k] = rx[k]
<1> USE RouterAssumption
<1>1. /\ Len(buf) \in Nat /\ Len(rx) \in Nat
      /\ rx \in Seq(Byte) /\ buf \in Seq(Byte)
  BY DEF TypeOK
<1>2. /\ Pending \in Seq(Byte) /\ count = Len(buf) + Len(rx)
      /\ \A k \in 1..Len(buf) : Pending[k] = buf[k]
      /\ \A k \in 1..Len(rx) : Pending[Len(buf) + k] = rx[k]
  BY <1>1 DEF Pending, count
<1>3. count \in Nat /\ \A k \in 1..count : Pending[k] \in Byte
  BY <1>1, <1>2 DEF count
<1>4. item \in [1..count -> Items]
  BY <1>3 DEF item, Byte
<1>5. pos \in [1..count -> Nat \ {0}]
  BY <1>3 DEF pos, Byte
<1>6. kind \in [1..count -> Kinds]
  BY <1>3 DEF kind, Byte
<1>7. sent \in Seq(ItemType) /\ n \in Nat /\ n <= MaxItems
  BY DEF TypeOK, n, ItemType
<1>8. \A i \in 1..n : sent[i] \in ItemType
  BY <1>7 DEF n
<1>9. size \in [1..n -> Nat \ {0}] /\ frames \in SUBSET (1..n)
  BY <1>8 DEF size, frames, ItemType
<1> QED
  BY <1>2, <1>3, <1>4, <1>5, <1>6, <1>7, <1>9 DEF ShapeType

\* The pending bytes after a step: the same, one more at the end, or without the first ones.
SamePending == count' = count /\ item' = item /\ pos' = pos /\ kind' = kind
OneMore(i, p, which) ==
  /\ count' = count + 1
  /\ \A k \in 1..count : item'[k] = item[k] /\ pos'[k] = pos[k] /\ kind'[k] = kind[k]
  /\ item'[count + 1] = i /\ pos'[count + 1] = p /\ kind'[count + 1] = which
Without(c) ==
  /\ count' = count - c
  /\ \A k \in 1..count' : /\ item'[k] = item[k + c] /\ pos'[k] = pos[k + c]
                          /\ kind'[k] = kind[k + c]

LEMMA SameFacts ==
  ASSUME UNCHANGED <<buf, rx>>
  PROVE  SamePending
  BY DEF SamePending, count, item, pos, kind, Pending

LEMMA PendingIsBoth ==
  ASSUME TypeOK
  PROVE  \A i : i \in PendingItems <=> \E k \in 1..count : item[k] = i
<1> SUFFICES ASSUME NEW i PROVE i \in PendingItems <=> \E k \in 1..count : item[k] = i
  OBVIOUS
<1>1. /\ count = Len(buf) + Len(rx) /\ count \in Nat
      /\ \A k \in 1..Len(buf) : Pending[k] = buf[k]
      /\ \A k \in 1..Len(rx) : Pending[Len(buf) + k] = rx[k]
      /\ Len(buf) \in Nat /\ Len(rx) \in Nat
  BY ShapeFacts DEF TypeOK, ShapeType
<1>2. ASSUME i \in PendingItems PROVE \E k \in 1..count : item[k] = i
  <2>1. CASE \E k \in 1..Len(buf) : buf[k].item = i
    BY <1>1, <2>1 DEF item
  <2>2. CASE \E k \in 1..Len(rx) : rx[k].item = i
    <3>1. PICK k \in 1..Len(rx) : rx[k].item = i
      BY <2>2
    <3>2. Len(buf) + k \in 1..count /\ Pending[Len(buf) + k].item = i
      BY <1>1, <3>1
    <3> QED
      BY <3>2 DEF item
  <2> QED
    BY <1>2, <2>1, <2>2 DEF PendingItems, ItemsIn
<1>3. ASSUME NEW k \in 1..count, item[k] = i PROVE i \in PendingItems
  <2>1. Pending[k].item = i
    BY <1>3 DEF item
  <2>2. CASE k <= Len(buf)
    BY <1>1, <2>1, <2>2 DEF PendingItems, ItemsIn
  <2>3. CASE k > Len(buf)
    <3>1. k - Len(buf) \in 1..Len(rx) /\ Pending[k] = rx[k - Len(buf)]
      BY <1>1, <2>3
    <3> QED
      BY <2>1, <3>1 DEF PendingItems, ItemsIn
  <2> QED
    BY <1>1, <2>2, <2>3
<1> QED
  BY <1>2, <1>3

\* A byte that arrives comes last.
LEMMA ArriveFacts ==
  ASSUME TypeOK, NEW i \in Items, NEW p \in Nat \ {0}, NEW which \in Kinds, UNCHANGED buf,
         Arrive([item |-> i, pos |-> p, kind |-> which])
  PROVE  IF Len(rx) < RxSize THEN OneMore(i, p, which) ELSE SamePending
<1> DEFINE b == [item |-> i, pos |-> p, kind |-> which]
<1>1. CASE ~(Len(rx) < RxSize)
  BY <1>1, SameFacts DEF Arrive
<1>2. CASE Len(rx) < RxSize
  <2>1. rx' = Append(rx, b) /\ b \in Byte
    BY <1>2 DEF Arrive, Byte
  <2>2. rx \in Seq(Byte) /\ buf \in Seq(Byte)
    BY DEF TypeOK
  <2> HIDE DEF b
  <2>3. /\ count' = count + 1 /\ count \in Nat
        /\ \A k \in 1..count : Pending'[k] = Pending[k]
        /\ Pending'[count + 1] = b
    BY <2>1, <2>2 DEF Pending, count
  <2>4. b.item = i /\ b.pos = p /\ b.kind = which
    BY DEF b
  <2>5. \A k \in 1..count' : /\ item'[k] = Pending'[k].item /\ pos'[k] = Pending'[k].pos
                             /\ kind'[k] = Pending'[k].kind
    BY DEF item, pos, kind
  <2>6. \A k \in 1..count : /\ item[k] = Pending[k].item /\ pos[k] = Pending[k].pos
                            /\ kind[k] = Pending[k].kind
    BY DEF item, pos, kind
  <2>7. OneMore(i, p, which)
    BY <2>3, <2>4, <2>5, <2>6 DEF OneMore
  <2> QED
    BY <1>2, <2>7
<1> QED
  BY <1>1, <1>2

-----------------------------------------------------------------------------
(***************************************************************************)
(* The sender.                                                             *)
(***************************************************************************)
\* A new item: nothing is disturbed but the lines that wait.
LEMMA BeginItemClean ==
  ASSUME TypeInv, CleanInv, NEW type \in {"frame", "line"}, NEW which \in Kinds,
         type = "frame" => which \in LegacyKinds,
         type = "line" => which \in {"char", "eight"},
         BeginItem(type, which), ShapeType, ShapeType'
  PROVE  CleanInv'
<1> USE RouterAssumption
<1>1. ~open /\ open' /\ n < MaxItems /\ n' = n + 1
  <2>1. sent' = Append(sent, [type |-> type, len |-> 1]) /\ sent \in Seq(ItemType)
    BY DEF BeginItem, TypeInv, TypeOK, ItemType
  <2> QED
    BY <2>1 DEF BeginItem, n
<1>2. n \in Nat /\ n + 1 \in Items /\ count \in Nat
  BY <1>1 DEF ShapeType, Items
<1>3. /\ UNCHANGED <<buf, mode, quiet, fate>>
      /\ Arrive([item |-> n + 1, pos |-> 1, kind |-> which])
  BY DEF BeginItem, routerVars
<1>4. IF Len(rx) < RxSize THEN OneMore(n + 1, 1, which) ELSE SamePending
  BY <1>2, <1>3, ArriveFacts DEF TypeInv
<1>5. /\ \A i \in 1..n : size'[i] = size[i] /\ (i \in frames' <=> i \in frames)
      /\ size'[n + 1] = 1 /\ (n + 1 \in frames' <=> type = "frame")
  <2>1. sent' = Append(sent, [type |-> type, len |-> 1]) /\ sent \in Seq(ItemType)
    BY DEF BeginItem, TypeInv, TypeOK, ItemType
  <2>2. Len(sent') = n + 1 /\ sent'[n + 1] = [type |-> type, len |-> 1]
    BY <2>1 DEF n
  <2>3. \A i \in 1..n : sent'[i] = sent[i]
    BY <2>1 DEF n
  <2> QED
    BY <1>1, <1>2, <2>2, <2>3 DEF size, frames, IsFrame
<1> DEFINE waits(i) == \E k \in 1..count : item[k] = i
<1>6. \A i \in Items : i \in PendingItems <=> waits(i)
  BY PendingIsBoth DEF TypeInv
<1>7. \A i \in PendingItems : i \in 1..n /\ (IsFrame(i) <=> i \in frames)
  <2>1. \A i \in PendingItems : i \in 1..n
    BY PendingIsBoth, <1>2 DEF TypeInv, CleanInv, OrderInv, ShapeType, Items
  <2> QED
    BY <2>1 DEF frames
<1>8. /\ \A i \in 1..n : i \in clean' <=> i \in clean /\ (i \in frames \/ ~waits(i))
      /\ clean' \subseteq 1..(n + 1)
      /\ n + 1 \in clean' => /\ Len(rx) < RxSize
                             /\ type = "frame" => \A k \in 1..count : item[k] \in clean \cap frames
                             /\ type = "line" => count = 0 /\ which = "char"
  <2> DEFINE pendingFrames == {i \in PendingItems : IsFrame(i)}
             undisturbed == IF type = "frame" THEN PendingItems \subseteq pendingFrames \cap clean
                                              ELSE PendingItems = {} /\ which # "eight"
  <2>1. clean' = (clean \ (PendingItems \ pendingFrames))
                   \cup (IF undisturbed /\ Len(rx) < RxSize THEN {n + 1} ELSE {})
    BY DEF BeginItem
  <2>2. clean \subseteq 1..n
    BY DEF CleanInv, FateInv
  <2>3. \A i \in 1..n : i \in clean' <=> i \in clean /\ (i \in frames \/ ~waits(i))
    BY <1>1, <1>2, <1>6, <1>7, <2>1, <2>2 DEF Items
  <2>4. clean' \subseteq 1..(n + 1)
    <3> HIDE DEF undisturbed, pendingFrames
    <3>1. clean' \subseteq clean \cup {n + 1}
      BY <2>1
    <3> QED
      BY <1>2, <2>2, <3>1
  <2>5. n + 1 \in clean' => undisturbed /\ Len(rx) < RxSize
    BY <1>2, <2>1, <2>2
  <2>6. \A k \in 1..count : item[k] \in PendingItems
    BY <1>6 DEF ShapeType
  <2>7. type = "frame" /\ undisturbed => \A k \in 1..count : item[k] \in clean \cap frames
    BY <1>7, <2>6
  <2>8. type = "line" /\ undisturbed => count = 0 /\ which = "char"
    <3>1. count # 0 => PendingItems # {}
      BY <1>2, <2>6
    <3> QED
      BY <3>1
  <2> QED
    BY <2>3, <2>4, <2>5, <2>7, <2>8
<1> HIDE DEF waits
<1>9. \A k \in 1..count : item'[k] = item[k] /\ pos'[k] = pos[k] /\ kind'[k] = kind[k]
  BY <1>4 DEF OneMore, SamePending
<1>10. OrderInv'
  <2>0. /\ \A k \in 1..count : item[k] \in 1..n
        /\ \A k \in 1..count : pos[k] <= size'[item[k]]
        /\ \A j, k \in 1..count :
             j < k => item[j] < item[k] \/ (item[j] = item[k] /\ pos[j] < pos[k])
    BY <1>2, <1>5 DEF CleanInv, OrderInv, ShapeType, Items
  <2>1. CASE Len(rx) < RxSize
    <3>1. /\ count' = count + 1
          /\ item'[count + 1] = n + 1 /\ pos'[count + 1] = 1
      BY <1>4, <2>1 DEF OneMore
    <3>2. \A k \in 1..count' : item'[k] <= n' /\ pos'[k] <= size'[item'[k]]
      BY <1>1, <1>2, <1>5, <1>9, <2>0, <3>1
    <3>3. \A j, k \in 1..count' :
            j < k => item'[j] < item'[k] \/ (item'[j] = item'[k] /\ pos'[j] < pos'[k])
      BY <1>1, <1>2, <1>9, <2>0, <3>1
    <3> QED
      BY <3>2, <3>3 DEF OrderInv
  <2>2. CASE ~(Len(rx) < RxSize)
    <3>1. count' = count
      BY <1>4, <2>2 DEF SamePending
    <3> QED
      BY <1>1, <1>2, <1>9, <2>0, <3>1 DEF OrderInv
  <2> QED
    BY <2>1, <2>2
<1>11. SizeInv'
  <2>1. ASSUME NEW i \in 1..n, i \in frames' PROVE size'[i] = FrameLength /\ i # n'
    BY <1>1, <1>2, <1>5, <2>1 DEF CleanInv, SizeInv
  <2>2. frames' \in SUBSET (1..(n + 1))
    BY <1>1 DEF ShapeType
  <2> QED
    BY <1>1, <1>2, <1>5, <2>1, <2>2 DEF SizeInv
<1>12. FateInv'
  <2>1. \A i \in Items : i > n' => fate'[i] = "none"
    BY <1>1, <1>2, <1>3 DEF CleanInv, FateInv, Items
  <2>2. ASSUME NEW i \in clean', i \in 1..n
        PROVE IF \E k \in 1..count' : item'[k] = i THEN fate'[i] = "none"
              ELSE fate'[i] = "taken" /\ (i = n' => ~open')
    <3>1. i \in clean /\ i # n + 1 /\ i # n'
      BY <1>1, <1>2, <1>8, <2>2
    <3>2. (\E k \in 1..count' : item'[k] = i) <=> \E k \in 1..count : item[k] = i
      BY <1>2, <1>4, <3>1 DEF OneMore, SamePending
    <3> QED
      BY <1>3, <3>1, <3>2 DEF CleanInv, FateInv
  <2>3. ASSUME n + 1 \in clean'
        PROVE (\E k \in 1..count' : item'[k] = n + 1) /\ fate'[n + 1] = "none"
    BY <1>2, <1>3, <1>4, <1>8, <2>3 DEF OneMore, CleanInv, FateInv
  <2> QED
    BY <1>1, <1>2, <1>8, <2>1, <2>2, <2>3 DEF FateInv
<1>13. FrameInv'
  <2> SUFFICES ASSUME NEW k \in 1..count', item'[k] \in clean' \cap frames'
               PROVE  /\ \A j \in 1..k : item'[j] \in clean' \cap frames'
                      /\ \A q \in 1..size'[item'[k]] :
                           /\ k - pos'[k] + q \in 1..count'
                           /\ item'[k - pos'[k] + q] = item'[k] /\ pos'[k - pos'[k] + q] = q
                      /\ pos'[k] = 1 => kind'[k] \in LegacyKinds
    BY DEF FrameInv
  <2>1. \A i \in clean \cap frames : i \in clean' \cap frames'
    BY <1>5, <1>8 DEF CleanInv, FateInv
  <2>2. CASE k \in 1..count
    <3>1. item'[k] = item[k] /\ item[k] \in 1..n
      BY <1>9, <2>2, <1>2 DEF CleanInv, OrderInv, ShapeType, Items
    <3>2. item[k] \in clean \cap frames
      BY <1>5, <1>8, <3>1
    <3>3. /\ \A j \in 1..k : item[j] \in clean \cap frames
          /\ \A q \in 1..size[item[k]] :
               /\ k - pos[k] + q \in 1..count
               /\ item[k - pos[k] + q] = item[k] /\ pos[k - pos[k] + q] = q
          /\ pos[k] = 1 => kind[k] \in LegacyKinds
      BY <2>2, <3>2 DEF CleanInv, FrameInv
    <3>4. \A j \in 1..k : item'[j] \in clean' \cap frames'
      BY <1>2, <1>9, <2>1, <2>2, <3>3
    <3>5. size'[item'[k]] = size[item[k]] /\ pos'[k] = pos[k] /\ kind'[k] = kind[k]
      BY <1>5, <1>9, <2>2, <3>1
    <3>6. \A q \in 1..size[item[k]] :
            /\ k - pos[k] + q \in 1..count'
            /\ item'[k - pos[k] + q] = item[k] /\ pos'[k - pos[k] + q] = q
      BY <1>2, <1>4, <1>9, <3>3 DEF OneMore, SamePending
    <3> QED
      BY <3>1, <3>3, <3>4, <3>5, <3>6
  <2>3. CASE k = count + 1 /\ Len(rx) < RxSize
    <3>1. item'[k] = n + 1 /\ pos'[k] = 1 /\ kind'[k] = which /\ count' = count + 1
      BY <1>4, <2>3 DEF OneMore
    <3>2. type = "frame" /\ size'[n + 1] = 1
      BY <1>2, <1>5, <3>1
    <3>3. \A j \in 1..count : item'[j] \in clean' \cap frames'
      BY <1>8, <1>9, <2>1, <3>1, <3>2
    <3> QED
      BY <1>2, <2>3, <3>1, <3>2, <3>3
  <2> QED
    BY <1>2, <1>4, <2>2, <2>3 DEF OneMore, SamePending
<1>14. LineInv'
  <2> SUFFICES ASSUME NEW k \in 1..count', item'[k] \in clean' \ frames'
               PROVE  /\ item'[k] = n' /\ count' = size'[n'] /\ count' < BufferSize
                      /\ mode' = "detecting"
                      /\ \A j \in 1..count' :
                           /\ item'[j] = n' /\ pos'[j] = j /\ kind'[j] \in {"char", "end"}
                           /\ kind'[j] = "end" => j = count' /\ ~open'
                      /\ kind'[1] = "char"
                      /\ open' /\ quiet' => buf' = << >>
    BY DEF LineInv
  <2>1. k \notin 1..count
    <3> SUFFICES ASSUME k \in 1..count PROVE FALSE
      OBVIOUS
    <3>1. item'[k] = item[k] /\ item[k] \in 1..n /\ waits(item[k])
      BY <1>9, <1>2 DEF CleanInv, OrderInv, ShapeType, Items, waits
    <3> QED
      BY <1>5, <1>8, <3>1
  <2>2. k = count + 1 /\ Len(rx) < RxSize /\ OneMore(n + 1, 1, which)
    BY <1>2, <1>4, <2>1 DEF OneMore, SamePending
  <2>3. item'[k] = n + 1 /\ pos'[k] = 1 /\ kind'[k] = which /\ count' = count + 1
    BY <2>2 DEF OneMore
  <2>4. type = "line" /\ count = 0 /\ which = "char"
    BY <1>1, <1>2, <1>5, <1>8, <2>3
  <2>5. buf = << >> /\ mode = "detecting"
    <3>1. count = Len(buf) + Len(rx) /\ buf \in Seq(Byte) /\ rx \in Seq(Byte)
      BY ShapeFacts DEF TypeInv, TypeOK
    <3>2. buf = << >>
      BY <2>4, <3>1
    <3> QED
      BY <3>2 DEF TypeInv, TypeOK
  <2> QED
    BY <1>1, <1>2, <1>3, <1>5, <2>2, <2>3, <2>4, <2>5
<1> QED
  BY <1>10, <1>11, <1>12, <1>13, <1>14 DEF CleanInv

\* A byte more of the open item: unless it is lost, it is where it belongs.
LEMMA SendByteClean ==
  ASSUME TypeInv, CleanInv, open, NEW which \in Kinds, SendByte(which),
         n \in frames => open' = (size[n] + 1 < FrameLength),
         n \notin frames => \/ open' = TRUE /\ which = "char"
                            \/ open' = FALSE /\ which = "end",
         ShapeType, ShapeType'
  PROVE  CleanInv'
<1> USE RouterAssumption
<1>1. n \in Nat /\ n \in 1..n /\ n \in Items /\ count \in Nat
  BY DEF TypeInv, OpenInv, ShapeType, Items
<1> DEFINE len == size[n]
<1>2. len \in Nat \ {0} /\ len = sent[n].len
  BY <1>1 DEF ShapeType, size
<1>3. /\ n' = n /\ frames' = frames
      /\ \A i \in 1..n : size'[i] = IF i = n THEN len + 1 ELSE size[i]
  <2>1. sent' = [sent EXCEPT ![n].len = sent[n].len + 1] /\ sent \in Seq(ItemType)
    BY DEF SendByte, TypeInv, TypeOK, ItemType
  <2>2. Len(sent') = n
    BY <2>1 DEF n
  <2>3. \A i \in 1..n : sent'[i] = IF i = n THEN [sent[n] EXCEPT !.len = @ + 1] ELSE sent[i]
    BY <2>1 DEF n
  <2>4. sent[n] \in ItemType
    BY <1>1, <2>1 DEF n
  <2>5. sent'[n].len = sent[n].len + 1 /\ sent'[n].type = sent[n].type
    BY <1>1, <2>3, <2>4 DEF ItemType
  <2>6. n' = n
    BY <2>2 DEF n
  <2>7. frames' = frames
    BY <2>3, <2>5, <2>6 DEF frames, IsFrame
  <2> QED
    BY <1>1, <1>2, <2>3, <2>5, <2>6, <2>7 DEF size
<1>4. UNCHANGED <<buf, mode, quiet, fate>>
  BY DEF SendByte, routerVars
<1>5. IF Len(rx) < RxSize THEN OneMore(n, len + 1, which) ELSE SamePending
  <2>1. Arrive([item |-> n, pos |-> len + 1, kind |-> which])
    BY <1>2 DEF SendByte
  <2>2. len + 1 \in Nat \ {0} /\ TypeOK /\ UNCHANGED buf
    BY <1>2, <1>4 DEF TypeInv
  <2> HIDE DEF len
  <2> QED
    BY <1>1, <2>1, <2>2, ArriveFacts
<1>6. /\ clean' \subseteq clean /\ \A i \in clean : i # n => i \in clean'
      /\ n \in clean' => Len(rx) < RxSize /\ (n \in frames \/ len + 1 < BufferSize)
  BY <1>1, <1>2 DEF SendByte, frames
<1> HIDE DEF len
<1>7. \A k \in 1..count : item'[k] = item[k] /\ pos'[k] = pos[k] /\ kind'[k] = kind[k]
  BY <1>5 DEF OneMore, SamePending
<1>8. /\ \A k \in 1..count : item[k] \in 1..n /\ pos[k] \in Nat /\ pos[k] <= size[item[k]]
      /\ \A j, k \in 1..count :
           j < k => item[j] < item[k] \/ (item[j] = item[k] /\ pos[j] < pos[k])
  BY <1>1 DEF CleanInv, OrderInv, ShapeType, Items
\* While an item is clean and open, the last byte that is pending is its last one.
<1>9. n \in clean => /\ count >= 1 /\ item[count] = n /\ pos[count] = len
                     /\ fate[n] = "none"
  <2> SUFFICES ASSUME n \in clean
               PROVE count >= 1 /\ item[count] = n /\ pos[count] = len /\ fate[n] = "none"
    OBVIOUS
  <2>1. (\E k \in 1..count : item[k] = n) /\ fate[n] = "none"
    BY DEF CleanInv, FateInv
  <2>2. PICK k \in 1..count : item[k] = n
    BY <2>1
  <2>3. PICK at \in 1..count : item[at] = n /\ pos[at] = len
    <3>1. CASE n \in frames
      <4>1. \A q \in 1..size[item[k]] :
               /\ k - pos[k] + q \in 1..count
               /\ item[k - pos[k] + q] = item[k] /\ pos[k - pos[k] + q] = q
        BY <2>2, <3>1 DEF CleanInv, FrameInv
      <4> QED
        BY <1>2, <2>2, <4>1 DEF len
    <3>2. CASE n \notin frames
      <4>1. count = size[n] /\ \A j \in 1..count : item[j] = n /\ pos[j] = j
        BY <2>2, <3>2 DEF CleanInv, LineInv
      <4> QED
        BY <1>2, <4>1 DEF len
    <3> QED
      BY <3>1, <3>2
  <2>4. at = count
    <3> SUFFICES ASSUME at < count PROVE FALSE
      BY <1>1
    <3>1. count \in 1..count /\ at \in 1..count
      BY <1>1, <2>3
    <3>2. item[at] < item[count] \/ (item[at] = item[count] /\ pos[at] < pos[count])
      BY <1>8, <3>1
    <3>3. item[count] \in 1..n /\ pos[count] \in Nat /\ pos[count] <= size[item[count]]
      BY <1>8, <3>1
    <3> QED
      BY <1>1, <1>2, <2>3, <3>2, <3>3 DEF len
  <2> QED
    BY <1>1, <2>1, <2>3, <2>4
<1>10. OrderInv'
  <2>0. \A k \in 1..count : item'[k] \in 1..n /\ pos'[k] \in Nat /\ pos'[k] <= size'[item'[k]]
    BY <1>2, <1>3, <1>7, <1>8 DEF len
  <2>1. CASE Len(rx) < RxSize
    <3>1. count' = count + 1 /\ item'[count + 1] = n /\ pos'[count + 1] = len + 1
      BY <1>5, <2>1 DEF OneMore
    <3>2. \A k \in 1..count' : item'[k] <= n' /\ pos'[k] <= size'[item'[k]]
      BY <1>1, <1>2, <1>3, <2>0, <3>1
    <3>3. ASSUME NEW j \in 1..count', NEW k \in 1..count', j < k
          PROVE item'[j] < item'[k] \/ (item'[j] = item'[k] /\ pos'[j] < pos'[k])
      <4>1. j \in 1..count
        BY <1>1, <3>1, <3>3
      <4>2. CASE k \in 1..count
        BY <1>7, <1>8, <3>3, <4>1, <4>2
      <4>3. CASE k = count + 1
        <5>1. item'[j] \in 1..n /\ pos[j] \in Nat /\ pos[j] <= size[item[j]] /\ item'[j] = item[j]
              /\ pos'[j] = pos[j]
          BY <1>7, <1>8, <4>1
        <5>2. item[j] = n => pos[j] <= len
          BY <5>1 DEF len
        <5> QED
          BY <1>1, <1>2, <3>1, <4>3, <5>1, <5>2
      <4> QED
        BY <1>1, <3>1, <4>2, <4>3
    <3> QED
      BY <3>2, <3>3 DEF OrderInv
  <2>2. CASE ~(Len(rx) < RxSize)
    <3>1. count' = count
      BY <1>5, <2>2 DEF SamePending
    <3> QED
      BY <1>1, <1>3, <1>7, <1>8, <2>0, <3>1 DEF OrderInv
  <2> QED
    BY <2>1, <2>2
<1>11. SizeInv'
  <2> SUFFICES ASSUME NEW i \in frames
               PROVE IF i = n /\ open' THEN size'[i] < FrameLength ELSE size'[i] = FrameLength
    BY <1>3 DEF SizeInv
  <2>1. i \in 1..n
    BY DEF ShapeType
  <2>2. CASE i # n
    BY <1>3, <2>1, <2>2 DEF CleanInv, SizeInv
  <2>3. CASE i = n
    <3>1. len < FrameLength
      BY <2>3 DEF CleanInv, SizeInv, len
    <3>2. open' = (len + 1 < FrameLength)
      BY <2>3 DEF len
    <3>3. size'[i] = len + 1 /\ len \in Nat /\ FrameLength \in Nat
      BY <1>2, <1>3, <2>1, <2>3
    <3>4. CASE len + 1 < FrameLength
      BY <2>3, <3>2, <3>3, <3>4
    <3>5. CASE ~(len + 1 < FrameLength)
      <4>1. size'[i] = FrameLength
        BY <3>1, <3>3, <3>5
      <4>2. ~open'
        BY <3>2, <3>5
      <4> QED
        BY <4>1, <4>2
    <3> QED
      BY <3>4, <3>5
  <2> QED
    BY <2>2, <2>3
<1>12. FateInv'
  <2>1. clean' \subseteq 1..n' /\ \A i \in Items : i > n' => fate'[i] = "none"
    BY <1>3, <1>4, <1>6 DEF CleanInv, FateInv
  <2>2. ASSUME NEW i \in clean', i # n
        PROVE IF \E k \in 1..count' : item'[k] = i THEN fate'[i] = "none"
              ELSE fate'[i] = "taken" /\ (i = n' => ~open')
    <3>1. i \in clean
      BY <1>6
    <3>2. (\E k \in 1..count' : item'[k] = i) <=> \E k \in 1..count : item[k] = i
      BY <1>1, <1>5, <1>7, <2>2 DEF OneMore, SamePending
    <3> QED
      BY <1>3, <1>4, <2>2, <3>1, <3>2 DEF CleanInv, FateInv
  <2>3. ASSUME n \in clean'
        PROVE (\E k \in 1..count' : item'[k] = n) /\ fate'[n] = "none"
    BY <1>1, <1>4, <1>5, <1>6, <1>9, <2>3 DEF OneMore
  <2> QED
    BY <2>1, <2>2, <2>3 DEF FateInv
<1>13. FrameInv'
  <2> SUFFICES ASSUME NEW k \in 1..count', item'[k] \in clean' \cap frames'
               PROVE  /\ \A j \in 1..k : item'[j] \in clean' \cap frames'
                      /\ \A q \in 1..size'[item'[k]] :
                           /\ k - pos'[k] + q \in 1..count'
                           /\ item'[k - pos'[k] + q] = item'[k] /\ pos'[k - pos'[k] + q] = q
                      /\ pos'[k] = 1 => kind'[k] \in LegacyKinds
    BY DEF FrameInv
  \* old is the byte itself, or the one before it when it is the new one.
  <2> DEFINE old == IF k = count + 1 THEN count ELSE k
  <2>1. /\ old \in 1..count /\ item[old] = item'[k] /\ old - pos[old] = k - pos'[k]
        /\ pos'[k] = 1 => kind'[k] = kind[old] /\ pos[old] = 1
        /\ k = count + 1 => item'[k] = n
    <3>1. CASE k \in 1..count
      BY <1>1, <1>7, <3>1
    <3>2. CASE k = count + 1 /\ Len(rx) < RxSize
      <4>1. item'[k] = n /\ pos'[k] = len + 1
        BY <1>5, <3>2 DEF OneMore
      <4>2. n \in clean
        BY <1>6, <4>1
      <4>3. old = count /\ count \in 1..count /\ item[count] = n /\ pos[count] = len
        BY <1>1, <1>9, <3>2, <4>2
      <4>4. k - pos'[k] = count - len /\ pos'[k] # 1
        <5>1. len \in Nat /\ len # 0 /\ count \in Nat /\ k = count + 1 /\ pos'[k] = len + 1
          BY <1>1, <1>2, <3>2, <4>1
        <5> HIDE DEF old
        <5> QED
          BY <5>1
      <4> QED
        BY <4>1, <4>3, <4>4
    <3> QED
      BY <1>1, <1>5, <3>1, <3>2 DEF OneMore, SamePending
  <2>2. item[old] \in clean \cap frames
    BY <1>3, <1>6, <2>1
  <2>3. /\ \A j \in 1..old : item[j] \in clean \cap frames
        /\ \A q \in 1..size[item[old]] :
             /\ old - pos[old] + q \in 1..count
             /\ item[old - pos[old] + q] = item[old] /\ pos[old - pos[old] + q] = q
        /\ pos[old] = 1 => kind[old] \in LegacyKinds
    BY <2>1, <2>2 DEF CleanInv, FrameInv
  \* An item before a clean one is clean still: only the last one is disturbed.
  <2>4. \A j \in 1..old : item[j] \in clean' \cap frames'
    <3> SUFFICES ASSUME NEW j \in 1..old, item[j] = n PROVE n \in clean'
      BY <1>3, <1>6, <2>3
    <3>1. item[old] = n
      <4>1. j \in 1..count /\ j <= old
        BY <1>1, <2>1
      <4>2. j = old \/ item[j] <= item[old]
        BY <1>8, <2>1, <4>1
      <4> QED
        BY <1>1, <1>8, <2>1, <4>2
    <3> QED
      BY <2>1, <3>1
  <2>5. \A j \in 1..k : item'[j] \in clean' \cap frames'
    BY <1>1, <1>7, <2>1, <2>4
  <2>6. ASSUME NEW q \in 1..size'[item'[k]]
        PROVE  /\ k - pos'[k] + q \in 1..count'
               /\ item'[k - pos'[k] + q] = item'[k] /\ pos'[k - pos'[k] + q] = q
    <3>1. CASE q \in 1..size[item[old]]
      <4>1. /\ k - pos'[k] + q \in 1..count
            /\ item[k - pos'[k] + q] = item'[k] /\ pos[k - pos'[k] + q] = q
        BY <2>1, <2>3, <3>1
      <4>2. count' \in Nat /\ count' >= count
        BY <1>1, <1>5 DEF OneMore, SamePending
      <4> QED
        BY <1>1, <1>7, <4>1, <4>2
    <3>2. CASE q \notin 1..size[item[old]]
      <4>1. item[old] \in 1..n
        BY <1>8, <2>1
      <4>2. item[old] = n /\ q = len + 1
        BY <1>2, <1>3, <2>1, <3>2, <4>1 DEF len
      <4>3. n \in clean' /\ Len(rx) < RxSize
        BY <1>6, <2>1, <4>2
      <4>4. /\ count' = count + 1
            /\ item'[count + 1] = n /\ pos'[count + 1] = len + 1
        BY <1>5, <4>3 DEF OneMore
      \* The last byte before it tells where it is.
      <4>5. k - pos'[k] + len = count
        <5>1. k - pos'[k] + len \in 1..count /\ item[k - pos'[k] + len] = n
              /\ pos[k - pos'[k] + len] = len
          BY <1>2, <2>1, <2>3, <4>2 DEF len
        <5>2. item[count] = n /\ pos[count] = len /\ count \in 1..count
          BY <1>1, <1>6, <1>9, <4>3
        <5>3. ~(k - pos'[k] + len < count)
          BY <1>1, <1>2, <1>8, <5>1, <5>2
        <5> QED
          BY <1>1, <5>1, <5>3
      <4>6. k \in Int /\ pos'[k] \in Int
        BY DEF ShapeType
      <4>7. k - pos'[k] + q = count + 1
        BY <1>1, <1>2, <4>2, <4>5, <4>6
      <4> QED
        BY <1>1, <2>1, <4>2, <4>4, <4>7
    <3> QED
      BY <3>1, <3>2
  <2>7. pos'[k] = 1 => kind'[k] \in LegacyKinds
    BY <2>1, <2>3
  <2> QED
    BY <2>5, <2>6, <2>7
<1>14. LineInv'
  <2> SUFFICES ASSUME NEW k \in 1..count', item'[k] \in clean' \ frames'
               PROVE  /\ item'[k] = n' /\ count' = size'[n'] /\ count' < BufferSize
                      /\ mode' = "detecting"
                      /\ \A j \in 1..count' :
                           /\ item'[j] = n' /\ pos'[j] = j /\ kind'[j] \in {"char", "end"}
                           /\ kind'[j] = "end" => j = count' /\ ~open'
                      /\ kind'[1] = "char"
                      /\ open' /\ quiet' => buf' = << >>
    BY DEF LineInv
  <2>1. n \in clean' /\ n \notin frames /\ \E j \in 1..count : item[j] = n
    <3>1. CASE k \in 1..count
      <4>1. item[k] = n
        BY <1>3, <1>6, <1>7, <3>1 DEF CleanInv, LineInv
      <4> QED
        BY <1>3, <1>7, <3>1, <4>1
    <3>2. CASE k \notin 1..count
      <4>1. item'[k] = n
        BY <1>1, <1>5, <3>2 DEF OneMore, SamePending
      <4> QED
        BY <1>1, <1>3, <1>6, <1>9, <4>1
    <3> QED
      BY <3>1, <3>2
  <2>2. n \in clean /\ Len(rx) < RxSize /\ len + 1 < BufferSize
    BY <1>6, <2>1
  <2>3. /\ count = len /\ mode = "detecting"
        /\ \A j \in 1..count : /\ item[j] = n /\ pos[j] = j /\ kind[j] \in {"char", "end"}
                               /\ kind[j] = "end" => j = count /\ ~open
        /\ kind[1] = "char" /\ (open /\ quiet => buf = << >>)
    BY <2>1, <2>2 DEF CleanInv, LineInv, len
  <2>4. /\ count' = count + 1 /\ item'[count + 1] = n /\ pos'[count + 1] = len + 1
        /\ kind'[count + 1] = which
    BY <1>5, <2>2 DEF OneMore
  <2>5. which \in {"char", "end"} /\ (which = "end" => ~open')
    BY <2>1
  <2>6. \A j \in 1..count' :
          /\ item'[j] = n' /\ pos'[j] = j /\ kind'[j] \in {"char", "end"}
          /\ kind'[j] = "end" => j = count' /\ ~open'
    BY <1>1, <1>3, <1>7, <2>3, <2>4, <2>5
  <2>7. item'[k] = n'
    BY <2>6
  <2>8. count' = size'[n'] /\ count' < BufferSize
    BY <1>1, <1>2, <1>3, <2>2, <2>3, <2>4
  <2>9. kind'[1] = "char"
    BY <1>1, <1>2, <1>7, <2>3
  <2> QED
    BY <1>4, <2>3, <2>6, <2>7, <2>8, <2>9
<1> QED
  BY <1>10, <1>11, <1>12, <1>13, <1>14 DEF CleanInv

-----------------------------------------------------------------------------
(***************************************************************************)
(* check().                                                                *)
(***************************************************************************)
\* What is read is the beginning of what is pending.
LEMMA GotFacts ==
  ASSUME TypeOK
  PROVE  /\ Len(Got) \in Nat /\ Len(Got) <= count
         /\ \A k \in 1..Len(Got) : /\ k \in 1..count /\ Got[k] = Pending[k] /\ Got[k] \in Byte
                                   /\ Got[k].item = item[k] /\ Got[k].pos = pos[k]
                                   /\ Got[k].kind = kind[k]
         /\ count < BufferSize => Len(Got) = count /\ K = Len(rx)
<1>1. /\ K \in 0..Len(rx) /\ Len(rx) \in Nat /\ Len(buf) \in Nat
      /\ Len(SubSeq(rx, 1, K)) = K /\ SubSeq(rx, 1, K) \in Seq(Byte) /\ buf \in Seq(Byte)
      /\ \A j \in 1..K : SubSeq(rx, 1, K)[j] = rx[j]
      /\ Got \in Seq(Byte) /\ Len(Got) = Len(buf) + K
      /\ K < Len(rx) => Len(Got) = BufferSize - 1
  BY ReadFacts DEF TypeOK
<1>2. /\ Pending \in Seq(Byte) /\ count = Len(buf) + Len(rx)
      /\ \A k \in 1..Len(buf) : Pending[k] = buf[k]
      /\ \A k \in 1..Len(rx) : Pending[Len(buf) + k] = rx[k]
  BY ShapeFacts
<1>3. ASSUME NEW k \in 1..Len(Got) PROVE k \in 1..count /\ Got[k] = Pending[k]
  <2>1. k \in 1..count
    BY <1>1, <1>2
  <2>2. CASE k <= Len(buf)
    BY <1>1, <1>2, <2>2 DEF Got
  <2>3. CASE k > Len(buf)
    <3>1. k - Len(buf) \in 1..K
      BY <1>1, <2>3
    <3>2. Got[k] = SubSeq(rx, 1, K)[k - Len(buf)]
      BY <1>1, <2>3 DEF Got
    <3>3. k - Len(buf) \in 1..Len(rx) /\ Len(buf) + (k - Len(buf)) = k
      BY <1>1, <3>1
    <3> QED
      BY <1>1, <1>2, <2>1, <3>1, <3>2, <3>3
  <2> QED
    BY <1>1, <2>1, <2>2, <2>3
<1>4. count < BufferSize => Len(Got) = count /\ K = Len(rx)
  <2>1. count < BufferSize => K = Len(rx)
    BY <1>1, <1>2, RouterAssumption
  <2>2. K = Len(rx) => Len(Got) = count
    BY <1>1, <1>2
  <2> QED
    BY <2>1, <2>2
<1>5. \A k \in 1..Len(Got) : Got[k] \in Byte
  BY <1>1
<1>6. Len(Got) \in Nat /\ Len(Got) <= count
  BY <1>1, <1>2
<1>7. \A k \in 1..count : /\ item[k] = Pending[k].item /\ pos[k] = Pending[k].pos
                          /\ kind[k] = Pending[k].kind
  BY DEF item, pos, kind
<1> QED
  BY <1>3, <1>4, <1>5, <1>6, <1>7

\* The pending bytes are the buffer's and then the queue's, before a step and after.
PendingShape ==
  /\ count = Len(buf) + Len(rx)
  /\ \A k \in 1..Len(buf) : Pending[k] = buf[k]
  /\ \A k \in 1..Len(rx) : Pending[Len(buf) + k] = rx[k]
  /\ Len(buf) \in Nat

LEMMA PendingFacts == TypeOK => PendingShape
  BY ShapeFacts DEF TypeOK, PendingShape

LEMMA PendingFactsPrime == TypeOK' => PendingShape'
  BY PendingFacts, PTL

LEMMA WithoutFacts ==
  ASSUME TypeOK, TypeOK', rx' = SubSeq(rx, K + 1, Len(rx)), NEW c \in 0..Len(Got),
         Len(buf') = Len(Got) - c, \A j \in 1..Len(buf') : buf'[j] = Got[c + j]
  PROVE  Without(c)
<1>1. /\ K \in 0..Len(rx) /\ Len(rx) \in Nat /\ Len(buf) \in Nat
      /\ Len(Got) = Len(buf) + K
      /\ Len(rx') = Len(rx) - K
      /\ \A j \in 1..(Len(rx) - K) : rx'[j] = rx[K + j]
  <2>1. Len(buf) \in Nat
    BY PendingFacts DEF PendingShape
  <2> QED
    BY <2>1, ReadFacts
<1>2. /\ count = Len(buf) + Len(rx)
      /\ \A k \in 1..Len(rx) : Pending[Len(buf) + k] = rx[k]
  BY ShapeFacts
<1>3. /\ count' = Len(buf') + Len(rx')
      /\ \A k \in 1..Len(buf') : Pending'[k] = buf'[k]
      /\ \A k \in 1..Len(rx') : Pending'[Len(buf') + k] = rx'[k]
      /\ Len(buf') \in Nat
  BY PendingFactsPrime DEF PendingShape
<1>0. c \in Nat /\ c <= Len(Got) /\ Len(buf') = Len(Got) - c /\ K \in Nat
  BY <1>1
<1>4. count' = count - c
  <2>1. count' = Len(buf') + Len(rx')
    BY <1>3
  <2>2. Len(buf') = Len(buf) + K - c
    BY <1>0, <1>1
  <2>3. Len(rx') = Len(rx) - K
    BY <1>1
  <2>4. Len(buf) \in Nat /\ Len(rx) \in Nat /\ K \in Nat /\ c \in Nat
    BY <1>0, <1>1
  <2>5. count = Len(buf) + Len(rx)
    BY <1>2
  <2>6. (Len(buf) + K - c) + (Len(rx) - K) = (Len(buf) + Len(rx)) - c
    BY <2>4
  <2> QED
    BY <2>1, <2>2, <2>3, <2>5, <2>6
<1>5. ASSUME NEW k \in 1..count' PROVE k + c \in 1..count /\ Pending'[k] = Pending[k + c]
  <2>0. count \in Nat /\ c \in Nat
    BY <1>0, <1>1, <1>2
  <2>1. k + c \in 1..count
    BY <1>4, <2>0
  <2>2. CASE k <= Len(buf')
    <3>1. c + k \in 1..Len(Got) /\ k \in 1..Len(buf') /\ c + k = k + c
      <4>1. Len(Got) \in Nat /\ Len(buf') \in Nat /\ c \in Nat /\ Len(buf') = Len(Got) - c
        BY <1>0, <1>3, GotFacts
      <4> QED
        BY <2>0, <2>2, <4>1
    <3> QED
      BY <1>3, <3>1, GotFacts
  <2>3. CASE k > Len(buf')
    <3> DEFINE j == k - Len(buf')
    <3>1. j \in 1..Len(rx') /\ Len(buf') + j = k /\ j \in 1..(Len(rx) - K)
      BY <1>1, <1>3, <2>3
    <3>2. Pending'[k] = rx[K + j]
      BY <1>1, <1>3, <3>1
    <3>3. K + j \in 1..Len(rx) /\ Len(buf) + (K + j) = k + c
      BY <1>1, <1>3, <3>1
    <3> QED
      BY <1>2, <2>1, <3>2, <3>3
  <2> QED
    BY <1>1, <1>3, <2>1, <2>2, <2>3
<1>6. \A k \in 1..count : /\ item[k] = Pending[k].item /\ pos[k] = Pending[k].pos
                          /\ kind[k] = Pending[k].kind
  BY DEF item, pos, kind
<1>7. \A k \in 1..count' : /\ item'[k] = Pending'[k].item /\ pos'[k] = Pending'[k].pos
                           /\ kind'[k] = Pending'[k].kind
  BY DEF item, pos, kind
<1> QED
  BY <1>4, <1>5, <1>6, <1>7 DEF Without

\* Handling a part of what was read touches only items that are pending.
LEMMA HandleFacts ==
  ASSUME TypeOK, NEW all, Handle(all),
         \A s \in all : \E a, z \in Nat : 1 <= a /\ z <= Len(Got) /\ s = SubSeq(Got, a, z)
  PROVE  \A i \in Items : fate'[i] = fate[i] \/ \E k \in 1..count : item[k] = i
<1> SUFFICES ASSUME NEW i \in Items, NEW s \in all, i \in ItemsIn(s)
             PROVE  \E k \in 1..count : item[k] = i
  BY DEF Handle
<1>1. PICK a \in Nat, z \in Nat : 1 <= a /\ z <= Len(Got) /\ s = SubSeq(Got, a, z)
  OBVIOUS
<1>2. Got \in Seq(Byte) /\ Len(Got) \in Nat
  BY ReadFacts
<1>3. PICK k \in 1..Len(s) : s[k].item = i
  BY DEF ItemsIn
<1>4. a <= z
  BY <1>1, <1>2, <1>3
<1>5. Len(s) = z - a + 1 /\ s[k] = Got[a + k - 1]
  BY <1>1, <1>2, <1>3, <1>4
<1>6. a + k - 1 \in 1..Len(Got)
  BY <1>1, <1>2, <1>3, <1>5
<1> QED
  BY <1>3, <1>5, <1>6, GotFacts

SenderSame == n' = n /\ open' = open /\ clean' = clean /\ size' = size /\ frames' = frames
\* fate' is fate for the items that are not pending.
OnlyPending == \A i \in Items : fate'[i] = fate[i] \/ \E k \in 1..count : item[k] = i

\* Bytes that are taken away leave the others in order.
LEMMA WithoutOrder ==
  ASSUME CleanInv, ShapeType, ShapeType', NEW c \in 0..count, Without(c), SenderSame
  PROVE  OrderInv' /\ SizeInv'
<1>1. count \in Nat /\ count' = count - c /\ c \in Nat /\ c <= count
  BY DEF ShapeType, Without
<1>2. \A k \in 1..count' : k + c \in 1..count
  BY <1>1
<1>3. OrderInv'
  <2>1. \A k \in 1..count' : item'[k] <= n' /\ pos'[k] <= size'[item'[k]]
    BY <1>2 DEF Without, SenderSame, CleanInv, OrderInv
  <2>2. ASSUME NEW j \in 1..count', NEW k \in 1..count', j < k
        PROVE item'[j] < item'[k] \/ (item'[j] = item'[k] /\ pos'[j] < pos'[k])
    <3>1. j + c \in 1..count /\ k + c \in 1..count /\ j + c < k + c
      BY <1>1, <1>2, <2>2
    <3> QED
      BY <3>1 DEF Without, CleanInv, OrderInv
  <2> QED
    BY <2>1, <2>2 DEF OrderInv
<1>4. SizeInv'
  BY DEF SenderSame, CleanInv, SizeInv
<1> QED
  BY <1>3, <1>4

\* Nothing clean is pending: nothing clean is touched.
LEMMA NothingClean ==
  ASSUME CleanInv, ShapeType, ShapeType', NEW c \in 0..count, Without(c), SenderSame, OnlyPending,
         \A k \in 1..count : item[k] \notin clean
  PROVE  CleanInv'
<1>1. \A k \in 1..count' : k + c \in 1..count /\ item'[k] = item[k + c]
  BY DEF ShapeType, Without
<1>2. \A k \in 1..count' : item'[k] \notin clean'
  BY <1>1 DEF SenderSame
<1>3. \A k \in 1..count : item[k] <= n /\ item[k] \in Items
  BY DEF CleanInv, OrderInv, ShapeType
<1>4. clean \subseteq Items /\ clean \subseteq 1..n
  BY RouterAssumption DEF CleanInv, FateInv, ShapeType, Items
<1>5. FateInv'
  <2>1. ASSUME NEW i \in Items, i > n' PROVE fate'[i] = "none"
    <3>1. ~ \E k \in 1..count : item[k] = i
      BY <1>3, <2>1 DEF SenderSame, ShapeType, Items
    <3> QED
      BY <2>1, <3>1 DEF OnlyPending, SenderSame, CleanInv, FateInv
  <2>2. ASSUME NEW i \in clean
        PROVE IF \E k \in 1..count' : item'[k] = i THEN fate'[i] = "none"
              ELSE fate'[i] = "taken" /\ (i = n' => ~open')
    <3>1. ~ \E k \in 1..count : item[k] = i
      OBVIOUS
    <3>2. ~ \E k \in 1..count' : item'[k] = i
      BY <1>2 DEF SenderSame
    <3>3. fate'[i] = fate[i]
      BY <1>4, <3>1 DEF OnlyPending
    <3> QED
      BY <3>1, <3>2, <3>3 DEF SenderSame, CleanInv, FateInv
  <2> QED
    BY <1>4, <2>1, <2>2 DEF FateInv, SenderSame
<1>6. FrameInv' /\ LineInv'
  BY <1>2 DEF FrameInv, LineInv
<1> QED
  BY <1>5, <1>6, WithoutOrder DEF CleanInv

\* What is kept stays as it is.
LEMMA KeptClean ==
  ASSUME CleanInv, ShapeType, ShapeType', Without(0), SenderSame,
         UNCHANGED <<fate, mode>>, quiet' => quiet /\ buf' = buf
  PROVE  CleanInv'
<1>1. count' = count /\ count \in Nat
  BY DEF ShapeType, Without
<1>2. \A k \in 1..count : item'[k] = item[k] /\ pos'[k] = pos[k] /\ kind'[k] = kind[k]
  BY <1>1 DEF Without
<1>3. item' = item /\ pos' = pos /\ kind' = kind
  <2>1. /\ item = [k \in 1..count |-> item[k]] /\ item' = [k \in 1..count |-> item'[k]]
        /\ pos = [k \in 1..count |-> pos[k]] /\ pos' = [k \in 1..count |-> pos'[k]]
        /\ kind = [k \in 1..count |-> kind[k]] /\ kind' = [k \in 1..count |-> kind'[k]]
    BY <1>1 DEF ShapeType
  <2> QED
    BY <1>2, <2>1
<1>4. OrderInv' /\ SizeInv'
  BY <1>1, <1>3 DEF SenderSame, CleanInv, OrderInv, SizeInv
<1>5. FateInv'
  BY <1>1, <1>3 DEF SenderSame, CleanInv, FateInv
<1>6. FrameInv'
  BY <1>1, <1>3 DEF SenderSame, CleanInv, FrameInv
<1>7. LineInv'
  BY <1>1, <1>3 DEF SenderSame, CleanInv, LineInv
<1> QED
  BY <1>4, <1>5, <1>6, <1>7 DEF CleanInv

\* A clean frame that is pending first is there from its first byte.
LEMMA FirstFrame ==
  ASSUME CleanInv, ShapeType, count >= 1, item[1] \in clean \cap frames
  PROVE  /\ pos[1] = 1 /\ kind[1] \in LegacyKinds
         /\ size[item[1]] <= FrameLength
         /\ \A q \in 1..size[item[1]] : q \in 1..count /\ item[q] = item[1] /\ pos[q] = q
         /\ count > size[item[1]] => size[item[1]] = FrameLength /\ (item[1] = n => ~open)
<1> USE RouterAssumption
<1> DEFINE i == item[1]
<1>1. /\ i \in 1..n /\ count \in Nat /\ n \in Nat /\ 1 \in 1..count
      /\ size[i] \in Nat \ {0} /\ pos[1] \in Nat \ {0}
  <2>1. count \in Nat /\ n \in Nat /\ i \in 1..n
    BY DEF ShapeType
  <2>2. 1 \in 1..count
    BY <2>1
  <2> QED
    BY <2>1, <2>2 DEF ShapeType
<1>2. /\ \A q \in 1..size[i] : /\ 1 - pos[1] + q \in 1..count
                               /\ item[1 - pos[1] + q] = i /\ pos[1 - pos[1] + q] = q
      /\ pos[1] = 1 => kind[1] \in LegacyKinds
  BY <1>1 DEF CleanInv, FrameInv
<1>3. pos[1] = 1
  <2>1. 1 \in 1..size[i]
    BY <1>1
  <2>2. 1 - pos[1] + 1 \in 1..count
    BY <1>2, <2>1
  <2> QED
    BY <1>1, <2>2
<1>4. \A q \in 1..size[i] : q \in 1..count /\ item[q] = i /\ pos[q] = q
  <2> SUFFICES ASSUME NEW q \in 1..size[i] PROVE q \in 1..count /\ item[q] = i /\ pos[q] = q
    OBVIOUS
  <2>1. 1 - pos[1] + q = q
    BY <1>1, <1>3
  <2> QED
    BY <1>2, <2>1
<1>5. IF i = n /\ open THEN size[i] < FrameLength ELSE size[i] = FrameLength
  BY DEF CleanInv, SizeInv
<1>6. ASSUME count > size[i] PROVE ~(i = n /\ open)
  <2> DEFINE l == size[i]
  <2>1. l \in 1..count /\ l + 1 \in 1..count /\ l < l + 1
    BY <1>1, <1>6
  <2>2. item[l] = i /\ pos[l] = l
    BY <1>1, <1>4
  <2>3. item[l] < item[l + 1] \/ (item[l] = item[l + 1] /\ pos[l] < pos[l + 1])
    BY <2>1 DEF CleanInv, OrderInv
  <2>4. /\ item[l + 1] <= n /\ pos[l + 1] <= size[item[l + 1]]
        /\ item[l + 1] \in Items /\ pos[l + 1] \in Nat
    BY <2>1 DEF CleanInv, OrderInv, ShapeType
  <2>5. item[l + 1] # i
    <3> SUFFICES ASSUME item[l + 1] = i PROVE FALSE
      OBVIOUS
    <3>1. l < pos[l + 1] /\ pos[l + 1] <= l
      BY <1>1, <2>2, <2>3, <2>4
    <3> QED
      BY <1>1, <2>4, <3>1
  <2>6. i < item[l + 1]
    BY <2>2, <2>3, <2>5
  <2> QED
    BY <1>1, <2>4, <2>6 DEF Items
<1>7. size[i] <= FrameLength
  BY <1>1, <1>5
<1> QED
  BY <1>2, <1>3, <1>4, <1>5, <1>6, <1>7

\* A frame that comes first and is clean is taken as it was sent.
LEMMA FrameClean ==
  ASSUME TypeInv, CleanInv, ShapeType, ShapeType', SenderSame, UNCHANGED sent,
         Len(Got) >= FrameLength, Without(FrameLength),
         Deliver(SubSeq(Got, 1, FrameLength)),
         item[1] \in clean \cap frames
  PROVE  CleanInv'
<1> USE RouterAssumption
<1> DEFINE i == item[1]
           frame == SubSeq(Got, 1, FrameLength)
<1>1. /\ FrameLength \in Nat /\ FrameLength >= 2 /\ count \in Nat /\ Len(Got) \in Nat
      /\ Len(Got) <= count /\ FrameLength <= count /\ n \in Nat /\ i \in 1..n /\ i \in Items
      /\ size[i] \in Nat \ {0}
  <2>1. Len(Got) \in Nat /\ Len(Got) <= count
    BY GotFacts DEF TypeInv
  <2>2. count \in Nat /\ n \in Nat /\ 1 \in 1..count
    BY <2>1 DEF ShapeType
  <2>3. i \in 1..n /\ i \in Items
    BY <2>2 DEF ShapeType
  <2> QED
    BY <2>1, <2>2, <2>3 DEF ShapeType
<1>2. /\ pos[1] = 1 /\ kind[1] \in LegacyKinds
      /\ size[i] <= FrameLength
      /\ \A q \in 1..size[i] : q \in 1..count /\ item[q] = i /\ pos[q] = q
      /\ count > size[i] => size[i] = FrameLength /\ (i = n => ~open)
  BY <1>1, FirstFrame
<1>3. size[i] = FrameLength
  BY <1>1, <1>2
<1>4. i = n => ~open
  <2>1. i = n /\ open => size[i] < FrameLength
    BY DEF CleanInv, SizeInv
  <2> QED
    BY <1>1, <1>3, <2>1
<1>5. \A q \in 1..FrameLength : q \in 1..count /\ item[q] = i /\ pos[q] = q
  BY <1>2, <1>3
<1>6. /\ Len(frame) = FrameLength /\ frame[1].kind \in LegacyKinds
      /\ \A q \in 1..FrameLength : frame[q].item = i /\ frame[q].pos = q
  <2>1. Got \in Seq(Byte)
    BY ReadFacts DEF TypeInv
  <2>2. Len(frame) = FrameLength /\ \A q \in 1..FrameLength : frame[q] = Got[q]
    BY <1>1, <2>1
  <2>3. \A q \in 1..FrameLength : Got[q].item = i /\ Got[q].pos = q
    BY <1>1, <1>5, GotFacts DEF TypeInv
  <2>4. Got[1].kind = kind[1]
    BY <1>1, GotFacts DEF TypeInv
  <2> HIDE DEF frame
  <2> QED
    BY <1>1, <1>2, <2>2, <2>3, <2>4
<1>7. ItemsIn(frame) = {i} /\ IsWhole(frame, i)
  <2>1. ItemsIn(frame) = {i}
    <3> HIDE DEF frame
    <3> QED
      BY <1>1, <1>6 DEF ItemsIn
  <2>2. sent[i].len = FrameLength
    BY <1>1, <1>3 DEF size
  <2>3. Complete(i)
    BY <1>1, <1>4 DEF Complete
  <2> HIDE DEF frame
  <2> QED
    BY <1>6, <2>1, <2>2, <2>3 DEF IsWhole
<1> HIDE DEF frame
<1>8. fate[i] = "none"
  <2>1. 1 \in 1..count
    BY <1>1
  <2> QED
    BY <2>1 DEF CleanInv, FateInv
<1>9. fate'[i] = "taken" /\ \A j \in Items : j # i => fate'[j] = fate[j]
  <2>1. Handle({frame})
    BY <1>6 DEF Deliver, frame
  <2> QED
    BY <1>1, <1>7, <1>8, <2>1 DEF Handle
\* No byte of the frame is left, and no other item has lost any.
<1>10. ASSUME NEW k \in 1..count, k > FrameLength PROVE item[k] # i
  <2>1. FrameLength \in 1..count /\ k \in Nat
    BY <1>1
  <2>2. item[FrameLength] = i /\ pos[FrameLength] = FrameLength
    BY <1>1, <1>5
  <2>3. item[FrameLength] < item[k] \/ pos[FrameLength] < pos[k]
    BY <1>10, <2>1 DEF CleanInv, OrderInv
  <2>4. item[k] \in Items /\ pos[k] \in Nat /\ pos[k] <= size[item[k]]
    BY DEF CleanInv, OrderInv, ShapeType
  <2> QED
    BY <1>1, <1>3, <2>2, <2>3, <2>4 DEF Items
<1>11. /\ count' = count - FrameLength
       /\ \A k \in 1..count' : /\ k + FrameLength \in 1..count /\ k + FrameLength > FrameLength
                               /\ item'[k] = item[k + FrameLength]
                               /\ pos'[k] = pos[k + FrameLength]
                               /\ kind'[k] = kind[k + FrameLength]
  BY <1>1 DEF Without
<1>12. \A j \in Items : (\E k \in 1..count' : item'[k] = j) <=>
                         (j # i /\ \E k \in 1..count : item[k] = j)
  <2> SUFFICES ASSUME NEW j \in Items
               PROVE (\E k \in 1..count' : item'[k] = j) <=>
                     (j # i /\ \E k \in 1..count : item[k] = j)
    OBVIOUS
  <2>1. ASSUME NEW k \in 1..count', item'[k] = j
        PROVE j # i /\ \E m \in 1..count : item[m] = j
    BY <1>10, <1>11, <2>1
  <2>2. ASSUME j # i, NEW k \in 1..count, item[k] = j
        PROVE \E m \in 1..count' : item'[m] = j
    <3>1. k > FrameLength
      BY <1>1, <1>5, <2>2
    <3>2. k - FrameLength \in 1..count' /\ (k - FrameLength) + FrameLength = k
      BY <1>1, <1>11, <3>1
    <3> QED
      BY <1>11, <2>2, <3>2
  <2> QED
    BY <2>1, <2>2
<1>13. OrderInv' /\ SizeInv'
  <2>1. FrameLength \in 0..count
    BY <1>1
  <2> QED
    BY <2>1, WithoutOrder
<1>14. FateInv'
  <2>1. clean \subseteq Items
    BY DEF CleanInv, FateInv, ShapeType, Items
  <2>2. \A j \in Items : j > n' => fate'[j] = "none"
    BY <1>1, <1>9 DEF CleanInv, FateInv, SenderSame
  <2>3. ASSUME NEW j \in clean
        PROVE IF \E k \in 1..count' : item'[k] = j THEN fate'[j] = "none"
              ELSE fate'[j] = "taken" /\ (j = n' => ~open')
    <3>1. CASE j = i
      BY <1>1, <1>4, <1>9, <1>12, <3>1 DEF SenderSame
    <3>2. CASE j # i
      <4>1. fate'[j] = fate[j]
        BY <1>9, <2>1, <3>2
      <4>2. (\E k \in 1..count' : item'[k] = j) <=> (\E k \in 1..count : item[k] = j)
        BY <1>12, <2>1, <3>2
      <4> QED
        BY <4>1, <4>2 DEF SenderSame, CleanInv, FateInv
    <3> QED
      BY <3>1, <3>2
  <2> QED
    BY <2>2, <2>3 DEF FateInv, SenderSame, CleanInv
<1>15. FrameInv'
  <2> SUFFICES ASSUME NEW k \in 1..count', item'[k] \in clean' \cap frames'
               PROVE  /\ \A j \in 1..k : item'[j] \in clean' \cap frames'
                      /\ \A q \in 1..size'[item'[k]] :
                           /\ k - pos'[k] + q \in 1..count'
                           /\ item'[k - pos'[k] + q] = item'[k] /\ pos'[k - pos'[k] + q] = q
                      /\ pos'[k] = 1 => kind'[k] \in LegacyKinds
    BY DEF FrameInv
  <2> DEFINE m == k + FrameLength
  <2>1. /\ m \in 1..count /\ m > FrameLength /\ item'[k] = item[m] /\ pos'[k] = pos[m]
        /\ kind'[k] = kind[m] /\ item[m] \in clean \cap frames /\ item[m] # i
    BY <1>10, <1>11 DEF SenderSame
  <2>2. /\ \A j \in 1..m : item[j] \in clean \cap frames
        /\ \A q \in 1..size[item[m]] :
             /\ m - pos[m] + q \in 1..count
             /\ item[m - pos[m] + q] = item[m] /\ pos[m - pos[m] + q] = q
        /\ pos[m] = 1 => kind[m] \in LegacyKinds
    BY <2>1 DEF CleanInv, FrameInv
  <2>3. \A j \in 1..k : item'[j] \in clean' \cap frames'
    <3> SUFFICES ASSUME NEW j \in 1..k PROVE item'[j] \in clean' \cap frames'
      OBVIOUS
    <3>1. j \in 1..count' /\ j + FrameLength \in 1..m
      BY <1>1, <1>11
    <3> QED
      BY <1>11, <2>2, <3>1 DEF SenderSame
  <2>4. ASSUME NEW q \in 1..size'[item'[k]]
        PROVE  /\ k - pos'[k] + q \in 1..count'
               /\ item'[k - pos'[k] + q] = item'[k] /\ pos'[k - pos'[k] + q] = q
    <3> DEFINE at == m - pos[m] + q
    <3>1. q \in 1..size[item[m]] /\ q \in Int
      BY <2>1 DEF SenderSame
    <3>2. at \in 1..count /\ item[at] = item[m] /\ pos[at] = q
      BY <2>2, <3>1
    <3>3. at > FrameLength
      BY <1>1, <1>5, <2>1, <3>2
    <3>4. pos[m] \in Int /\ k \in Int
      BY <2>1 DEF ShapeType
    <3>5. at = (k - pos'[k] + q) + FrameLength
      BY <1>1, <2>1, <3>1, <3>4
    <3>6. k - pos'[k] + q \in 1..count'
      <4>1. k - pos'[k] + q = at - FrameLength
        BY <1>1, <2>1, <3>1, <3>4
      <4>2. at - FrameLength \in 1..count'
        <5> HIDE DEF at
        <5> QED
          BY <1>1, <1>11, <3>2, <3>3
      <4> QED
        BY <4>1, <4>2
    <3> HIDE DEF at
    <3> QED
      BY <1>11, <2>1, <3>2, <3>5, <3>6
  <2> QED
    BY <2>1, <2>2, <2>3, <2>4
<1>16. LineInv'
  <2> SUFFICES ASSUME NEW k \in 1..count', item'[k] \in clean' \ frames' PROVE FALSE
    BY DEF LineInv
  <2>1. k + FrameLength \in 1..count /\ item[k + FrameLength] \in clean \ frames
    BY <1>11 DEF SenderSame
  <2>2. item[1] = n /\ item[k + FrameLength] = n
    BY <1>1, <2>1 DEF CleanInv, LineInv
  <2> QED
    BY <2>1, <2>2
<1> QED
  BY <1>13, <1>14, <1>15, <1>16 DEF CleanInv

\* A clean line is taken as it was sent, as one command.
LEMMA LineClean ==
  ASSUME TypeInv, CleanInv, ShapeType, ShapeType', SenderSame,
         Got # << >>, item[1] \in clean \ frames, Without(Len(Got)), OnlyPending,
         NEW silent \in BOOLEAN, silent => quiet /\ K = 0,
         HasLineEnding(Got) \/ silent, Handle(Commands(Got, silent))
  PROVE  CleanInv'
<1> USE RouterAssumption
<1>1. /\ Got \in Seq(Byte) /\ Len(Got) \in Nat /\ Len(Got) >= 1
      /\ count \in Nat /\ Len(Got) <= count /\ 1 \in 1..count
  <2>1. Got \in Seq(Byte) /\ Len(Got) \in Nat /\ count \in Nat /\ Len(Got) <= count
    BY ReadFacts, GotFacts DEF TypeInv, ShapeType
  <2>2. Len(Got) >= 1
    BY <2>1
  <2> QED
    BY <2>1, <2>2
<1>2. /\ item[1] = n /\ count = size[n] /\ count < BufferSize
      /\ \A j \in 1..count : /\ item[j] = n /\ pos[j] = j /\ kind[j] \in {"char", "end"}
                             /\ kind[j] = "end" => j = count /\ ~open
      /\ kind[1] = "char"
      /\ open /\ quiet => buf = << >>
  BY <1>1 DEF CleanInv, LineInv
<1>3. /\ Len(Got) = count /\ K = Len(rx)
      /\ \A k \in 1..count : /\ Got[k] \in Byte /\ Got[k].item = n /\ Got[k].pos = k
                             /\ Got[k].kind = kind[k]
  BY <1>2, GotFacts DEF TypeInv
\* It is complete: it has its ending, or the sender has left it.
<1>4. ~open
  <2>1. CASE HasLineEnding(Got)
    BY <1>2, <1>3, <2>1 DEF HasLineEnding
  <2>2. CASE silent /\ open
    <3>1. buf = << >> /\ K = 0
      BY <1>2, <2>2
    <3>2. Len(Got) = Len(buf) + K
      BY ReadFacts DEF TypeInv
    <3> QED
      BY <1>1, <3>1, <3>2
  <2> QED
    BY <2>1, <2>2
<1> DEFINE line == SubSeq(Got, 1, count)
<1>5. line \in Commands(Got, silent)
  <2> DEFINE span == <<1, count>>
             spans == {r \in (1..Len(Got)) \X (1..Len(Got)) :
                         /\ r[1] = 1 \/ Got[r[1] - 1].kind = "end"
                         /\ Got[r[2]].kind = "end" \/ (silent /\ r[2] = Len(Got))
                         /\ \A k \in r[1]..(r[2] - 1) : Got[k].kind # "end"
                         /\ \E k \in r[1]..r[2] : Got[k].kind = "char"}
  <2>1. Got[count].kind = "end" \/ (silent /\ count = Len(Got))
    <3>1. CASE HasLineEnding(Got)
      BY <1>2, <1>3, <3>1 DEF HasLineEnding
    <3> QED
      BY <1>3, <3>1
  <2>2. \A k \in 1..(count - 1) : Got[k].kind # "end"
    BY <1>1, <1>2, <1>3
  <2>3. Got[1].kind = "char" /\ 1 \in 1..count
    BY <1>1, <1>2, <1>3
  <2>4. span \in spans
    BY <1>1, <1>3, <2>1, <2>2, <2>3
  <2>5. Commands(Got, silent) = {SubSeq(Got, r[1], r[2]) : r \in spans}
    BY DEF Commands
  <2> QED
    BY <2>4, <2>5
<1>6. IsWhole(line, n) /\ n \in ItemsIn(line)
  <2>1. Len(line) = count /\ \A k \in 1..count : line[k] = Got[k]
    BY <1>1, <1>3
  <2>2. Complete(n) /\ n \in 1..n
    <3>1. n \in Items /\ n \in Nat
      BY <1>1, <1>2 DEF ShapeType
    <3>2. n \in 1..n
      BY <3>1 DEF Items
    <3> QED
      BY <1>4, <3>2 DEF Complete
  <2>3. sent[n].len = count
    BY <1>2, <2>2 DEF size
  <2> HIDE DEF line
  <2> QED
    BY <1>1, <1>3, <2>1, <2>2, <2>3 DEF IsWhole, ItemsIn
<1>7. n \in Items /\ n \in 1..n /\ fate[n] = "none"
  <2>1. n \in Items /\ n \in 1..n
    <3>1. n \in Items /\ n \in Nat
      BY <1>1, <1>2 DEF ShapeType
    <3> QED
      BY <3>1 DEF Items
  <2> QED
    BY <1>1, <1>2, <2>1 DEF CleanInv, FateInv
<1> HIDE DEF line
<1>8. fate'[n] = "taken"
  BY <1>5, <1>6, <1>7 DEF Handle
<1>9. count' = 0
  BY <1>1, <1>3 DEF Without
<1>10. OrderInv' /\ SizeInv'
  <2>1. Len(Got) \in 0..count
    BY <1>1
  <2> QED
    BY <2>1, WithoutOrder
<1>11. FateInv'
  <2>1. clean \subseteq Items
    BY DEF CleanInv, FateInv, ShapeType, Items
  <2>2. \A k \in 1..count : item[k] = n
    BY <1>2
  <2>3. \A j \in Items : j > n' => fate'[j] = "none"
    <3> SUFFICES ASSUME NEW j \in Items, j > n PROVE fate'[j] = "none"
      BY DEF SenderSame
    <3>1. j # n
      BY <1>7 DEF ShapeType, Items
    <3>2. fate'[j] = fate[j]
      BY <2>2, <3>1 DEF OnlyPending
    <3> QED
      BY <3>2 DEF CleanInv, FateInv
  <2>4. ASSUME NEW j \in clean PROVE fate'[j] = "taken" /\ (j = n' => ~open')
    <3>1. CASE j = n
      BY <1>4, <1>8, <3>1 DEF SenderSame
    <3>2. CASE j # n
      <4>1. fate'[j] = fate[j] /\ ~ \E k \in 1..count : item[k] = j
        BY <2>1, <2>2, <3>2 DEF OnlyPending
      <4> QED
        BY <3>2, <4>1 DEF SenderSame, CleanInv, FateInv
    <3> QED
      BY <3>1, <3>2
  <2>5. ~ \E k \in 1..count' : TRUE
    BY <1>9
  <2> QED
    BY <2>3, <2>4, <2>5 DEF FateInv, SenderSame, CleanInv
<1>12. FrameInv' /\ LineInv'
  BY <1>9 DEF FrameInv, LineInv
<1> QED
  BY <1>10, <1>11, <1>12 DEF CleanInv

ShapeNext == ShapeType /\ ShapeType'

LEMMA ShapeBoth == TypeInv /\ TypeInv' => ShapeNext
<1>1. TypeInv => ShapeType
  BY ShapeFacts DEF TypeInv
<1> QED
  BY <1>1, PTL DEF ShapeNext

LEMMA SenderUnchanged ==
  ASSUME UNCHANGED <<senderVars, clean>>
  PROVE  SenderSame /\ sent' = sent
  BY DEF senderVars, SenderSame, n, size, frames, IsFrame

LEMMA CheckClean ==
  ASSUME TypeInv, TypeInv', CleanInv, Check
  PROVE  CleanInv'
<1> USE RouterAssumption
<1> DEFINE silent == quiet /\ K = 0
<1>1. /\ rx' = SubSeq(rx, K + 1, Len(rx)) /\ quiet' = silent /\ ProcessBuffer(Got, silent)
      /\ SenderSame /\ sent' = sent
  BY CheckReads, SenderUnchanged
<1>2. /\ ShapeType /\ ShapeType' /\ TypeOK /\ TypeOK'
  BY ShapeBoth DEF ShapeNext, TypeInv
<1>3. /\ Got \in Seq(Byte) /\ Len(Got) \in Nat /\ Len(Got) <= count /\ count \in Nat
  BY <1>2, ReadFacts, GotFacts DEF ShapeType
<1>4. silent \in BOOLEAN /\ (silent => quiet /\ K = 0)
  BY <1>2, Zenon DEF TypeOK
<1>5. Keeps(Got) \/ Frames(Got) \/ Drops(Got) \/ RunsCommands(Got, silent)
  BY <1>1, <1>3, RouteCases
<1> HIDE DEF silent
\* What the first pending item is.
<1>6. count >= 1 => 1 \in 1..count /\ item[1] \in Items
  BY <1>2 DEF ShapeType
<1>7. count >= 1 /\ item[1] \notin clean => \A k \in 1..count : item[k] \notin clean
  <2> SUFFICES ASSUME count >= 1, NEW k \in 1..count, item[k] \in clean PROVE item[1] \in clean
    OBVIOUS
  <2>1. CASE item[k] \in frames
    BY <1>3, <2>1 DEF CleanInv, FrameInv
  <2>2. CASE item[k] \notin frames
    BY <1>3, <2>2 DEF CleanInv, LineInv
  <2> QED
    BY <2>1, <2>2
<1>8. count >= 1 /\ item[1] \in clean \cap frames => pos[1] = 1 /\ kind[1] \in LegacyKinds
  BY <1>2, FirstFrame
<1>9. count >= 1 /\ item[1] \in clean \ frames =>
        /\ mode = "detecting" /\ kind[1] = "char"
        /\ \A j \in 1..count : kind[j] \in {"char", "end"}
  BY <1>6 DEF CleanInv, LineInv
<1>10. Len(Got) >= 1 => Got[1].kind = kind[1] /\ count >= 1
  BY <1>2, <1>3, GotFacts
<1>11. CASE Keeps(Got)
  <2>1. buf' = Got /\ UNCHANGED <<mode, fate>>
    BY <1>11 DEF Keeps, Keep
  <2>2. Without(0)
    <3>1. 0 \in 0..Len(Got) /\ Len(buf') = Len(Got) - 0 /\ \A j \in 1..Len(buf') : buf'[j] = Got[0 + j]
      BY <1>3, <2>1
    <3> QED
      BY <1>1, <1>2, <3>1, WithoutFacts
  <2>3. quiet' => quiet /\ buf' = buf
    <3> SUFFICES ASSUME quiet' PROVE quiet /\ buf' = buf
      OBVIOUS
    <3>1. quiet /\ K = 0
      BY <1>1, <1>4
    <3>2. Got = buf
      <4>1. buf \in Seq(Byte) /\ rx \in Seq(Byte)
        BY <1>2 DEF TypeOK
      <4>2. SubSeq(rx, 1, K) = << >>
        BY <3>1, <4>1
      <4> QED
        BY <4>1, <4>2, ConcatEmptySeq DEF Got
    <3> QED
      BY <2>1, <3>1, <3>2
  <2> QED
    BY <1>1, <1>2, <2>1, <2>2, <2>3, KeptClean
<1>12. CASE Frames(Got)
  <2>1. Len(Got) >= FrameLength /\ ~(Len(Got) < FrameLength) /\ Len(Got) >= 1
    BY <1>3, <1>12 DEF Frames
  <2>2. /\ Deliver(SubSeq(Got, 1, FrameLength))
        /\ buf' = SubSeq(Got, FrameLength + 1, Len(Got))
    BY <1>12, <2>1 DEF Frames, RouteToLegacy
  <2>3. Without(FrameLength) /\ FrameLength \in 0..count
    <3>1. FrameLength \in 0..Len(Got) /\ FrameLength \in 0..count
      BY <1>3, <2>1
    <3>2. /\ Len(buf') = Len(Got) - FrameLength
          /\ \A j \in 1..Len(buf') : buf'[j] = Got[FrameLength + j]
      BY <1>3, <2>1, <2>2
    <3> QED
      BY <1>1, <1>2, <3>1, <3>2, WithoutFacts
  <2>4. CASE item[1] \in clean \cap frames
    BY <1>1, <1>2, <2>1, <2>2, <2>3, <2>4, FrameClean
  <2>5. ~(item[1] \in clean \ frames)
    BY <1>9, <1>10, <1>12, <2>1 DEF Frames, LegacyKinds
  <2>6. CASE item[1] \notin clean
    <3>1. OnlyPending
      <4>1. fate' = fate \/ Handle({SubSeq(Got, 1, FrameLength)}) \/ Handle({})
        BY <2>2 DEF Deliver
      <4>2. CASE Handle({SubSeq(Got, 1, FrameLength)})
        <5>1. \A s \in {SubSeq(Got, 1, FrameLength)} :
                \E a, z \in Nat : 1 <= a /\ z <= Len(Got) /\ s = SubSeq(Got, a, z)
          BY <1>3, <2>1
        <5> HIDE DEF Handle
        <5> QED
          BY <1>2, <4>2, <5>1, HandleFacts DEF OnlyPending
      <4>3. CASE Handle({})
        BY <4>3 DEF Handle, OnlyPending
      <4> QED
        BY <4>1, <4>2, <4>3 DEF OnlyPending
    <3> QED
      BY <1>1, <1>2, <1>7, <1>10, <2>1, <2>3, <2>6, <3>1, NothingClean
  <2> QED
    BY <2>4, <2>5, <2>6
<1>13. CASE Drops(Got)
  <2>1. /\ Len(Got) >= 1 /\ buf' = << >> /\ fate' = fate
        /\ Got[1].kind \notin LegacyKinds /\ ~IsText(Got)
    BY <1>3, <1>13 DEF Drops, ClearBuffer
  <2>2. Without(Len(Got)) /\ Len(Got) \in 0..count
    BY <1>1, <1>2, <1>3, <2>1, WithoutFacts
  <2>3. item[1] \notin clean
    <3>1. ~(item[1] \in clean \cap frames)
      BY <1>8, <1>10, <2>1
    <3>2. ~(item[1] \in clean \ frames)
      <4>1. PICK k \in 1..Len(Got) : Got[k].kind \in {"three", "raw"}
        BY <2>1 DEF IsText
      <4>2. kind[k] \in {"three", "raw"} /\ k \in 1..count
        BY <1>2, <4>1, GotFacts
      <4> QED
        BY <1>9, <1>10, <2>1, <4>2
    <3> QED
      BY <3>1, <3>2
  <2> QED
    BY <1>1, <1>2, <1>7, <1>10, <2>1, <2>2, <2>3, NothingClean DEF OnlyPending
<1>14. CASE RunsCommands(Got, silent)
  <2>1. /\ Len(Got) >= 1 /\ Got # << >> /\ buf' = << >> /\ Handle(Commands(Got, silent))
        /\ Got[1].kind \notin LegacyKinds /\ (HasLineEnding(Got) \/ silent)
    BY <1>3, <1>14 DEF RunsCommands, RouteToDevtools, ClearBuffer
  <2>2. Without(Len(Got)) /\ Len(Got) \in 0..count
    BY <1>1, <1>2, <1>3, <2>1, WithoutFacts
  <2>3. OnlyPending
    <3>1. \A s \in Commands(Got, silent) :
            \E a, z \in Nat : 1 <= a /\ z <= Len(Got) /\ s = SubSeq(Got, a, z)
      <4> SUFFICES ASSUME NEW s \in Commands(Got, silent)
                   PROVE \E a, z \in Nat : 1 <= a /\ z <= Len(Got) /\ s = SubSeq(Got, a, z)
        OBVIOUS
      <4>1. PICK r \in (1..Len(Got)) \X (1..Len(Got)) : s = SubSeq(Got, r[1], r[2])
        BY Zenon DEF Commands
      <4>2. r[1] \in 1..Len(Got) /\ r[2] \in 1..Len(Got)
        OBVIOUS
      <4>3. r[1] \in Nat /\ r[2] \in Nat /\ 1 <= r[1] /\ r[2] <= Len(Got)
        BY <1>3, <4>2
      <4> QED
        BY <4>1, <4>3
    <3> QED
      BY <1>2, <2>1, <3>1, HandleFacts DEF OnlyPending
  <2>4. ~(item[1] \in clean \cap frames)
    BY <1>8, <1>10, <2>1
  <2>5. CASE item[1] \in clean \ frames
    BY <1>1, <1>2, <1>4, <2>1, <2>2, <2>3, <2>5, LineClean
  <2>6. CASE item[1] \notin clean
    BY <1>1, <1>2, <1>7, <1>10, <2>1, <2>2, <2>3, <2>6, NothingClean
  <2> QED
    BY <2>4, <2>5, <2>6
<1> QED
  BY <1>5, <1>11, <1>12, <1>13, <1>14

-----------------------------------------------------------------------------
\* The sender leaves a line, or a second passes: an open line is clean no longer.
LEMMA QuietClean ==
  ASSUME CleanInv, ShapeType, SamePending, UNCHANGED <<sent, mode, buf, fate>>,
         \/ open' = FALSE /\ clean' = clean /\ quiet' = quiet /\ n \notin frames
         \/ open' = open /\ clean' = IF open /\ n \notin frames THEN clean \ {n} ELSE clean
  PROVE  CleanInv'
<1>1. n' = n /\ size' = size /\ frames' = frames
  BY DEF n, size, frames, IsFrame
<1>2. /\ clean' \subseteq clean /\ (open' => open)
      /\ \A i \in clean : i \in frames => i \in clean'
      /\ open' # open => n \notin frames
      /\ quiet' = quiet \/ n \in frames \/ n \notin clean' \/ ~open'
  OBVIOUS
<1>3. OrderInv'
  BY <1>1 DEF SamePending, CleanInv, OrderInv
<1>4. SizeInv'
  BY <1>1, <1>2 DEF CleanInv, SizeInv
<1>5. FateInv'
  BY <1>1, <1>2 DEF SamePending, CleanInv, FateInv
<1>6. FrameInv'
  <2> SUFFICES ASSUME NEW k \in 1..count, item[k] \in clean' \cap frames
               PROVE  /\ \A j \in 1..k : item[j] \in clean' \cap frames
                      /\ \A q \in 1..size[item[k]] :
                           /\ k - pos[k] + q \in 1..count
                           /\ item[k - pos[k] + q] = item[k] /\ pos[k - pos[k] + q] = q
                      /\ pos[k] = 1 => kind[k] \in LegacyKinds
    BY <1>1 DEF SamePending, FrameInv
  <2> QED
    BY <1>2 DEF CleanInv, FrameInv
<1>7. LineInv'
  <2> SUFFICES ASSUME NEW k \in 1..count, item[k] \in clean' \ frames
               PROVE  /\ item[k] = n /\ count = size[n] /\ count < BufferSize /\ mode = "detecting"
                      /\ \A j \in 1..count :
                           /\ item[j] = n /\ pos[j] = j /\ kind[j] \in {"char", "end"}
                           /\ kind[j] = "end" => j = count /\ ~open'
                      /\ kind[1] = "char"
                      /\ open' /\ quiet' => buf = << >>
    BY <1>1 DEF SamePending, LineInv
  <2>1. /\ item[k] = n /\ count = size[n] /\ count < BufferSize /\ mode = "detecting"
        /\ \A j \in 1..count :
             /\ item[j] = n /\ pos[j] = j /\ kind[j] \in {"char", "end"}
             /\ kind[j] = "end" => j = count /\ ~open
        /\ kind[1] = "char"
        /\ open /\ quiet => buf = << >>
    BY <1>2 DEF CleanInv, LineInv
  <2> QED
    BY <1>2, <2>1
<1> QED
  BY <1>3, <1>4, <1>5, <1>6, <1>7 DEF CleanInv

\* Framing: a clean item is handled as it was sent, whatever else is on the line.
THEOREM FramingHolds == Spec => []CleanItemsTaken
<1> USE RouterAssumption
<1>1. Init => CleanInv
  <2> SUFFICES ASSUME Init PROVE CleanInv
    OBVIOUS
  <2>1. n = 0 /\ count = 0 /\ clean = {} /\ ~open
    BY DEF Init, n, count, Pending
  <2>2. frames = {}
    BY <2>1 DEF frames
  <2> QED
    BY <2>1, <2>2 DEF Init, CleanInv, OrderInv, SizeInv, FateInv, FrameInv, LineInv
<1>2. CleanInv /\ TypeInv /\ TypeInv' /\ [Next]_vars => CleanInv'
  <2> SUFFICES ASSUME CleanInv, TypeInv, TypeInv', [Next]_vars PROVE CleanInv'
    OBVIOUS
  <2>0. ShapeType /\ ShapeType'
    BY ShapeBoth DEF ShapeNext
  <2>1. CASE BeginFrame
    <3>1. PICK which \in LegacyKinds : BeginItem("frame", which)
      BY <2>1 DEF BeginFrame
    <3> QED
      BY <2>0, <3>1, BeginItemClean DEF LegacyKinds, Kinds
  <2>2. CASE BeginLine
    <3>1. PICK which \in {"char", "eight"} : BeginItem("line", which)
      BY <2>2 DEF BeginLine
    <3> QED
      BY <2>0, <3>1, BeginItemClean DEF Kinds
  <2>3. ASSUME open PROVE n \in 1..n /\ size[n] = sent[n].len /\ (n \in frames <=> IsFrame(n))
    BY <2>0, <2>3 DEF TypeInv, OpenInv, ShapeType, size, frames
  <2>4. CASE SendFrameByte
    <3>1. PICK which \in FrameKinds : SendByte(which)
      BY <2>4 DEF SendFrameByte
    <3>2. open /\ IsFrame(n) /\ open' = (sent[n].len + 1 < FrameLength)
      BY <2>4 DEF SendFrameByte
    <3>3. which \in Kinds /\ n \in frames /\ open' = (size[n] + 1 < FrameLength)
      BY <2>3, <3>2
    <3> QED
      BY <2>0, <3>1, <3>2, <3>3, SendByteClean
  <2>5. CASE SendLineByte
    <3>1. open /\ ~IsFrame(n)
      BY <2>5 DEF SendLineByte
    <3>2. n \notin frames
      BY <2>3, <3>1
    <3>3. \/ open' = TRUE /\ SendByte("char")
          \/ open' = FALSE /\ SendByte("end")
      BY <2>5 DEF SendLineByte
    <3>4. "char" \in Kinds /\ "end" \in Kinds
      BY DEF Kinds
    <3>5. CASE open' = TRUE /\ SendByte("char")
      BY <2>0, <3>1, <3>2, <3>4, <3>5, SendByteClean
    <3>6. CASE open' = FALSE /\ SendByte("end")
      BY <2>0, <3>1, <3>2, <3>4, <3>6, SendByteClean
    <3> QED
      BY <3>3, <3>5, <3>6
  <2>6. CASE LeaveLine
    <3>1. /\ UNCHANGED <<sent, mode, buf, fate>> /\ UNCHANGED <<buf, rx>>
          /\ open' = FALSE /\ clean' = clean /\ quiet' = quiet /\ open /\ ~IsFrame(n)
      BY <2>6 DEF LeaveLine, routerVars
    <3>2. n \notin frames /\ SamePending
      BY <2>3, <3>1, SameFacts
    <3> QED
      BY <2>0, <3>1, <3>2, QuietClean
  <2>7. CASE Quiet
    <3>1. /\ UNCHANGED <<sent, mode, buf, fate>> /\ UNCHANGED <<buf, rx>> /\ open' = open
          /\ clean' = IF open /\ ~IsFrame(n) THEN clean \ {n} ELSE clean
      BY <2>7 DEF Quiet, routerVars, senderVars
    <3>2. clean' = (IF open /\ n \notin frames THEN clean \ {n} ELSE clean) /\ SamePending
      BY <2>3, <3>1, SameFacts
    <3> QED
      BY <2>0, <3>1, <3>2, QuietClean
  <2>8. CASE Check
    BY <2>8, CheckClean
  <2>9. CASE Process \/ UNCHANGED vars
    <3>1. UNCHANGED <<senderVars, rx, buf, mode, quiet, fate, clean>>
      BY <2>9 DEF Process, vars, senderVars, routerVars
    <3>2. SamePending /\ SenderSame
      BY <3>1, SameFacts, SenderUnchanged
    <3> QED
      BY <3>1, <3>2 DEF SamePending, SenderSame, CleanInv, OrderInv, SizeInv, FateInv, FrameInv,
         LineInv
  <2> QED
    BY <2>1, <2>2, <2>4, <2>5, <2>6, <2>7, <2>8, <2>9 DEF Next
<1>3. TypeInv /\ CleanInv => CleanItemsTaken
  <2> SUFFICES ASSUME TypeInv, CleanInv, NEW i \in clean
               PROVE fate[i] # "torn" /\ (Complete(i) /\ i \notin PendingItems => fate[i] = "taken")
    BY DEF CleanItemsTaken
  <2>1. IF i \in PendingItems THEN fate[i] = "none" ELSE fate[i] = "taken"
    BY PendingIsBoth DEF TypeInv, CleanInv, FateInv
  <2> QED
    BY <2>1
<1> QED
  BY <1>1, <1>2, <1>3, TypeInvariant, PTL DEF Spec
=============================================================================
