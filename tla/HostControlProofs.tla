-------------------------- MODULE HostControlProofs --------------------------
(***************************************************************************)
(* Proofs about HostControl, for any number of requests and replugs.       *)
(***************************************************************************)
EXTENDS HostControl, SequenceTheorems, TLAPS

\* control_setup has the newest request, and what the mouse takes for another's
\* SETUP packet is one of those that share it.
MixInv ==
  \A i \in 1..Len(queue) :
    /\ queue[i].id = control_setup \/ {queue[i].id, control_setup} \subseteq shared
    /\ queue[i].setup \in {None, queue[i].id} \/ {queue[i].id, queue[i].setup} \subseteq shared

\* A transfer that shares control_setup and control_buffer with none is alone in
\* the queue, and the buffer is its own.
UnsharedInv ==
  \A i \in 1..Len(queue) :
    queue[i].id \notin shared =>
      /\ Len(queue) = 1
      /\ ~queue[i].in => control_buffer = queue[i].id

\* A call that shares them with none: until it is queued nothing else is, then
\* it alone, and its completion leaves the queue empty and its data in the buffer.
CallInv ==
  /\ pc \in Unqueued \cup {"wait", "return"} => control_setup = req.id
  /\ pc \in Unqueued => \A i \in 1..Len(queue) : queue[i].id \in shared
  /\ req.id \notin shared /\ pc \in Unqueued => queue = << >>
  /\ req.id \notin shared /\ pc \in {"copy", "queue"} => ~control_complete
  /\ req.id \notin shared /\ pc \in {"queue", "wait", "return"} /\ ~req.in =>
       control_buffer = req.id
  /\ req.id \notin shared /\ pc \in {"wait", "return"} =>
       /\ control_complete => queue = << >>
       /\ control_complete /\ control_success /\ req.in => control_buffer = req.id
       /\ \A i \in 1..Len(queue) : queue[i].id = req.id /\ queue[i].in = req.in
  /\ pc = "return" => control_complete

\* Requests are numbered upwards, and queued in their order.
OrderInv ==
  /\ pc # "idle" => req.id # None
  /\ \A i \in 1..Len(queue) : queue[i].id <= req.id
  /\ pc \in {"prepare"} \cup Unqueued => \A i \in 1..Len(queue) : queue[i].id < req.id
  /\ \A i, j \in 1..Len(queue) : i < j => queue[i].id < queue[j].id

\* The mouse has carried out none that is queued or still to come, and the one
\* whose success control() has noted, once; but for those that are shared.
ServedInv ==
  /\ \A i \in 1..Len(queue) : queue[i].id \notin shared => served[queue[i].id] = 0
  /\ \A r \in Requests \ shared :
       r > req.id \/ (r = req.id /\ pc \in {"prepare"} \cup Unqueued) => served[r] = 0
  /\ req.id \notin shared /\ pc \in {"wait", "return"} /\ control_complete /\ control_success =>
       served[req.id] = 1

\* The conjunction that every step preserves.
Inv == TypeOK /\ MixInv /\ UnsharedInv /\ CallInv /\ OrderInv /\ ServedInv
       /\ AnswerIsOwnUnlessShared /\ DataIsOwnUnlessShared

\* What the steps below use of the queue's type.
LEMMA QueueFacts ==
  ASSUME TypeOK
  PROVE  /\ Len(queue) \in Nat
         /\ queue = << >> <=> Len(queue) = 0
         /\ \A i \in 1..Len(queue) : queue[i] \in Transfer
         /\ queue # << >> => Head(queue) = queue[1]
  BY LenProperties, ElementOfSeq, EmptySeq DEF TypeOK

\* control_setup, control_buffer and the flags agree with what is queued, whatever
\* the mouse and the interrupt do.
THEOREM ControlInvariant == Spec => []Inv
<1> USE ControlAssumption DEF Requests, None, Unqueued
<1>1. Init => Inv
  <2> SUFFICES ASSUME Init PROVE Inv
    OBVIOUS
  <2>1. TypeOK
    <3>1. queue \in Seq(Transfer) /\ 0 \in 0..MaxRequests /\ 0 \in 0..MaxPlugs
      BY EmptySeq DEF Init
    <3>2. req \in [id : 0..MaxRequests, in : BOOLEAN]
          /\ taken \in [setup : 0..MaxRequests, data : 0..MaxRequests]
      BY <3>1 DEF Init
    <3>3. result \in [id : 0..MaxRequests, in : BOOLEAN, ok : BOOLEAN, data : 0..MaxRequests]
      BY <3>1 DEF Init, NoResult
    <3>4. shared \subseteq Requests /\ served \in [Requests -> Nat]
      BY DEF Init
    <3> QED
      BY <3>1, <3>2, <3>3, <3>4 DEF Init, TypeOK
  <2>2. queue = << >> /\ Len(queue) = 0
    BY DEF Init
  <2>3. MixInv /\ UnsharedInv /\ CallInv /\ OrderInv /\ ServedInv
    BY <2>2 DEF Init, MixInv, UnsharedInv, CallInv, OrderInv, ServedInv
  <2>4. AnswerIsOwnUnlessShared /\ DataIsOwnUnlessShared
    BY DEF Init, AnswerIsOwnUnlessShared, DataIsOwnUnlessShared, NoResult
  <2> QED
    BY <2>1, <2>3, <2>4 DEF Inv
<1>2. Inv /\ [Next]_vars => Inv'
  <2> SUFFICES ASSUME Inv, [Next]_vars PROVE Inv'
    OBVIOUS
  <2> USE DEF Inv
  <2>a. UNCHANGED <<queue, control_setup, control_buffer, shared>> => MixInv' /\ UnsharedInv'
    BY DEF MixInv, UnsharedInv
  <2>b. queue' = << >> => Len(queue') = 0 /\ queue' \in Seq(Transfer) /\ MixInv' /\ UnsharedInv'
    BY EmptySeq DEF MixInv, UnsharedInv
  <2>c. UNCHANGED <<result, shared>> => AnswerIsOwnUnlessShared'
    BY DEF AnswerIsOwnUnlessShared
  <2>d. UNCHANGED <<taken, shared>> => DataIsOwnUnlessShared'
    BY DEF DataIsOwnUnlessShared
  <2>1. CASE SendSetup
    <3>0. /\ queue' \in Seq(Transfer) /\ Len(queue') = Len(queue) /\ Len(queue) >= 1
          /\ queue'[1] = [queue[1] EXCEPT !.setup = control_setup]
          /\ \A i \in 1..Len(queue) : i # 1 => queue'[i] = queue[i]
          /\ \A i \in 1..Len(queue) : queue'[i].id = queue[i].id /\ queue'[i].in = queue[i].in
      <4>1. queue # << >> /\ Len(queue) >= 1 /\ 1 \in 1..Len(queue)
        BY <2>1, QueueFacts DEF SendSetup
      <4>2. queue[1] \in Transfer /\ [queue[1] EXCEPT !.setup = control_setup] \in Transfer
        BY <4>1, QueueFacts DEF TypeOK, Transfer
      <4>3. queue' = [queue EXCEPT ![1] = [queue[1] EXCEPT !.setup = control_setup]]
        BY <2>1 DEF SendSetup
      <4>4. queue' \in Seq(Transfer) /\ Len(queue') = Len(queue)
            /\ queue'[1] = [queue[1] EXCEPT !.setup = control_setup]
            /\ \A i \in 1..Len(queue) : i # 1 => queue'[i] = queue[i]
        BY <4>1, <4>2, <4>3, ExceptSeq, QueueFacts DEF TypeOK
      <4> QED
        BY <4>1, <4>2, <4>4 DEF Transfer
    <3>1. TypeOK'
      BY <2>1, <3>0, QueueFacts DEF SendSetup, flags, TypeOK
    <3>2. MixInv' /\ UnsharedInv'
      <4>1. queue[1].setup = None /\ UNCHANGED <<control_setup, control_buffer, shared>>
        BY <2>1, QueueFacts DEF SendSetup
      <4>2. queue'[1].setup = control_setup
        BY <3>0, QueueFacts DEF Transfer
      <4>3. MixInv'
        <5> SUFFICES ASSUME NEW i \in 1..Len(queue)
                     PROVE  /\ queue'[i].id = control_setup
                               \/ {queue'[i].id, control_setup} \subseteq shared
                            /\ queue'[i].setup \in {None, queue'[i].id}
                               \/ {queue'[i].id, queue'[i].setup} \subseteq shared
          BY <3>0, <4>1 DEF MixInv
        <5>1. queue[i].id = control_setup \/ {queue[i].id, control_setup} \subseteq shared
          BY DEF MixInv
        <5>2. CASE i = 1
          BY <3>0, <4>2, <5>1, <5>2
        <5>3. CASE i # 1
          BY <3>0, <5>1, <5>3 DEF MixInv
        <5> QED
          BY <5>2, <5>3
      <4>4. UnsharedInv'
        BY <3>0, <4>1 DEF UnsharedInv
      <4> QED
        BY <4>3, <4>4
    <3>3. CallInv'
      BY <2>1, <3>0, QueueFacts DEF SendSetup, flags, CallInv, TypeOK
    <3>4. OrderInv'
      BY <2>1, <3>0, QueueFacts DEF SendSetup, OrderInv, TypeOK
    <3>5. ServedInv'
      BY <2>1, <3>0, QueueFacts DEF SendSetup, flags, ServedInv, TypeOK
    <3>6. AnswerIsOwnUnlessShared'
      BY <2>1, <2>c DEF SendSetup
    <3>7. DataIsOwnUnlessShared'
      BY <2>1, <2>d DEF SendSetup
    <3> QED
      BY <3>1, <3>2, <3>3, <3>4, <3>5, <3>6, <3>7
  <2>2. ASSUME NEW ok \in BOOLEAN, Complete(ok) PROVE Inv'
    <3>0. /\ queue' \in Seq(Transfer) /\ Len(queue') = Len(queue) - 1 /\ Len(queue) >= 1
          /\ \A i \in 1..Len(queue') : i + 1 \in 1..Len(queue) /\ queue'[i] = queue[i + 1]
          /\ Len(queue) = 1 => queue' = << >>
      <4>1. queue # << >> /\ queue' = Tail(queue)
        BY <2>2 DEF Complete
      <4>2. queue' \in Seq(Transfer) /\ Len(queue') = Len(queue) - 1
            /\ \A i \in 1..Len(queue') : queue'[i] = queue[i + 1]
        BY <4>1, HeadTailProperties DEF TypeOK
      <4>3. Len(queue) = 1 => queue' = << >>
        BY <4>2, EmptySeq
      <4> QED
        BY <4>1, <4>2, <4>3, QueueFacts
    <3>t. PICK t \in Transfer :
            /\ t = queue[1] /\ t.setup \in Requests
            /\ control_buffer' = IF t.in THEN t.setup ELSE control_buffer
            /\ taken' = IF t.in THEN taken ELSE [setup |-> t.setup, data |-> control_buffer]
            /\ served' = [served EXCEPT ![t.setup] = @ + 1]
      <4>1. queue[1] \in Transfer /\ Head(queue) = queue[1] /\ queue # << >>
        BY <3>0, QueueFacts
      <4>2. /\ queue[1].setup # None
            /\ control_buffer' = IF queue[1].in THEN queue[1].setup ELSE control_buffer
            /\ taken' = IF queue[1].in THEN taken
                        ELSE [setup |-> queue[1].setup, data |-> control_buffer]
            /\ served' = [served EXCEPT ![queue[1].setup] = @ + 1]
        BY <2>2, <4>1 DEF Complete
      <4>3. queue[1].setup \in Requests
        BY <4>1, <4>2 DEF Transfer
      <4> QED
        BY <4>1, <4>2, <4>3
    <3>u. UNCHANGED <<device, plugs, control_setup, pc, req, result, shared>>
      BY <2>2 DEF Complete
    <3>1. TypeOK'
      <4>1. /\ control_pending' \in BOOLEAN /\ control_complete' \in BOOLEAN
            /\ control_success' \in BOOLEAN
            /\ pc' # "reset" => ~(control_pending' /\ control_complete')
        BY <2>2 DEF Complete, Control, flags, TypeOK
      <4>2. control_buffer' \in 0..MaxRequests
            /\ taken' \in [setup : 0..MaxRequests, data : 0..MaxRequests]
        <5>1. t.setup \in 0..MaxRequests /\ control_buffer \in 0..MaxRequests
          BY <3>t DEF TypeOK
        <5>2. taken \in [setup : 0..MaxRequests, data : 0..MaxRequests]
          BY DEF TypeOK
        <5>3. CASE t.in
          BY <3>t, <5>1, <5>2, <5>3
        <5>4. CASE ~t.in
          BY <3>t, <5>1, <5>2, <5>4
        <5> QED
          BY <5>3, <5>4
      <4>3. served' \in [Requests -> Nat]
        <5>1. served \in [Requests -> Nat] /\ t.setup \in Requests
          BY <3>t DEF TypeOK
        <5>2. served[t.setup] + 1 \in Nat
          BY <5>1
        <5> QED
          BY <3>t, <5>1, <5>2
      <4> QED
        BY <3>0, <3>u, <4>1, <4>2, <4>3 DEF TypeOK
    <3>2. MixInv' /\ UnsharedInv'
      <4>1. MixInv'
        BY <3>0, <3>u DEF MixInv
      <4>2. UnsharedInv'
        BY <3>0, <3>u, QueueFacts DEF UnsharedInv
      <4> QED
        BY <4>1, <4>2
    <3>3. CallInv'
      <4>1. CASE req.id \in shared
        BY <2>2, <3>0, <3>u, <4>1 DEF Complete, Control, flags, CallInv
      <4>2. CASE req.id \notin shared
        <5>1. ASSUME pc \in Unqueued PROVE FALSE
          BY <2>2, <4>2, <5>1 DEF CallInv, Complete
        <5>2. ASSUME pc \in {"wait", "return"}
              PROVE  t.id = req.id /\ t.in = req.in /\ Len(queue) = 1 /\ t.setup = req.id
                     /\ ~control_complete
          BY <2>2, <3>0, <3>t, <4>2, <5>2 DEF CallInv, UnsharedInv, MixInv, Complete
        <5> QED
          BY <2>2, <3>0, <3>t, <3>u, <4>2, <5>1, <5>2, QueueFacts
             DEF Complete, Control, flags, CallInv
      <4> QED
        BY <4>1, <4>2
    <3>4. OrderInv'
      <4>1. \A i \in 1..Len(queue') : i + 1 \in 1..Len(queue) /\ queue'[i].id = queue[i + 1].id
        BY <3>0
      <4>2. \A i \in 1..Len(queue'), j \in 1..Len(queue') :
              i < j => i + 1 < j + 1 /\ queue'[i].id < queue'[j].id
        BY <4>1 DEF OrderInv
      <4> QED
        BY <3>u, <4>1, <4>2 DEF OrderInv
    <3>5. ServedInv'
      <4>1. \A r \in Requests : r # t.setup => served'[r] = served[r]
        BY <3>t DEF TypeOK
      <4>2. served'[t.setup] = served[t.setup] + 1 /\ served[t.setup] \in Nat
        BY <3>t DEF TypeOK
      <4>3. t.setup \notin shared => t.setup = t.id
        BY <3>t, <3>0 DEF MixInv
      <4>4. \A i \in 1..Len(queue') : queue'[i].id # t.id /\ queue'[i].id \in Requests
        <5>1. \A i \in 1..Len(queue') : /\ i + 1 \in 1..Len(queue) /\ 1 < i + 1
                                        /\ queue'[i] = queue[i + 1]
          BY <3>0
        <5>2. \A i \in 1..Len(queue) : 1 < i => queue[1].id < queue[i].id
          BY <3>0, QueueFacts DEF OrderInv
        <5>3. \A i \in 1..Len(queue) : queue[i].id \in Requests
          BY QueueFacts DEF Transfer
        <5> QED
          BY <3>t, <5>1, <5>2, <5>3 DEF Transfer
      <4>5. t.id <= req.id /\ (pc \in {"prepare"} \cup Unqueued => t.id < req.id)
        BY <3>0, <3>t DEF OrderInv
      <4>6. \A i \in 1..Len(queue') : queue'[i].id \notin shared => served'[queue'[i].id] = 0
        <5> SUFFICES ASSUME NEW i \in 1..Len(queue'), queue'[i].id \notin shared
                     PROVE  served'[queue'[i].id] = 0
          OBVIOUS
        <5>1. queue'[i].id # t.setup /\ queue'[i].id \in Requests
          BY <3>0, <3>t, <4>3, <4>4
        <5>2. served[queue'[i].id] = 0
          BY <3>0 DEF ServedInv
        <5> QED
          BY <4>1, <5>1, <5>2
      <4>7. \A r \in Requests \ shared :
              r > req.id \/ (r = req.id /\ pc \in {"prepare"} \cup Unqueued) => served'[r] = 0
        BY <4>1, <4>3, <4>5 DEF ServedInv, TypeOK, Transfer
      <4>8. req.id \notin shared /\ pc \in {"wait", "return"}
              /\ control_complete' /\ control_success' => served'[req.id] = 1
        <5> SUFFICES ASSUME req.id \notin shared, pc \in {"wait", "return"}, control_complete',
                            control_success'
                     PROVE  served'[req.id] = 1
          OBVIOUS
        <5>1. queue # << >> /\ ~control_complete
          BY <3>0, QueueFacts DEF CallInv
        <5>2. t.id = req.id /\ served[t.id] = 0
          BY <3>0, <3>t DEF CallInv, ServedInv
        <5>3. t.setup = t.id
          BY <3>0, <3>t, <5>2 DEF MixInv
        <5> QED
          BY <4>2, <5>2, <5>3
      <4> QED
        BY <3>u, <4>6, <4>7, <4>8 DEF ServedInv
    <3>6. AnswerIsOwnUnlessShared'
      BY <3>u, <2>c
    <3>7. DataIsOwnUnlessShared'
      <4>1. CASE t.in
        BY <3>t, <3>u, <4>1, <2>d
      <4>2. CASE ~t.in
        <5>1. taken'.setup = t.setup /\ taken'.data = control_buffer
          BY <3>t, <4>2
        <5>2. t.setup \notin shared => t.setup = t.id
          BY <3>0, <3>t DEF MixInv
        <5>3. t.id \notin shared => control_buffer = t.id
          BY <3>0, <3>t, <4>2 DEF UnsharedInv
        <5> QED
          BY <3>u, <5>1, <5>2, <5>3 DEF DataIsOwnUnlessShared
      <4> QED
        BY <4>1, <4>2
    <3> QED
      BY <3>1, <3>2, <3>3, <3>4, <3>5, <3>6, <3>7
  <2>3. CASE StallAll
    <3>0. queue' = << >> /\ Len(queue') = 0 /\ queue' \in Seq(Transfer)
      BY <2>3, <2>b DEF StallAll
    <3>1. TypeOK'
      <4>1. /\ device' \in BOOLEAN /\ control_pending' \in BOOLEAN /\ control_complete' \in BOOLEAN
            /\ control_success' \in BOOLEAN
            /\ pc' # "reset" => ~(control_pending' /\ control_complete')
        BY <2>3 DEF StallAll, Control, flags, TypeOK
      <4>2. /\ plugs' \in 0..MaxPlugs /\ queue' \in Seq(Transfer)
            /\ control_setup' \in 0..MaxRequests /\ control_buffer' \in 0..MaxRequests
            /\ pc' \in {"idle", "prepare", "wait", "return", "fault"} \cup Unqueued
        BY <2>3, <3>0 DEF StallAll, Control, TypeOK
      <4>3. /\ req' \in [id : 0..MaxRequests, in : BOOLEAN]
            /\ taken' \in [setup : 0..MaxRequests, data : 0..MaxRequests]
            /\ shared' \subseteq Requests /\ served' \in [Requests -> Nat]
        BY <2>3 DEF StallAll, Control, TypeOK
      <4>4. result' \in [id : 0..MaxRequests, in : BOOLEAN, ok : BOOLEAN, data : 0..MaxRequests]
        BY <2>3 DEF StallAll, Control, TypeOK
      <4> QED
        BY <4>1, <4>2, <4>3, <4>4 DEF TypeOK
    <3>2. MixInv' /\ UnsharedInv'
      BY <3>0, <2>b
    <3>3. CallInv'
      BY <2>3, <3>0, QueueFacts DEF StallAll, Control, flags, CallInv, TypeOK
    <3>4. OrderInv'
      BY <2>3, <3>0, QueueFacts DEF StallAll, Control, OrderInv, TypeOK
    <3>5. ServedInv'
      BY <2>3, <3>0, QueueFacts DEF StallAll, Control, flags, ServedInv, TypeOK
    <3>6. AnswerIsOwnUnlessShared'
      BY <2>3, <2>c DEF StallAll, Control
    <3>7. DataIsOwnUnlessShared'
      BY <2>3, <2>d DEF StallAll, Control
    <3> QED
      BY <3>1, <3>2, <3>3, <3>4, <3>5, <3>6, <3>7
  <2>4. CASE Claim
    <3>0. queue' = queue
      BY <2>4 DEF Claim
    <3>1. TypeOK'
      BY <2>4, <3>0, QueueFacts DEF Claim, flags, TypeOK
    <3>2. MixInv' /\ UnsharedInv'
      BY <2>4, <3>0, <2>a DEF Claim
    <3>3. CallInv'
      BY <2>4, <3>0, QueueFacts DEF Claim, flags, CallInv, TypeOK
    <3>4. OrderInv'
      BY <2>4, <3>0, QueueFacts DEF Claim, OrderInv, TypeOK
    <3>5. ServedInv'
      BY <2>4, <3>0, QueueFacts DEF Claim, flags, ServedInv, TypeOK
    <3>6. AnswerIsOwnUnlessShared'
      BY <2>4, <2>c DEF Claim
    <3>7. DataIsOwnUnlessShared'
      BY <2>4, <2>d DEF Claim
    <3> QED
      BY <3>1, <3>2, <3>3, <3>4, <3>5, <3>6, <3>7
  <2>5. CASE Disconnect
    <3>0. queue' = << >> /\ Len(queue') = 0 /\ queue' \in Seq(Transfer)
      BY <2>5, <2>b DEF Disconnect
    <3>1. TypeOK'
      <4>1. /\ device' \in BOOLEAN /\ control_pending' \in BOOLEAN /\ control_complete' \in BOOLEAN
            /\ control_success' \in BOOLEAN
            /\ pc' # "reset" => ~(control_pending' /\ control_complete')
        BY <2>5 DEF Disconnect, flags, TypeOK
      <4>2. /\ plugs' \in 0..MaxPlugs /\ queue' \in Seq(Transfer)
            /\ control_setup' \in 0..MaxRequests /\ control_buffer' \in 0..MaxRequests
            /\ pc' \in {"idle", "prepare", "wait", "return", "fault"} \cup Unqueued
        BY <2>5, <3>0 DEF Disconnect, TypeOK
      <4>3. /\ req' \in [id : 0..MaxRequests, in : BOOLEAN]
            /\ taken' \in [setup : 0..MaxRequests, data : 0..MaxRequests]
            /\ shared' \subseteq Requests /\ served' \in [Requests -> Nat]
        BY <2>5 DEF Disconnect, TypeOK
      <4>4. result' \in [id : 0..MaxRequests, in : BOOLEAN, ok : BOOLEAN, data : 0..MaxRequests]
        BY <2>5 DEF Disconnect, TypeOK
      <4> QED
        BY <4>1, <4>2, <4>3, <4>4 DEF TypeOK
    <3>2. MixInv' /\ UnsharedInv'
      BY <3>0, <2>b
    <3>3. CallInv'
      BY <2>5, <3>0, QueueFacts DEF Disconnect, flags, CallInv, TypeOK
    <3>4. OrderInv'
      BY <2>5, <3>0, QueueFacts DEF Disconnect, OrderInv, TypeOK
    <3>5. ServedInv'
      BY <2>5, <3>0, QueueFacts DEF Disconnect, flags, ServedInv, TypeOK
    <3>6. AnswerIsOwnUnlessShared'
      BY <2>5, <2>c DEF Disconnect
    <3>7. DataIsOwnUnlessShared'
      BY <2>5, <2>d DEF Disconnect
    <3> QED
      BY <3>1, <3>2, <3>3, <3>4, <3>5, <3>6, <3>7
  <2>6. ASSUME NEW in \in BOOLEAN, Begin(in) PROVE Inv'
    <3>0. queue' = queue
      BY <2>6 DEF Begin
    <3>1. TypeOK'
      BY <2>6, <3>0, QueueFacts DEF Begin, flags, TypeOK
    <3>2. MixInv' /\ UnsharedInv'
      BY <2>6, <3>0, <2>a DEF Begin
    <3>3. CallInv'
      BY <2>6, <3>0, QueueFacts DEF Begin, flags, CallInv, TypeOK
    <3>4. OrderInv'
      <4>1. req.id \in Nat /\ req'.id = req.id + 1
        BY <2>6 DEF Begin, TypeOK
      <4>2. \A i \in 1..Len(queue) : queue[i].id <= req.id /\ queue[i].id \in Nat
        BY QueueFacts DEF OrderInv, Transfer
      <4>3. \A i \in 1..Len(queue) : queue[i].id < req'.id /\ queue[i].id <= req'.id
        BY <4>1, <4>2
      <4> QED
        BY <3>0, <4>1, <4>3 DEF OrderInv
    <3>5. ServedInv'
      BY <2>6, <3>0, QueueFacts DEF Begin, flags, ServedInv, TypeOK
    <3>6. AnswerIsOwnUnlessShared'
      BY <2>6, <2>c DEF Begin
    <3>7. DataIsOwnUnlessShared'
      BY <2>6, <2>d DEF Begin
    <3> QED
      BY <3>1, <3>2, <3>3, <3>4, <3>5, <3>6, <3>7
  <2>7. CASE Prepare
    <3>0. /\ queue' = queue /\ shared \subseteq shared'
          /\ queue # << >> => req.id \in shared' /\ \A i \in 1..Len(queue) : queue[i].id \in shared'
      BY <2>7 DEF Prepare, Meets, Queued
    <3>1. TypeOK'
      <4>1. req.id \in Requests /\ Queued \subseteq Requests
        <5>1. req.id \in Requests
          BY <2>7 DEF Prepare, OrderInv, TypeOK
        <5>2. Queued \subseteq Requests
          BY QueueFacts DEF Queued, Transfer
        <5> QED
          BY <5>1, <5>2
      <4>2. shared' \subseteq Requests
        BY <2>7, <4>1 DEF Prepare, Meets, TypeOK
      <4> QED
        BY <2>7, <3>0, <4>1, <4>2 DEF Prepare, TypeOK
    <3>2. MixInv' /\ UnsharedInv'
      <4>1. MixInv'
        <5>1. control_setup' = req.id
          BY <2>7 DEF Prepare
        <5> QED
          BY <3>0, <5>1, QueueFacts DEF MixInv
      <4>2. UnsharedInv'
        BY <3>0, QueueFacts DEF UnsharedInv
      <4> QED
        BY <4>1, <4>2
    <3>3. CallInv'
      BY <2>7, <3>0, QueueFacts DEF Prepare, CallInv, TypeOK
    <3>4. OrderInv'
      BY <2>7, <3>0, QueueFacts DEF Prepare, OrderInv, TypeOK
    <3>5. ServedInv'
      BY <2>7, <3>0, QueueFacts DEF Prepare, flags, ServedInv, TypeOK
    <3>6. AnswerIsOwnUnlessShared'
      BY <2>7, <3>0 DEF Prepare, AnswerIsOwnUnlessShared
    <3>7. DataIsOwnUnlessShared'
      BY <2>7, <3>0 DEF Prepare, DataIsOwnUnlessShared
    <3> QED
      BY <3>1, <3>2, <3>3, <3>4, <3>5, <3>6, <3>7
  <2>7a. CASE ResetState
    <3>0. /\ pc = "reset" /\ pc' = IF req.in THEN "queue" ELSE "copy"
          /\ control_complete' = FALSE /\ control_success' = FALSE
          /\ UNCHANGED <<device, plugs, queue, control_setup, control_buffer, control_pending, req,
                         result, taken, shared, served>>
      BY <2>7a DEF ResetState
    <3>1. TypeOK'
      BY <3>0 DEF TypeOK, Unqueued
    <3>2. MixInv' /\ UnsharedInv'
      BY <3>0, <2>a
    <3>3. CallInv'
      BY <3>0 DEF CallInv, Unqueued, TypeOK
    <3>4. OrderInv'
      BY <3>0 DEF OrderInv, Unqueued
    <3>5. ServedInv'
      BY <3>0 DEF ServedInv, Unqueued
    <3>6. AnswerIsOwnUnlessShared' /\ DataIsOwnUnlessShared'
      BY <3>0, <2>c, <2>d
    <3> QED
      BY <3>1, <3>2, <3>3, <3>4, <3>5, <3>6
  <2>7b. CASE CopyData
    <3>0. /\ pc = "copy" /\ pc' = "queue" /\ control_buffer' = req.id
          /\ UNCHANGED <<device, plugs, queue, control_setup, flags, req, result, taken, shared,
                         served>>
      BY <2>7b DEF CopyData
    <3>1. TypeOK'
      BY <3>0 DEF flags, TypeOK, Unqueued
    <3>2. MixInv' /\ UnsharedInv'
      <4>1. \A i \in 1..Len(queue) : queue[i].id \in shared
        BY <3>0 DEF CallInv, Unqueued
      <4> QED
        BY <3>0, <4>1 DEF MixInv, UnsharedInv
    <3>3. CallInv'
      BY <3>0 DEF flags, CallInv, Unqueued
    <3>4. OrderInv'
      BY <3>0 DEF OrderInv, Unqueued
    <3>5. ServedInv'
      BY <3>0 DEF ServedInv, Unqueued
    <3>6. AnswerIsOwnUnlessShared' /\ DataIsOwnUnlessShared'
      BY <3>0, <2>c, <2>d
    <3> QED
      BY <3>1, <3>2, <3>3, <3>4, <3>5, <3>6
  <2>8. CASE Queue
    <3>u. /\ UNCHANGED <<device, plugs, control_setup, control_buffer, flags, req, result, taken,
                       shared, served>>
          /\ pc = "queue" /\ req.id \in Requests
      BY <2>8 DEF Queue, OrderInv, TypeOK
    <3>0. \/ /\ queue' \in Seq(Transfer) /\ Len(queue') = Len(queue) + 1 /\ pc' = "wait"
             /\ queue'[Len(queue) + 1] = [id |-> req.id, in |-> req.in, setup |-> None]
             /\ \A i \in 1..Len(queue) : queue'[i] = queue[i]
          \/ queue' = queue /\ pc' = "fault"
      <4>1. CASE device
        <5> DEFINE t == [id |-> req.id, in |-> req.in, setup |-> None]
        <5>1. t \in Transfer
          BY <3>u DEF TypeOK, Transfer
        <5>2. queue' = Append(queue, t) /\ pc' = "wait"
          BY <2>8, <4>1 DEF Queue
        <5>3. queue' \in Seq(Transfer) /\ Len(queue') = Len(queue) + 1
              /\ queue'[Len(queue) + 1] = t /\ \A i \in 1..Len(queue) : queue'[i] = queue[i]
          <6> HIDE DEF t
          <6> QED
            BY <5>1, <5>2, AppendProperties DEF TypeOK
        <5> QED
          BY <5>2, <5>3
      <4>2. CASE ~device
        BY <2>8, <4>2 DEF Queue
      <4> QED
        BY <4>1, <4>2
    <3>1. TypeOK'
      BY <3>0, <3>u DEF flags, TypeOK
    <3>2. MixInv' /\ UnsharedInv'
      <4>1. CASE queue' = queue
        BY <3>u, <4>1, <2>a
      <4>2. CASE queue' # queue
        <5>1. \A i \in 1..Len(queue') : i \in 1..Len(queue) \/ i = Len(queue) + 1
          BY <3>0, <4>2, QueueFacts
        <5>2. MixInv'
          BY <3>0, <3>u, <4>2, <5>1 DEF MixInv, CallInv
        <5>3. CASE req.id \in shared
          <6>1. queue'[Len(queue) + 1].id = req.id /\ \A i \in 1..Len(queue) : queue'[i] = queue[i]
            BY <3>0, <4>2
          <6>2. \A i \in 1..Len(queue) : queue[i].id \in shared
            BY <3>u DEF CallInv
          <6>3. \A i \in 1..Len(queue') : queue'[i].id \in shared
            BY <5>1, <5>3, <6>1, <6>2
          <6> QED
            BY <3>u, <5>2, <6>3 DEF UnsharedInv
        <5>4. CASE req.id \notin shared
          <6>1. Len(queue) = 0 /\ (~req.in => control_buffer = req.id)
            BY <3>u, <5>4, QueueFacts DEF CallInv
          <6>2. Len(queue') = 1 /\ queue'[1] = [id |-> req.id, in |-> req.in, setup |-> None]
            BY <3>0, <4>2, <6>1
          <6>3. \A i \in 1..Len(queue') : queue'[i] = queue'[1]
            BY <6>2
          <6> QED
            BY <3>u, <5>2, <6>1, <6>2, <6>3 DEF UnsharedInv
        <5> QED
          BY <5>2, <5>3, <5>4
      <4> QED
        BY <4>1, <4>2
    <3>3. CallInv'
      <4>1. CASE queue' = queue
        BY <3>0, <3>u, <4>1, QueueFacts DEF flags, CallInv
      <4>2. CASE queue' # queue
        <5>1. /\ control_setup' = req.id /\ req' = req /\ shared' = shared /\ pc' = "wait"
              /\ UNCHANGED <<control_buffer, control_complete>>
          BY <3>0, <3>u, <4>2 DEF flags, CallInv
        <5>2. ASSUME req.id \notin shared
              PROVE  /\ ~control_complete /\ (~req.in => control_buffer = req.id)
                     /\ \A i \in 1..Len(queue') : queue'[i].id = req.id /\ queue'[i].in = req.in
          <6>1. Len(queue) = 0 /\ ~control_complete /\ (~req.in => control_buffer = req.id)
            BY <3>u, <5>2, QueueFacts DEF CallInv
          <6>2. Len(queue') = 1 /\ queue'[1] = [id |-> req.id, in |-> req.in, setup |-> None]
            BY <3>0, <4>2, <6>1
          <6>3. \A i \in 1..Len(queue') : queue'[i] = queue'[1]
            BY <6>2
          <6> QED
            BY <6>1, <6>2, <6>3
        <5> QED
          BY <5>1, <5>2 DEF CallInv
      <4> QED
        BY <4>1, <4>2
    <3>4. OrderInv'
      <4>1. CASE queue' = queue
        BY <3>0, <3>u, <4>1 DEF OrderInv
      <4>2. CASE queue' # queue
        <5>1. \A i \in 1..Len(queue') : i \in 1..Len(queue) \/ i = Len(queue) + 1
          BY <3>0, <4>2, QueueFacts
        <5>2. queue'[Len(queue) + 1].id = req.id /\ \A i \in 1..Len(queue) : queue'[i] = queue[i]
          BY <3>0, <4>2
        <5>3. \A i \in 1..Len(queue) : queue[i].id < req.id /\ queue[i].id \in Nat
          BY <3>u, QueueFacts DEF OrderInv, Transfer
        <5>4. \A i \in 1..Len(queue') : queue'[i].id <= req.id
          BY <3>u, <5>1, <5>2, <5>3
        <5>5. \A i \in 1..Len(queue'), j \in 1..Len(queue') : i < j => queue'[i].id < queue'[j].id
          BY <5>1, <5>2, <5>3, QueueFacts DEF OrderInv
        <5> QED
          BY <3>0, <3>u, <4>2, <5>4, <5>5 DEF OrderInv
      <4> QED
        BY <4>1, <4>2
    <3>5. ServedInv'
      <4>1. \A i \in 1..Len(queue') : queue'[i].id \notin shared => served[queue'[i].id] = 0
        <5>1. CASE queue' = queue
          BY <5>1 DEF ServedInv
        <5>2. CASE queue' # queue
          <6>1. \A i \in 1..Len(queue') : i \in 1..Len(queue) \/ i = Len(queue) + 1
            BY <3>0, <5>2, QueueFacts
          <6>2. queue'[Len(queue) + 1].id = req.id /\ \A i \in 1..Len(queue) : queue'[i] = queue[i]
            BY <3>0, <5>2
          <6> QED
            BY <3>u, <6>1, <6>2 DEF ServedInv
        <5> QED
          BY <5>1, <5>2
      <4>2. req.id \notin shared => ~control_complete
        BY <3>u DEF CallInv
      <4> QED
        BY <3>0, <3>u, <4>1, <4>2 DEF flags, ServedInv
    <3>6. AnswerIsOwnUnlessShared'
      BY <3>u, <2>c
    <3>7. DataIsOwnUnlessShared'
      BY <3>u, <2>d
    <3> QED
      BY <3>1, <3>2, <3>3, <3>4, <3>5, <3>6, <3>7
  <2>9. CASE QueueFails
    <3>0. queue' = queue
      BY <2>9 DEF QueueFails
    <3>1. TypeOK'
      BY <2>9, <3>0, QueueFacts DEF QueueFails, Return, flags, TypeOK
    <3>2. MixInv' /\ UnsharedInv'
      BY <2>9, <3>0, <2>a DEF QueueFails, Return
    <3>3. CallInv'
      BY <2>9, <3>0, QueueFacts DEF QueueFails, Return, flags, CallInv, TypeOK
    <3>4. OrderInv'
      BY <2>9, <3>0, QueueFacts DEF QueueFails, Return, OrderInv, TypeOK
    <3>5. ServedInv'
      BY <2>9, <3>0, QueueFacts DEF QueueFails, Return, flags, ServedInv, TypeOK
    <3>6. AnswerIsOwnUnlessShared'
      BY <2>9 DEF QueueFails, Return, AnswerIsOwnUnlessShared
    <3>7. DataIsOwnUnlessShared'
      BY <2>9, <2>d DEF QueueFails, Return
    <3> QED
      BY <3>1, <3>2, <3>3, <3>4, <3>5, <3>6, <3>7
  <2>10. CASE Completed
    <3>0. queue' = queue
      BY <2>10 DEF Completed
    <3>1. TypeOK'
      BY <2>10, <3>0, QueueFacts DEF Completed, flags, TypeOK
    <3>2. MixInv' /\ UnsharedInv'
      BY <2>10, <3>0, <2>a DEF Completed
    <3>3. CallInv'
      BY <2>10, <3>0, QueueFacts DEF Completed, flags, CallInv, TypeOK
    <3>4. OrderInv'
      BY <2>10, <3>0, QueueFacts DEF Completed, OrderInv, TypeOK
    <3>5. ServedInv'
      BY <2>10, <3>0, QueueFacts DEF Completed, flags, ServedInv, TypeOK
    <3>6. AnswerIsOwnUnlessShared'
      BY <2>10, <2>c DEF Completed
    <3>7. DataIsOwnUnlessShared'
      BY <2>10, <2>d DEF Completed
    <3> QED
      BY <3>1, <3>2, <3>3, <3>4, <3>5, <3>6, <3>7
  <2>11. CASE Timeout
    <3>0. queue' = queue
      BY <2>11 DEF Timeout
    <3>1. TypeOK'
      <4>1. /\ device' \in BOOLEAN /\ control_pending' \in BOOLEAN /\ control_complete' \in BOOLEAN
            /\ control_success' \in BOOLEAN
            /\ pc' # "reset" => ~(control_pending' /\ control_complete')
        BY <2>11 DEF Timeout, Return, flags, TypeOK
      <4>2. /\ plugs' \in 0..MaxPlugs /\ queue' \in Seq(Transfer)
            /\ control_setup' \in 0..MaxRequests /\ control_buffer' \in 0..MaxRequests
            /\ pc' \in {"idle", "prepare", "wait", "return", "fault"} \cup Unqueued
        BY <2>11, <3>0 DEF Timeout, Return, TypeOK
      <4>3. /\ req' \in [id : 0..MaxRequests, in : BOOLEAN]
            /\ taken' \in [setup : 0..MaxRequests, data : 0..MaxRequests]
            /\ shared' \subseteq Requests /\ served' \in [Requests -> Nat]
        BY <2>11 DEF Timeout, Return, TypeOK
      <4>4. result' \in [id : 0..MaxRequests, in : BOOLEAN, ok : BOOLEAN, data : 0..MaxRequests]
        BY <2>11 DEF Timeout, Return, TypeOK
      <4> QED
        BY <4>1, <4>2, <4>3, <4>4 DEF TypeOK
    <3>2. MixInv' /\ UnsharedInv'
      BY <2>11, <3>0, <2>a DEF Timeout, Return
    <3>3. CallInv'
      BY <2>11, <3>0, QueueFacts DEF Timeout, Return, flags, CallInv, TypeOK
    <3>4. OrderInv'
      BY <2>11, <3>0, QueueFacts DEF Timeout, Return, OrderInv, TypeOK
    <3>5. ServedInv'
      BY <2>11, <3>0, QueueFacts DEF Timeout, Return, flags, ServedInv, TypeOK
    <3>6. AnswerIsOwnUnlessShared'
      BY <2>11 DEF Timeout, Return, AnswerIsOwnUnlessShared
    <3>7. DataIsOwnUnlessShared'
      BY <2>11, <2>d DEF Timeout, Return
    <3> QED
      BY <3>1, <3>2, <3>3, <3>4, <3>5, <3>6, <3>7
  <2>12. CASE Answer
    <3>0. queue' = queue
      BY <2>12 DEF Answer
    <3>1. TypeOK'
      BY <2>12, <3>0, QueueFacts DEF Answer, Return, flags, TypeOK
    <3>2. MixInv' /\ UnsharedInv'
      BY <2>12, <3>0, <2>a DEF Answer, Return
    <3>3. CallInv'
      BY <2>12, <3>0, QueueFacts DEF Answer, Return, flags, CallInv, TypeOK
    <3>4. OrderInv'
      BY <2>12, <3>0, QueueFacts DEF Answer, Return, OrderInv, TypeOK
    <3>5. ServedInv'
      BY <2>12, <3>0, QueueFacts DEF Answer, Return, flags, ServedInv, TypeOK
    <3>6. AnswerIsOwnUnlessShared'
      BY <2>12 DEF Answer, Return, AnswerIsOwnUnlessShared, CallInv
    <3>7. DataIsOwnUnlessShared'
      BY <2>12, <2>d DEF Answer, Return
    <3> QED
      BY <3>1, <3>2, <3>3, <3>4, <3>5, <3>6, <3>7
  <2>13. CASE Reboot
    <3>0. queue' = << >> /\ Len(queue') = 0 /\ queue' \in Seq(Transfer)
      BY <2>13, <2>b DEF Reboot
    <3>1. TypeOK'
      <4>1. /\ device' \in BOOLEAN /\ control_pending' \in BOOLEAN /\ control_complete' \in BOOLEAN
            /\ control_success' \in BOOLEAN
            /\ pc' # "reset" => ~(control_pending' /\ control_complete')
        BY <2>13 DEF Reboot, NoResult, flags, TypeOK
      <4>2. /\ plugs' \in 0..MaxPlugs /\ queue' \in Seq(Transfer)
            /\ control_setup' \in 0..MaxRequests /\ control_buffer' \in 0..MaxRequests
            /\ pc' \in {"idle", "prepare", "wait", "return", "fault"} \cup Unqueued
        BY <2>13, <3>0 DEF Reboot, NoResult, TypeOK
      <4>3. /\ req' \in [id : 0..MaxRequests, in : BOOLEAN]
            /\ taken' \in [setup : 0..MaxRequests, data : 0..MaxRequests]
            /\ shared' \subseteq Requests /\ served' \in [Requests -> Nat]
        BY <2>13 DEF Reboot, NoResult, TypeOK
      <4>4. result' \in [id : 0..MaxRequests, in : BOOLEAN, ok : BOOLEAN, data : 0..MaxRequests]
        BY <2>13 DEF Reboot, NoResult, TypeOK
      <4> QED
        BY <4>1, <4>2, <4>3, <4>4 DEF TypeOK
    <3>2. MixInv' /\ UnsharedInv'
      BY <3>0, <2>b
    <3>3. CallInv'
      BY <2>13, <3>0, QueueFacts DEF Reboot, NoResult, flags, CallInv, TypeOK
    <3>4. OrderInv'
      BY <2>13, <3>0, QueueFacts DEF Reboot, NoResult, OrderInv, TypeOK
    <3>5. ServedInv'
      BY <2>13, <3>0, QueueFacts DEF Reboot, NoResult, flags, ServedInv, TypeOK
    <3>6. AnswerIsOwnUnlessShared'
      BY <2>13 DEF Reboot, NoResult, AnswerIsOwnUnlessShared
    <3>7. DataIsOwnUnlessShared'
      BY <2>13, <2>d DEF Reboot, NoResult
    <3> QED
      BY <3>1, <3>2, <3>3, <3>4, <3>5, <3>6, <3>7
  <2>14. CASE UNCHANGED vars
    <3>0. queue' = queue
      BY <2>14 DEF vars
    <3>1. TypeOK'
      BY <2>14, <3>0, QueueFacts DEF vars, flags, TypeOK
    <3>2. MixInv' /\ UnsharedInv'
      BY <2>14, <3>0, <2>a DEF vars
    <3>3. CallInv'
      BY <2>14, <3>0, QueueFacts DEF vars, flags, CallInv, TypeOK
    <3>4. OrderInv'
      BY <2>14, <3>0, QueueFacts DEF vars, OrderInv, TypeOK
    <3>5. ServedInv'
      BY <2>14, <3>0, QueueFacts DEF vars, flags, ServedInv, TypeOK
    <3>6. AnswerIsOwnUnlessShared'
      BY <2>14, <2>c DEF vars
    <3>7. DataIsOwnUnlessShared'
      BY <2>14, <2>d DEF vars
    <3> QED
      BY <3>1, <3>2, <3>3, <3>4, <3>5, <3>6, <3>7
  <2> QED
    BY <2>1, <2>2, <2>3, <2>4, <2>5, <2>6, <2>7, <2>7a, <2>7b, <2>8, <2>9, <2>10, <2>11, <2>12, <2>13, <2>14
       DEF Next, Mouse, Call
<1> QED
  BY <1>1, <1>2, PTL DEF Spec

\* An IN request that found no other transfer queued returns its own data.
THEOREM AnswersAreOwn == Spec => []AnswerIsOwnUnlessShared
<1>1. Inv => AnswerIsOwnUnlessShared
  BY DEF Inv
<1> QED
  BY <1>1, ControlInvariant, PTL

\* The mouse takes the data of the request whose SETUP packet it got.
THEOREM DataAreOwn == Spec => []DataIsOwnUnlessShared
<1>1. Inv => DataIsOwnUnlessShared
  BY DEF Inv
<1> QED
  BY <1>1, ControlInvariant, PTL

\* Every variable has its type, in every state.
THEOREM TypeCorrect == Spec => []TypeOK
<1>1. Inv => TypeOK
  BY DEF Inv
<1> QED
  BY <1>1, ControlInvariant, PTL

-----------------------------------------------------------------------------
\* A request is on the pipe once, and the one of the call is not until it is queued.
LEMMA OpenFacts ==
  ASSUME Inv
  PROVE  /\ Queued \subseteq Requests
         /\ pc \in {"prepare"} \cup Unqueued => req.id \notin Queued
         /\ queue = << >> <=> Queued = {}
         /\ pc # "idle" => req.id \in Requests
<1> USE ControlAssumption DEF Inv, Requests, None
<1>1. Queued \subseteq Requests
  BY QueueFacts DEF Queued, Transfer
<1>2. pc # "idle" => req.id \in Requests
  BY DEF OrderInv, TypeOK
<1>3. ASSUME pc \in {"prepare"} \cup Unqueued PROVE req.id \notin Queued
  <2>1. \A i \in 1..Len(queue) : queue[i].id < req.id /\ queue[i].id \in Nat
    BY <1>3, QueueFacts DEF OrderInv, Transfer
  <2>2. req.id \in Nat
    BY DEF TypeOK
  <2>3. \A i \in 1..Len(queue) : queue[i].id # req.id
    BY <2>1, <2>2
  <2> QED
    BY <2>3 DEF Queued
<1>4. queue = << >> => Queued = {}
  BY QueueFacts DEF Queued
<1>5. ASSUME queue # << >> PROVE Queued # {}
  <2>1. 1 \in 1..Len(queue)
    BY <1>5, QueueFacts
  <2> QED
    BY <2>1 DEF Queued
<1> QED
  BY <1>1, <1>2, <1>3, <1>4, <1>5

\* A transfer that completes leaves the others queued.
LEMMA QueuedAfterTail ==
  ASSUME Inv, queue # << >>, queue' = Tail(queue)
  PROVE  Queued' = Queued \ {queue[1].id} /\ queue[1].id \in Queued
<1> USE DEF Inv
<1>1. /\ Len(queue) \in Nat /\ Len(queue) >= 1 /\ Len(queue') = Len(queue) - 1
      /\ \A i \in 1..Len(queue') : queue'[i] = queue[i + 1]
  BY QueueFacts, HeadTailProperties DEF TypeOK
<1>2. queue[1].id \in Queued
  BY <1>1 DEF Queued
<1>3. ASSUME NEW i \in 1..Len(queue') PROVE queue'[i].id \in Queued \ {queue[1].id}
  <2>1. i + 1 \in 1..Len(queue) /\ 1 < i + 1 /\ 1 \in 1..Len(queue)
    BY <1>1
  <2>2. queue[1].id < queue[i + 1].id
    BY <2>1 DEF OrderInv
  <2>3. queue[1].id \in Nat /\ queue[i + 1].id \in Nat
    BY <2>1, QueueFacts, ControlAssumption DEF Transfer, Requests
  <2> QED
    BY <1>1, <2>1, <2>2, <2>3 DEF Queued
<1>4. ASSUME NEW i \in 1..Len(queue), queue[i].id # queue[1].id PROVE queue[i].id \in Queued'
  <2>1. i - 1 \in 1..Len(queue') /\ queue'[i - 1] = queue[(i - 1) + 1] /\ (i - 1) + 1 = i
    BY <1>1, <1>4
  <2> QED
    BY <2>1 DEF Queued
<1>5. Queued' \subseteq Queued \ {queue[1].id}
  BY <1>3 DEF Queued
<1>6. Queued \ {queue[1].id} \subseteq Queued'
  BY <1>4 DEF Queued
<1> QED
  BY <1>2, <1>5, <1>6

\* A transfer's SETUP packet does not change whose it is.
LEMMA QueuedAfterSetup ==
  ASSUME TypeOK, queue # << >>, queue' = [queue EXCEPT ![1].setup = control_setup]
  PROVE  Queued' = Queued
<1>1. /\ queue \in Seq(Transfer) /\ Len(queue) \in Nat /\ 1 \in 1..Len(queue)
      /\ queue[1] \in Transfer /\ control_setup \in 0..MaxRequests
  BY QueueFacts DEF TypeOK
<1>2. PICK t \in Transfer : t = [queue[1] EXCEPT !.setup = control_setup] /\ t.id = queue[1].id
  <2>1. /\ [queue[1] EXCEPT !.setup = control_setup] \in Transfer
        /\ [queue[1] EXCEPT !.setup = control_setup].id = queue[1].id
    BY <1>1 DEF Transfer
  <2> QED
    BY <2>1
<1>3. queue' = [queue EXCEPT ![1] = t]
  BY <1>2
<1>4. /\ Len(queue') = Len(queue) /\ queue'[1] = t
      /\ \A i \in 1..Len(queue) : i # 1 => queue'[i] = queue[i]
  BY <1>1, <1>3, ExceptSeq
<1>5. \A i \in 1..Len(queue) : queue'[i].id = queue[i].id
  BY <1>2, <1>4
<1> QED
  BY <1>4, <1>5 DEF Queued

\* A transfer is added to those that are queued.
LEMMA QueuedAfterAppend ==
  ASSUME TypeOK, NEW t \in Transfer, queue' = Append(queue, t)
  PROVE  Queued' = Queued \cup {t.id}
<1>1. /\ Len(queue) \in Nat /\ Len(queue') = Len(queue) + 1 /\ queue'[Len(queue) + 1] = t
      /\ \A i \in 1..Len(queue) : queue'[i] = queue[i]
  BY QueueFacts, AppendProperties DEF TypeOK
<1>2. \A i \in 1..Len(queue') : i \in 1..Len(queue) \/ i = Len(queue) + 1
  BY <1>1
<1>3. 1..Len(queue) \subseteq 1..Len(queue') /\ Len(queue) + 1 \in 1..Len(queue')
  BY <1>1
<1>4. Queued' \subseteq Queued \cup {t.id}
  BY <1>1, <1>2 DEF Queued
<1>5. Queued \cup {t.id} \subseteq Queued'
  BY <1>1, <1>3 DEF Queued
<1> QED
  BY <1>4, <1>5

\* Every step of controlTransfer(), of the mouse and of the interrupt is one that the
\* caller's view allows, or none: a call that returns success was carried out once, is
\* off the pipe, and returns its own answer, unless its request was shared.
THEOREM CallRefinement == Spec => ImplementsCall
<1> USE ControlAssumption DEF Requests, None, Unqueued
<1>1. Init => Contract!Init
  <2> SUFFICES ASSUME Init PROVE Contract!Init
    OBVIOUS
  <2>1. Queued = {}
    BY DEF Init, Queued
  <2> QED
    BY <2>1 DEF Init, Contract!Init, NoResult, Contract!NoResult
<1>2. Inv /\ [Next]_vars => [Contract!Next]_(Contract!callVars)
  <2> SUFFICES ASSUME Inv, [Next]_vars PROVE Contract!Next \/ UNCHANGED Contract!callVars
    BY DEF Contract!callVars
  <2>k. queue' = queue => Queued' = Queued
    BY DEF Queued
  <2>e. queue' = << >> => Queued' = {}
    BY DEF Queued
  <2>1. CASE SendSetup
    <3>1. Queued' = Queued
      BY <2>1, QueuedAfterSetup DEF SendSetup, Inv
    <3> QED
      BY <2>1, <3>1 DEF SendSetup, Contract!callVars
  <2>2. ASSUME NEW ok \in BOOLEAN, Complete(ok) PROVE Contract!Next
    <3>0. /\ queue # << >> /\ pc # "fault" /\ queue' = Tail(queue)
          /\ UNCHANGED <<pc, req, result, shared>>
      BY <2>2 DEF Complete
    <3>1. PICK r \in Requests, s \in Requests :
            /\ r = queue[1].id /\ s = queue[1].setup
            /\ served' = [served EXCEPT ![s] = @ + 1]
            /\ s = r \/ {r, s} \subseteq shared
      <4>1. Head(queue) = queue[1] /\ queue[1] \in Transfer /\ 1 \in 1..Len(queue)
        BY <3>0, QueueFacts DEF Inv
      <4>2. queue[1].setup # None
            /\ served' = [served EXCEPT ![queue[1].setup] = @ + 1]
        BY <2>2, <4>1 DEF Complete
      <4>3. queue[1].id \in Requests /\ queue[1].setup \in Requests
        BY <4>1, <4>2 DEF Transfer
      <4>4. queue[1].setup = queue[1].id \/ {queue[1].id, queue[1].setup} \subseteq shared
        BY <4>1, <4>2 DEF Inv, MixInv
      <4> QED
        BY <4>2, <4>3, <4>4
    <3>2. Queued' = Queued \ {r} /\ r \in Queued
      BY <3>0, <3>1, QueuedAfterTail
    <3>3. pc \in Unqueued => req.id # r
      BY <3>2, OpenFacts
    <3>4. Contract!Serve(r, s)
      BY <3>0, <3>1, <3>2, <3>3 DEF Contract!Serve
    <3> QED
      BY <3>4 DEF Contract!Next
  <2>3. CASE StallAll
    <3>1. Contract!Lose
      BY <2>3, <2>e DEF StallAll, Contract!Lose
    <3> QED
      BY <3>1 DEF Contract!Next
  <2>4. CASE Claim
    BY <2>4, <2>k DEF Claim, Contract!callVars
  <2>5. CASE Disconnect
    <3>1. Contract!Lose
      BY <2>5, <2>e DEF Disconnect, Contract!Lose
    <3> QED
      BY <3>1 DEF Contract!Next
  <2>6. ASSUME NEW in \in BOOLEAN, Begin(in) PROVE Contract!Next
    <3>1. Contract!Begin
      BY <2>6, <2>k DEF Begin, Contract!Begin
    <3> QED
      BY <3>1 DEF Contract!Next
  <2>7. CASE Prepare
    <3>1. shared' = IF Queued = {} THEN shared ELSE shared \cup Queued \cup {req.id}
      BY <2>7, OpenFacts DEF Prepare, Meets
    <3>2. Contract!Hand
      BY <2>7, <2>k, <3>1 DEF Prepare, Contract!Hand
    <3> QED
      BY <3>2 DEF Contract!Next
  <2>7a. CASE ResetState
    BY <2>7a, <2>k DEF ResetState, Unqueued, Contract!callVars
  <2>7b. CASE CopyData
    BY <2>7b, <2>k DEF CopyData, Unqueued, Contract!callVars
  <2>8. CASE Queue
    <3>1. CASE device
      <4>1. Queued' = Queued \cup {req.id}
        <5> DEFINE t == [id |-> req.id, in |-> req.in, setup |-> None]
        <5>1. t \in Transfer /\ t.id = req.id
          BY <2>8, OpenFacts DEF Queue, Transfer, Inv, TypeOK
        <5>2. queue' = Append(queue, t)
          BY <2>8, <3>1 DEF Queue
        <5> HIDE DEF t
        <5> QED
          BY <5>1, <5>2, QueuedAfterAppend DEF Inv
      <4> QED
        BY <2>8, <3>1, <4>1 DEF Queue, Contract!callVars
    <3>2. CASE ~device
      <4>1. Contract!Lose
        BY <2>8, <2>k, <3>2 DEF Queue, Contract!Lose
      <4> QED
        BY <4>1 DEF Contract!Next
    <3> QED
      BY <3>1, <3>2
  <2>9. CASE QueueFails
    <3>0. \E ok \in BOOLEAN : ok = FALSE
      BY Zenon
    <3>1. PICK ok \in BOOLEAN, data \in 0..MaxRequests : ok = FALSE /\ data = 0
      BY <3>0
    <3>2. Contract!Return(ok, data)
      BY <2>9, <2>k, <3>1, OpenFacts DEF QueueFails, Return, Contract!Return
    <3> QED
      BY <3>2 DEF Contract!Next
  <2>10. CASE Completed
    BY <2>10, <2>k DEF Completed, Contract!callVars
  <2>11. CASE Timeout
    <3>0. \E ok \in BOOLEAN : ok = FALSE
      BY Zenon
    <3>1. PICK ok \in BOOLEAN, data \in 0..MaxRequests : ok = FALSE /\ data = 0
      BY <3>0
    <3>2. Contract!Return(ok, data)
      BY <2>11, <2>k, <3>1 DEF Timeout, Return, Contract!Return
    <3> QED
      BY <3>2 DEF Contract!Next
  <2>12. CASE Answer
    <3> DEFINE data == IF control_success /\ req.in THEN control_buffer ELSE 0
    <3>1. data \in 0..MaxRequests /\ control_success \in BOOLEAN
      BY DEF Inv, TypeOK
    <3>2. ASSUME control_success, req.id \notin shared
          PROVE  Queued = {} /\ served[req.id] = 1 /\ (req.in => data = req.id)
      BY <2>12, <3>2, OpenFacts DEF Answer, Inv, CallInv, ServedInv
    <3>3. pc = "return" /\ pc' = "idle" /\ UNCHANGED <<queue, req, shared, served>>
          /\ result' = [id |-> req.id, in |-> req.in, ok |-> control_success, data |-> data]
      BY <2>12 DEF Answer, Return
    <3> HIDE DEF data
    <3>4. Contract!Return(control_success, data)
      BY <2>k, <3>2, <3>3 DEF Contract!Return, Contract!Own
    <3> QED
      BY <3>1, <3>4 DEF Contract!Next
  <2>13. CASE Reboot
    <3>1. Contract!Restart
      BY <2>13, <2>e DEF Reboot, Contract!Restart, NoResult, Contract!NoResult
    <3> QED
      BY <3>1 DEF Contract!Next
  <2>14. CASE UNCHANGED vars
    BY <2>14, <2>k DEF vars, Contract!callVars
  <2> QED
    BY <2>1, <2>2, <2>3, <2>4, <2>5, <2>6, <2>7, <2>7a, <2>7b, <2>8, <2>9, <2>10, <2>11, <2>12, <2>13, <2>14
       DEF Next, Mouse, Call
<1> QED
  BY <1>1, <1>2, ControlInvariant, PTL DEF Spec, ImplementsCall, Contract!Spec
=============================================================================
