-------------------------- MODULE MouseReportProofs --------------------------
(***************************************************************************)
(* Proofs about the mouse's reports.  First, that they keep coming         *)
(* (HostStream): for every pool of at least two transfers and any number   *)
(* of replugs and SET_CONFIGURATIONs.  Then, what they say (HIDReport):    *)
(* for every size of a byte, every report descriptor and every report.     *)
(* The two modules share no variable and no constant.                      *)
(***************************************************************************)
EXTENDS HostStream, HIDReport, WellFoundedInduction, TLAPS

\* A transfer belongs to a pipe, and a pipe to a claimed mouse.
PipeInv == (in_pipe => device_ready) /\ (~in_pipe => inflight = 0)

\* pending_in_transfer may be false with a transfer queued, never the converse.
PendingInv == pending_in_transfer /\ pc # "fault" => inflight >= 1

\* The stream is paused only from Pause to Resume.
PausedInv == data_transfers_paused => pc \in {"wait", "configure"}

\* StreamAlive at every point of the polling thread but the resume itself.
AliveInv ==
  in_pipe /\ ~data_transfers_paused /\ pc \notin {"check", "queue", "fault"} => inflight >= 1

\* Every queued transfer but the pending one was left behind by a forced pause.
\* Between ResumeCheck and ResumeQueue a report may requeue such a transfer and
\* mark it pending.
LeakInv == IF pending_in_transfer /\ pc # "queue" THEN inflight <= forced + 1
                                                  ELSE inflight <= forced

\* A pause is forced at most once in a SET_CONFIGURATION.
ForcedInv == forced <= configs /\ (pc \in {"pause", "wait"} => forced + 1 <= configs)

StreamInv == TypeOK /\ PipeInv /\ PendingInv /\ PausedInv /\ AliveInv /\ LeakInv /\ ForcedInv

\* The inductive invariant of HostStream: the flags agree with what is queued.
THEOREM StreamInvariant == Spec => []StreamInv
<1> USE StreamAssumption DEF StreamInv, PipeInv, PendingInv, PausedInv, AliveInv, LeakInv,
                             ForcedInv, TypeOK, pipeVars
<1>1. Init => StreamInv
  <2> SUFFICES ASSUME Init PROVE StreamInv
    OBVIOUS
  <2>1. ~device_ready /\ ~in_pipe /\ ~data_transfers_paused /\ ~pending_in_transfer
    BY DEF Init
  <2>2. inflight = 0 /\ pc = "idle" /\ forced = 0 /\ plugs = 0 /\ configs = 0
    BY DEF Init
  <2>3. device_ready \in BOOLEAN /\ in_pipe \in BOOLEAN
        /\ data_transfers_paused \in BOOLEAN /\ pending_in_transfer \in BOOLEAN
    BY DEF Init
  <2> QED
    BY <2>1, <2>2, <2>3
<1>2. StreamInv /\ [Next]_vars => StreamInv'
  <2> SUFFICES ASSUME StreamInv, [Next]_vars PROVE StreamInv'
    OBVIOUS
  <2>1. ASSUME NEW pipe \in BOOLEAN, Claim(pipe) PROVE StreamInv'
    <3>1. /\ plugs < MaxPlugs /\ plugs' = plugs + 1 /\ pc \in {"idle", "configure"}
          /\ UNCHANGED <<data_transfers_paused, pc, forced, configs>>
      BY <2>1 DEF Claim
    <3>2. device_ready' /\ device_ready' \in BOOLEAN /\ in_pipe' = pipe /\ ~device_ready
      BY <2>1 DEF Claim
    <3>3. ~in_pipe /\ inflight = 0 /\ ~pending_in_transfer
      BY <3>1, <3>2
    <3>4. CASE pipe /\ ~data_transfers_paused
      <4>1. pending_in_transfer' /\ pending_in_transfer' \in BOOLEAN
        BY <2>1, <3>3, <3>4 DEF Claim
      <4>2. inflight' = 1
        BY <2>1, <3>3, <3>4 DEF Claim, QueueDataTransfer
      <4> QED
        BY <3>1, <3>2, <3>3, <3>4, <4>1, <4>2
    <3>5. CASE ~(pipe /\ ~data_transfers_paused)
      <4>1. UNCHANGED <<pending_in_transfer, inflight>>
        BY <2>1, <3>5 DEF Claim
      <4> QED
        BY <3>1, <3>2, <3>3, <3>5, <4>1
    <3> QED
      BY <3>4, <3>5
  <2>2. CASE Disconnect
    <3>1. ~device_ready' /\ ~in_pipe' /\ ~data_transfers_paused' /\ ~pending_in_transfer'
      BY <2>2 DEF Disconnect
    <3>2. inflight' = 0 /\ forced' = 0 /\ UNCHANGED <<pc, plugs, configs>>
      BY <2>2 DEF Disconnect
    <3>3. device_ready' \in BOOLEAN /\ in_pipe' \in BOOLEAN
          /\ data_transfers_paused' \in BOOLEAN /\ pending_in_transfer' \in BOOLEAN
      BY <2>2 DEF Disconnect
    <3> QED
      BY <3>1, <3>2, <3>3
  <2>3. CASE MouseReport
    <3>1. UNCHANGED <<device_ready, in_pipe, data_transfers_paused, pc, forced, plugs, configs>>
      BY <2>3 DEF MouseReport
    <3>2. pending_in_transfer' \in BOOLEAN
      BY <2>3 DEF MouseReport, Requeue
    <3>3. CASE Requeue
      <4>1. pending_in_transfer' /\ in_pipe /\ ~data_transfers_paused
        BY <2>3, <3>3 DEF MouseReport, Requeue
      <4>2. inflight' \in {inflight, inflight - 1} /\ inflight' >= 1 /\ inflight' <= inflight
        BY <2>3, <3>3 DEF MouseReport, QueueDataTransfer
      <4> QED
        BY <3>1, <3>2, <4>1, <4>2
    <3>4. CASE ~Requeue
      <4>1. ~pending_in_transfer' /\ ~(in_pipe /\ ~data_transfers_paused)
        BY <2>3, <3>4 DEF MouseReport, Requeue
      <4>2. inflight > 0 /\ inflight' = inflight - 1
        BY <2>3, <3>4 DEF MouseReport
      <4> QED
        BY <3>1, <3>2, <4>1, <4>2
    <3> QED
      BY <3>3, <3>4
  <2>4. CASE SetConfiguration
    BY <2>4 DEF SetConfiguration
  <2>5. CASE Pause
    BY <2>5 DEF Pause
  <2>6. CASE PauseDone
    BY <2>6 DEF PauseDone
  <2>7. CASE PauseForce
    <3>1. ~pending_in_transfer' /\ pending_in_transfer' \in BOOLEAN
      BY <2>7 DEF PauseForce
    <3>2. forced' = forced + 1 /\ pc = "wait" /\ pc' = "configure" /\ pending_in_transfer
      BY <2>7 DEF PauseForce
    <3>3. UNCHANGED <<device_ready, in_pipe, data_transfers_paused, inflight, plugs, configs>>
      BY <2>7 DEF PauseForce
    <3> QED
      BY <3>1, <3>2, <3>3
  <2>8. CASE Resume
    BY <2>8 DEF Resume
  <2>9. CASE ResumeCheck
    BY <2>9 DEF ResumeCheck, MayQueue
  <2>10. CASE ResumeQueue
    BY <2>10 DEF ResumeQueue, QueueDataTransfer
  <2>11. CASE Reboot
    <3>1. ~device_ready' /\ ~in_pipe' /\ ~data_transfers_paused' /\ ~pending_in_transfer'
      BY <2>11 DEF Reboot
    <3>2. inflight' = 0 /\ forced' = 0 /\ pc' = "idle" /\ UNCHANGED <<plugs, configs>>
      BY <2>11 DEF Reboot
    <3>3. device_ready' \in BOOLEAN /\ in_pipe' \in BOOLEAN
          /\ data_transfers_paused' \in BOOLEAN /\ pending_in_transfer' \in BOOLEAN
      BY <2>11 DEF Reboot
    <3> QED
      BY <3>1, <3>2, <3>3
  <2>12. CASE UNCHANGED vars
    BY <2>12 DEF vars
  <2> QED
    BY <2>1, <2>2, <2>3, <2>4, <2>5, <2>6, <2>7, <2>8, <2>9, <2>10, <2>11, <2>12
       DEF Next, Interrupt, Poll
<1> QED
  BY <1>1, <1>2, PTL DEF Spec

\* A claimed mouse with an IN pipe always has a transfer queued when no
\* SET_CONFIGURATION is being served.
THEOREM StreamNeverDries == Spec => []StreamAlive
<1>1. StreamInv => StreamAlive
  BY DEF StreamInv, PausedInv, AliveInv, StreamAlive
<1> QED
  BY <1>1, StreamInvariant, PTL

\* The transfers of the pipe are one, and one for each pause that timed out.
THEOREM LeakIsBounded == Spec => []InFlightBounded
<1>1. StreamInv => InFlightBounded
  BY DEF StreamInv, TypeOK, LeakInv, InFlightBounded
<1> QED
  BY <1>1, StreamInvariant, PTL

\* Every variable has its type, in every state.
THEOREM TypeCorrect == Spec => []TypeOK
<1>1. StreamInv => TypeOK
  BY DEF StreamInv
<1> QED
  BY <1>1, StreamInvariant, PTL

-----------------------------------------------------------------------------
\* Induction, with the set of the numbers of which the claim holds.
LEMMA NatSetInduction ==
  ASSUME NEW S, 0 \in S, \A n \in Nat : n \in S => n + 1 \in S
  PROVE  Nat \subseteq S
<1> DEFINE R == OpToRel(<, Nat)
           T == Nat \ S
<1>1. IsWellFoundedOn(R, Nat)
  BY NatLessThanWellFounded
<1>2. ASSUME NEW x \in Nat, NEW y \in Nat, x < y PROVE <<x, y>> \in R
  BY <1>2 DEF OpToRel
<1> HIDE DEF R
<1>3. ASSUME T # {} PROVE FALSE
  <2>1. \E m \in T : \A k \in T : ~ (<<k, m>> \in R)
    <3>1. T \subseteq Nat
      OBVIOUS
    <3> HIDE DEF T
    <3> QED
      BY <1>1, <1>3, <3>1, WFMin
  <2>2. PICK m \in T : \A k \in T : ~ (<<k, m>> \in R)
    BY <2>1
  <2>3. m \in Nat /\ m # 0 /\ m - 1 \in Nat /\ m - 1 < m
    BY <2>2
  <2>4. m - 1 \notin T
    BY <1>2, <2>2, <2>3
  <2> QED
    BY <2>2, <2>3, <2>4
<1> QED
  BY <1>3

\* The same up to a bound.
LEMMA IntervalInduction ==
  ASSUME NEW N \in Nat, NEW S, 0 \in S, \A n \in 0..(N - 1) : n \in S => n + 1 \in S
  PROVE  0..N \subseteq S
<1> DEFINE T == {n \in Nat : n <= N => n \in S}
<1>1. 0 \in T
  OBVIOUS
<1>2. \A n \in Nat : n \in T => n + 1 \in T
  OBVIOUS
<1>3. Nat \subseteq T
  <2> HIDE DEF T
  <2> QED
    BY <1>1, <1>2, NatSetInduction
<1> QED
  BY <1>3

\* A recursion over 0..N has a solution.
LEMMA RecursionExists ==
  ASSUME NEW V, NEW a \in V, NEW N \in Nat, NEW step \in [1..N -> [V -> V]]
  PROVE  \E f \in [0..N -> V] : f[0] = a /\ \A i \in 1..N : f[i] = step[i][f[i - 1]]
<1> DEFINE Solves(f, n) ==
             f \in [0..n -> V] /\ f[0] = a /\ \A i \in 1..n : f[i] = step[i][f[i - 1]]
           S == {n \in 0..N : \E f : Solves(f, n)}
<1>1. 0 \in S
  <2>1. Solves([i \in 0..0 |-> a], 0)
    OBVIOUS
  <2> HIDE DEF Solves
  <2> QED
    BY <2>1
<1>2. ASSUME NEW n \in 0..(N - 1), n \in S PROVE n + 1 \in S
  <2>1. PICK f : Solves(f, n)
    BY <1>2
  <2> DEFINE g == [i \in 0..(n + 1) |-> IF i <= n THEN f[i] ELSE step[n + 1][f[n]]]
  <2>2. f[n] \in V /\ n + 1 \in 1..N /\ step[n + 1] \in [V -> V]
    BY <2>1
  <2>3. step[n + 1][f[n]] \in V
    BY <2>2
  <2>4. g \in [0..(n + 1) -> V] /\ g[0] = a
    BY <2>1, <2>3
  <2>5. ASSUME NEW i \in 1..(n + 1) PROVE g[i] = step[i][g[i - 1]]
    BY <2>1
  <2>6. Solves(g, n + 1)
    <3> HIDE DEF g
    <3> QED
      BY <2>4, <2>5
  <2> HIDE DEF Solves, g
  <2> QED
    BY <2>6
<1>3. N \in S
  <2> HIDE DEF S
  <2>1. 0..N \subseteq S
    BY <1>1, <1>2, IntervalInduction
  <2> QED
    BY <2>1
<1>4. PICK f : Solves(f, N)
  BY <1>3
<1> QED
  BY <1>4

-----------------------------------------------------------------------------
\* The powers of two: the recursion defines them, they are positive and grow.
LEMMA Pow2Defined ==
  /\ Pow2[0] = 1
  /\ \A n \in Nat : Pow2[n] \in Nat \ {0} /\ Pow2[n + 1] = 2 * Pow2[n]
<1> DEFINE Solves(f, n) == f \in [0..n -> Nat] /\ f[0] = 1 /\ \A i \in 1..n : f[i] = 2 * f[i - 1]
           At0(n) == CHOOSE f : Solves(f, n)
           pow == [n \in Nat |-> At0(n)[n]]
<1>1. ASSUME NEW n \in Nat PROVE Solves(At0(n), n)
  <2> DEFINE step == [i \in 1..n |-> [x \in Nat |-> 2 * x]]
  <2>1. step \in [1..n -> [Nat -> Nat]]
    OBVIOUS
  <2>2. \E f \in [0..n -> Nat] : f[0] = 1 /\ \A i \in 1..n : f[i] = step[i][f[i - 1]]
    <3> HIDE DEF step
    <3>1. PICK V : V = Nat
      OBVIOUS
    <3>2. 1 \in V /\ step \in [1..n -> [V -> V]]
      BY <2>1, <3>1
    <3>3. \E f \in [0..n -> V] : f[0] = 1 /\ \A i \in 1..n : f[i] = step[i][f[i - 1]]
      BY <3>2, RecursionExists
    <3> QED
      BY <3>1, <3>3
  <2>3. PICK f \in [0..n -> Nat] : f[0] = 1 /\ \A i \in 1..n : f[i] = step[i][f[i - 1]]
    BY <2>2
  <2>5. ASSUME NEW i \in 1..n PROVE f[i] = 2 * f[i - 1]
    <3>1. f[i] = step[i][f[i - 1]]
      BY <2>3
    <3>2. f[i - 1] \in Nat
      OBVIOUS
    <3> QED
      BY <3>1, <3>2
  <2>6. Solves(f, n)
    BY <2>3, <2>5
  <2> HIDE DEF Solves
  <2> QED
    BY <2>6
<1>2. ASSUME NEW n \in Nat, NEW f, NEW m \in Nat, NEW g, n <= m, Solves(f, n), Solves(g, m)
      PROVE  f[n] = g[n]
  <2> DEFINE S == {i \in 0..n : f[i] = g[i]}
  <2>1. 0 \in S
    BY <1>2
  <2>2. \A i \in 0..(n - 1) : i \in S => i + 1 \in S
    <3>1. ASSUME NEW i \in 0..(n - 1), f[i] = g[i] PROVE f[i + 1] = g[i + 1]
      <4>1. i + 1 \in 1..n /\ i + 1 \in 1..m /\ (i + 1) - 1 = i
        BY <1>2
      <4> QED
        BY <1>2, <3>1, <4>1
    <3> QED
      BY <3>1
  <2>3. 0..n \subseteq S
    <3> HIDE DEF S
    <3> QED
      BY <2>1, <2>2, IntervalInduction
  <2> QED
    BY <2>3
<1>3. ASSUME NEW n \in Nat PROVE pow[n] \in Nat /\ pow[n + 1] = 2 * pow[n]
  <2>1. Solves(At0(n), n) /\ Solves(At0(n + 1), n + 1)
    <3>1. n + 1 \in Nat
      OBVIOUS
    <3> HIDE DEF Solves, At0
    <3> QED
      BY <1>1, <3>1
  <2>2. At0(n)[n] = At0(n + 1)[n]
    <3> HIDE DEF Solves, At0
    <3> QED
      BY <1>2, <2>1
  <2>3. At0(n)[n] \in Nat /\ At0(n + 1)[n + 1] = 2 * At0(n + 1)[n]
    <3>1. n + 1 \in 1..(n + 1) /\ (n + 1) - 1 = n /\ n \in 0..n
      OBVIOUS
    <3> HIDE DEF At0
    <3> QED
      BY <2>1, <3>1
  <2> HIDE DEF At0
  <2> QED
    BY <2>2, <2>3
<1>4. pow[0] = 1
  <2>1. At0(0)[0] = 1
    <3>1. Solves(At0(0), 0)
      BY <1>1
    <3> HIDE DEF At0
    <3> QED
      BY <3>1
  <2> HIDE DEF At0
  <2> QED
    BY <2>1
<1>5. pow = [n \in Nat |-> IF n = 0 THEN 1 ELSE 2 * pow[n - 1]]
  <2>1. ASSUME NEW n \in Nat, n # 0 PROVE pow[n] = 2 * pow[n - 1]
    <3>1. n - 1 \in Nat /\ (n - 1) + 1 = n
      BY <2>1
    <3> HIDE DEF pow
    <3> QED
      BY <1>3, <3>1
  <2>2. pow = [n \in Nat |-> pow[n]]
    <3> HIDE DEF At0
    <3> QED
      OBVIOUS
  <2> HIDE DEF pow
  <2> QED
    BY <1>4, <2>1, <2>2
<1>6. Pow2 = [n \in Nat |-> IF n = 0 THEN 1 ELSE 2 * Pow2[n - 1]]
  <2> HIDE DEF pow
  <2>1. Pow2 = CHOOSE f : f = [n \in Nat |-> IF n = 0 THEN 1 ELSE 2 * f[n - 1]]
    BY DEF Pow2
  <2> QED
    BY <1>5, <2>1
<1>7. Pow2[0] = 1 /\ \A n \in Nat : Pow2[n + 1] = 2 * Pow2[n]
  <2>1. ASSUME NEW n \in Nat PROVE Pow2[n + 1] = 2 * Pow2[n]
    <3>1. n + 1 \in Nat /\ n + 1 # 0 /\ (n + 1) - 1 = n
      OBVIOUS
    <3> QED
      BY <1>6, <3>1
  <2> QED
    BY <1>6, <2>1
<1>8. \A n \in Nat : Pow2[n] \in Nat \ {0}
  <2> DEFINE S == {n \in Nat : Pow2[n] \in Nat \ {0}}
  <2>1. 0 \in S /\ \A n \in Nat : n \in S => n + 1 \in S
    BY <1>7
  <2>2. Nat \subseteq S
    <3> HIDE DEF S
    <3> QED
      BY <2>1, NatSetInduction
  <2> QED
    BY <2>2
<1> QED
  BY <1>7, <1>8

LEMMA Pow2Grows ==
  ASSUME NEW m \in Nat, NEW n \in Nat, m <= n
  PROVE  Pow2[m] <= Pow2[n]
<1> DEFINE S == {k \in Nat : Pow2[m] <= Pow2[m + k]}
<1>1. 0 \in S
  BY Pow2Defined
<1>2. ASSUME NEW k \in Nat, k \in S PROVE k + 1 \in S
  <2>1. m + k \in Nat /\ m + (k + 1) = (m + k) + 1
    OBVIOUS
  <2>2. /\ Pow2[m + (k + 1)] = 2 * Pow2[m + k] /\ Pow2[m] <= Pow2[m + k]
        /\ Pow2[m] \in Nat /\ Pow2[m + k] \in Nat
    BY <1>2, <2>1, Pow2Defined
  <2> QED
    BY <2>2
<1>3. Nat \subseteq S
  <2> HIDE DEF S
  <2> QED
    BY <1>1, <1>2, NatSetInduction
<1>4. n - m \in Nat /\ m + (n - m) = n
  OBVIOUS
<1> QED
  BY <1>3, <1>4

-----------------------------------------------------------------------------
\* Division and remainder.
LEMMA DivMod ==
  ASSUME NEW a \in Int, NEW d \in Nat \ {0}
  PROVE  /\ a \div d \in Int /\ a % d \in 0..(d - 1)
         /\ a = (d * (a \div d)) + (a % d)
OBVIOUS

LEMMA DivModUnique ==
  ASSUME NEW q \in Int, NEW d \in Nat \ {0}, NEW r \in 0..(d - 1)
  PROVE  (d * q + r) % d = r /\ (d * q + r) \div d = q
OBVIOUS

\* One bit more.
LEMMA ModDouble ==
  ASSUME NEW u \in Nat, NEW d \in Nat \ {0}
  PROVE  u % (2 * d) = (u % d) + ((u \div d) % 2) * d
<1> DEFINE q == u \div d
           r == u % d
           b == q % 2
           h == q \div 2
<1>1. q \in Int /\ r \in 0..(d - 1) /\ u = d * q + r
  BY DivMod
<1>2. h \in Int /\ b \in {0, 1} /\ q = 2 * h + b
  BY <1>1
<1> HIDE DEF q, r, b, h
<1>3. d * q = 2 * d * h + b * d
  BY <1>1, <1>2
<1>4. b * d + r \in 0..(2 * d - 1) /\ 2 * d \in Nat \ {0}
  BY <1>1, <1>2
<1>5. u = (2 * d) * h + (b * d + r)
  BY <1>1, <1>2, <1>3
<1>6. ((2 * d) * h + (b * d + r)) % (2 * d) = b * d + r
  BY <1>2, <1>4, DivModUnique
<1>7. u % (2 * d) = r + b * d
  BY <1>1, <1>2, <1>5, <1>6
<1> QED
  BY <1>7 DEF q, r, b

-----------------------------------------------------------------------------
\* What is read of a field: the sum of its bits, each with its power of two.
BitsOf(data, p) == p.bits \in Nat /\ p.offset \in Nat /\ \A i \in 0..(p.bits - 1) : data[p.offset + i] \in {0, 1}

LEMMA UnsignedIs ==
  ASSUME NEW data, NEW p, BitsOf(data, p)
  PROVE  \E f \in [0..p.bits -> Nat] :
           /\ f[0] = 0 /\ Unsigned(data, p) = f[p.bits]
           /\ \A n \in 1..p.bits : f[n] = f[n - 1] + data[p.offset + n - 1] * Pow2[n - 1]
<1>1. PICK last \in Nat : last = p.bits
  BY DEF BitsOf
<1> DEFINE term(n) == data[p.offset + n - 1] * Pow2[n - 1]
           Sums(f) == f = [n \in 0..last |-> IF n = 0 THEN 0 ELSE f[n - 1] + term(n)]
           value == CHOOSE f : Sums(f)
<1>2. ASSUME NEW n \in 1..last PROVE term(n) \in Nat
  <2>1. n - 1 \in 0..(last - 1) /\ n - 1 \in Nat /\ p.offset + (n - 1) = p.offset + n - 1
    BY <1>1 DEF BitsOf
  <2>2. data[p.offset + n - 1] \in {0, 1} /\ Pow2[n - 1] \in Nat
    BY <1>1, <2>1, Pow2Defined DEF BitsOf
  <2> QED
    BY <2>2
<1> HIDE DEF term
<1>3. PICK f \in [0..last -> Nat] : f[0] = 0 /\ \A n \in 1..last : f[n] = f[n - 1] + term(n)
  <2> DEFINE step == [n \in 1..last |-> [x \in Nat |-> x + term(n)]]
  <2>1. PICK V : V = Nat
    OBVIOUS
  <2>2. 0 \in V /\ step \in [1..last -> [V -> V]]
    BY <1>2, <2>1
  <2>3. PICK f \in [0..last -> V] : f[0] = 0 /\ \A i \in 1..last : f[i] = step[i][f[i - 1]]
    <3>1. PICK a \in V : a = 0
      BY <2>2
    <3> HIDE DEF step, Sums, value
    <3>2. \E f \in [0..last -> V] : f[0] = a /\ \A i \in 1..last : f[i] = step[i][f[i - 1]]
      BY <2>2, RecursionExists
    <3> QED
      BY <3>1, <3>2
  <2>4. ASSUME NEW n \in 1..last PROVE f[n] = f[n - 1] + term(n)
    <3>1. f[n - 1] \in Nat
      BY <1>1, <2>1
    <3>2. f[n] = step[n][f[n - 1]]
      BY <2>3
    <3> QED
      BY <3>1, <3>2
  <2> QED
    BY <2>1, <2>3, <2>4
<1>4. Sums(f)
  <2>1. f = [n \in 0..last |-> f[n]]
    OBVIOUS
  <2>2. ASSUME NEW n \in 0..last PROVE f[n] = IF n = 0 THEN 0 ELSE f[n - 1] + term(n)
    BY <1>1, <1>3
  <2> QED
    BY <2>1, <2>2
<1>5. Sums(value)
  <2> HIDE DEF Sums
  <2> QED
    BY <1>4
<1>6. value[last] = f[last]
  <2> DEFINE S == {n \in 0..last : value[n] = f[n]}
  <2>0. value[0] = 0 /\ \A n \in 1..last : value[n] = value[n - 1] + term(n)
    <3> HIDE DEF value
    <3> QED
      BY <1>1, <1>5
  <2> HIDE DEF value
  <2>1. 0 \in S
    BY <1>1, <1>3, <2>0
  <2>2. \A n \in 0..(last - 1) : n \in S => n + 1 \in S
    <3>1. ASSUME NEW n \in 0..(last - 1), value[n] = f[n] PROVE value[n + 1] = f[n + 1]
      <4>1. n + 1 \in 1..last /\ (n + 1) - 1 = n
        BY <1>1
      <4> QED
        BY <1>3, <2>0, <3>1, <4>1
    <3> QED
      BY <1>1, <3>1
  <2>3. 0..last \subseteq S
    <3> HIDE DEF S
    <3> QED
      BY <1>1, <2>1, <2>2, IntervalInduction
  <2> QED
    BY <1>1, <2>3
<1>7. Unsigned(data, p) = value[last]
  BY <1>1 DEF Unsigned, term
<1> QED
  <2> HIDE DEF value
  <2> QED
    BY <1>1, <1>3, <1>6, <1>7 DEF term

\* It is less than the power of two of its width.
LEMMA UnsignedRange ==
  ASSUME NEW data, NEW p, BitsOf(data, p)
  PROVE  Unsigned(data, p) \in 0..(Pow2[p.bits] - 1)
<1>1. PICK f \in [0..p.bits -> Nat] :
           /\ f[0] = 0 /\ Unsigned(data, p) = f[p.bits]
           /\ \A n \in 1..p.bits : f[n] = f[n - 1] + data[p.offset + n - 1] * Pow2[n - 1]
  BY UnsignedIs
<1> DEFINE S == {n \in 0..p.bits : f[n] < Pow2[n]}
<1>2. p.bits \in Nat
  BY DEF BitsOf
<1>3. 0 \in S
  BY <1>1, <1>2, Pow2Defined
<1>4. ASSUME NEW n \in 0..(p.bits - 1), n \in S PROVE n + 1 \in S
  <2>1. n \in Nat /\ n + 1 \in 1..p.bits /\ (n + 1) - 1 = n /\ p.offset + (n + 1) - 1 = p.offset + n
    BY <1>2 DEF BitsOf
  <2>2. f[n + 1] = f[n] + data[p.offset + n] * Pow2[n] /\ data[p.offset + n] \in {0, 1}
    BY <1>1, <2>1 DEF BitsOf
  <2>3. Pow2[n + 1] = 2 * Pow2[n] /\ Pow2[n] \in Nat /\ f[n] \in Nat
    <3>1. f[n] \in Nat
      BY <1>2
    <3> QED
      BY <2>1, <3>1, Pow2Defined
  <2> QED
    BY <1>4, <2>1, <2>2, <2>3
<1>5. 0..p.bits \subseteq S
  <2> HIDE DEF S
  <2> QED
    BY <1>2, <1>3, <1>4, IntervalInduction
<1>6. f[p.bits] \in Nat /\ f[p.bits] < Pow2[p.bits] /\ Pow2[p.bits] \in Nat
  <2>1. f[p.bits] \in Nat /\ p.bits \in S
    BY <1>2, <1>5
  <2> QED
    BY <1>2, <2>1, Pow2Defined
<1> QED
  BY <1>1, <1>6

\* Two frames with the same bits in a field have the same value there.
LEMMA UnsignedSame ==
  ASSUME NEW data, NEW other, NEW p, BitsOf(data, p),
         \A i \in 0..(p.bits - 1) : other[p.offset + i] = data[p.offset + i]
  PROVE  Unsigned(other, p) = Unsigned(data, p)
<1>0. BitsOf(other, p) /\ p.bits \in Nat
  BY DEF BitsOf
<1>1. PICK f \in [0..p.bits -> Nat] :
           /\ f[0] = 0 /\ Unsigned(data, p) = f[p.bits]
           /\ \A n \in 1..p.bits : f[n] = f[n - 1] + data[p.offset + n - 1] * Pow2[n - 1]
  BY UnsignedIs
<1>2. PICK g \in [0..p.bits -> Nat] :
           /\ g[0] = 0 /\ Unsigned(other, p) = g[p.bits]
           /\ \A n \in 1..p.bits : g[n] = g[n - 1] + other[p.offset + n - 1] * Pow2[n - 1]
  BY <1>0, UnsignedIs
<1> DEFINE S == {n \in 0..p.bits : f[n] = g[n]}
<1>3. 0 \in S
  BY <1>0, <1>1, <1>2
<1>4. ASSUME NEW n \in 0..(p.bits - 1), n \in S PROVE n + 1 \in S
  <2>1. n + 1 \in 1..p.bits /\ (n + 1) - 1 = n /\ p.offset + (n + 1) - 1 = p.offset + n
    BY <1>0 DEF BitsOf
  <2> QED
    BY <1>1, <1>2, <1>4, <2>1
<1>5. 0..p.bits \subseteq S
  <2> HIDE DEF S
  <2> QED
    BY <1>0, <1>3, <1>4, IntervalInduction
<1> QED
  BY <1>0, <1>1, <1>2, <1>5

\* The bits of a number, put together again.
LEMMA UnsignedOfBits ==
  ASSUME NEW data, NEW p, p.bits \in Nat, p.offset \in Nat, NEW u \in Nat,
         \A i \in 0..(p.bits - 1) : data[p.offset + i] = (u \div Pow2[i]) % 2
  PROVE  BitsOf(data, p) /\ Unsigned(data, p) = u % Pow2[p.bits]
<1>1. BitsOf(data, p)
  <2>1. ASSUME NEW i \in 0..(p.bits - 1) PROVE data[p.offset + i] \in {0, 1}
    <3>1. i \in Nat
      OBVIOUS
    <3>2. Pow2[i] \in Nat \ {0}
      BY <3>1, Pow2Defined
    <3>3. u \div Pow2[i] \in Int
      BY <3>2
    <3> QED
      BY <3>3
  <2> QED
    BY <2>1 DEF BitsOf
<1>2. PICK f \in [0..p.bits -> Nat] :
           /\ f[0] = 0 /\ Unsigned(data, p) = f[p.bits]
           /\ \A n \in 1..p.bits : f[n] = f[n - 1] + data[p.offset + n - 1] * Pow2[n - 1]
  BY <1>1, UnsignedIs
<1> DEFINE S == {n \in 0..p.bits : f[n] = u % Pow2[n]}
<1>3. 0 \in S
  <2>1. f[0] = 0 /\ u % Pow2[0] = 0
    BY <1>2, Pow2Defined
  <2> QED
    BY <2>1
<1>4. ASSUME NEW n \in 0..(p.bits - 1), n \in S PROVE n + 1 \in S
  <2>1. n \in Nat /\ n + 1 \in 1..p.bits /\ (n + 1) - 1 = n /\ p.offset + (n + 1) - 1 = p.offset + n
    OBVIOUS
  <2>2. f[n + 1] = f[n] + ((u \div Pow2[n]) % 2) * Pow2[n]
    BY <1>2, <2>1
  <2>3. Pow2[n + 1] = 2 * Pow2[n] /\ Pow2[n] \in Nat \ {0}
    BY <2>1, Pow2Defined
  <2>4. u % (2 * Pow2[n]) = (u % Pow2[n]) + ((u \div Pow2[n]) % 2) * Pow2[n]
    BY <2>3, ModDouble
  <2> QED
    BY <1>4, <2>1, <2>2, <2>3, <2>4
<1>5. 0..p.bits \subseteq S
  <2> HIDE DEF S
  <2> QED
    BY <1>3, <1>4, IntervalInduction
<1> QED
  BY <1>1, <1>2, <1>5

-----------------------------------------------------------------------------
\* The values that the bits of a place can hold.
Holds(p) == IF p.min < 0 THEN (-Pow2[p.bits - 1])..(Pow2[p.bits - 1] - 1) ELSE 0..(Pow2[p.bits] - 1)

LEMMA PlacePow2 ==
  ASSUME NEW p \in Place, p.bits > 0
  PROVE  /\ p.offset \in Nat /\ p.bits \in Nat /\ p.min \in Int /\ p.max \in Int
         /\ Pow2[p.bits - 1] \in Nat \ {0} /\ Pow2[p.bits] \in Nat \ {0}
         /\ Pow2[p.bits] = 2 * Pow2[p.bits - 1]
<1>1. p.offset \in Nat /\ p.bits \in Nat /\ p.min \in Int /\ p.max \in Int
  BY DEF Place
<1>2. p.bits - 1 \in Nat /\ (p.bits - 1) + 1 = p.bits
  BY <1>1
<1>3. Pow2[p.bits - 1] \in Nat \ {0} /\ Pow2[(p.bits - 1) + 1] = 2 * Pow2[p.bits - 1]
  BY <1>2, Pow2Defined
<1> QED
  BY <1>1, <1>2, <1>3, Pow2Defined

\* extractValue() returns one of them.
LEMMA ExtractRange ==
  ASSUME NEW data, NEW p \in Place, p.bits > 0, BitsOf(data, p)
  PROVE  extractValue(data, p) \in Holds(p) /\ extractValue(data, p) \in Int
<1>1. Unsigned(data, p) \in 0..(Pow2[p.bits] - 1)
  BY UnsignedRange
<1>2. /\ p.min \in Int /\ Pow2[p.bits - 1] \in Nat \ {0} /\ Pow2[p.bits] \in Nat \ {0}
      /\ Pow2[p.bits] = 2 * Pow2[p.bits - 1]
  BY PlacePow2
<1>3. CASE p.min < 0
  <2>1. extractValue(data, p) \in (-Pow2[p.bits - 1])..(Pow2[p.bits - 1] - 1)
    BY <1>1, <1>2, <1>3 DEF extractValue
  <2> QED
    BY <1>2, <1>3, <2>1 DEF Holds
<1>4. CASE ~ (p.min < 0)
  <2>1. extractValue(data, p) \in 0..(Pow2[p.bits] - 1)
    BY <1>1, <1>2, <1>4 DEF extractValue
  <2> QED
    BY <1>2, <1>4, <2>1 DEF Holds
<1> QED
  BY <1>2, <1>3, <1>4

\* A value that a place can hold, written and read again.
LEMMA ExtractInverse ==
  ASSUME NEW data, NEW p \in Place, p.bits > 0, NEW c \in Holds(p),
         \A i \in 0..(p.bits - 1) : data[p.offset + i] = ((c % Pow2[p.bits]) \div Pow2[i]) % 2
  PROVE  extractValue(data, p) = c
<1>1. Pow2[p.bits] \in Nat \ {0} /\ c \in Int /\ p.bits \in Nat /\ p.offset \in Nat
  BY PlacePow2 DEF Holds
<1>2. c % Pow2[p.bits] \in Nat /\ (c % Pow2[p.bits]) % Pow2[p.bits] = c % Pow2[p.bits]
  BY <1>1
<1>3. Unsigned(data, p) = c % Pow2[p.bits]
  BY <1>1, <1>2, UnsignedOfBits
<1>4. CASE p.min < 0
  <2>1. c \in (-Pow2[p.bits - 1])..(Pow2[p.bits - 1] - 1)
    BY <1>4 DEF Holds
  <2>2. c % Pow2[p.bits] = IF c < 0 THEN c + Pow2[p.bits] ELSE c
    BY <2>1, PlacePow2
  <2> QED
    BY <1>3, <1>4, <2>1, <2>2, PlacePow2 DEF extractValue
<1>5. CASE ~ (p.min < 0)
  <2>1. c \in 0..(Pow2[p.bits] - 1)
    BY <1>5 DEF Holds
  <2>2. c % Pow2[p.bits] = c
    BY <1>1, <2>1
  <2> QED
    BY <1>3, <1>5, <2>2 DEF extractValue
<1> QED
  BY <1>4, <1>5

\* Clamping leaves a value in the place's range, if the limits are reachable.
LEMMA ClampHolds ==
  ASSUME NEW p \in Place, p.bits > 0, p.min <= p.max, NEW width, Fits(p, width), NEW v \in Holds(p)
  PROVE  Clamp(v, p) \in Holds(p)
<1>1. p.min \in Int /\ p.max \in Int /\ Pow2[p.bits - 1] \in Nat \ {0} /\ Pow2[p.bits] \in Nat \ {0}
  BY PlacePow2
<1>2. CASE p.min < 0
  <2>1. v \in (-Pow2[p.bits - 1])..(Pow2[p.bits - 1] - 1) /\ -Pow2[p.bits - 1] <= p.max
    BY <1>2 DEF Fits, Holds
  <2>2. Clamp(v, p) \in (-Pow2[p.bits - 1])..(Pow2[p.bits - 1] - 1)
    BY <1>1, <1>2, <2>1 DEF Clamp
  <2> QED
    BY <1>2, <2>2 DEF Holds
<1>3. CASE ~ (p.min < 0)
  <2>1. v \in 0..(Pow2[p.bits] - 1) /\ p.min < Pow2[p.bits]
    BY <1>3 DEF Fits, Holds
  <2>2. Clamp(v, p) \in 0..(Pow2[p.bits] - 1)
    BY <1>1, <1>3, <2>1 DEF Clamp
  <2> QED
    BY <1>3, <2>2 DEF Holds
<1> QED
  BY <1>2, <1>3

\* What fits into the width of a variable of MouseState is not changed by it.
LEMMA WrappedSame ==
  ASSUME NEW p \in Place, p.bits > 0, NEW width \in Nat \ {0}, Fits(p, width), NEW v \in Holds(p)
  PROVE  Wrapped(v, width) = v
<1>0. p.bits \in Nat /\ p.min \in Int /\ width - 1 \in Nat
  BY PlacePow2
<1> DEFINE half == Pow2[width - 1]
<1>1. half \in Nat \ {0} /\ Pow2[width] = 2 * half
  <2>1. width - 1 \in Nat /\ (width - 1) + 1 = width
    OBVIOUS
  <2> QED
    BY <2>1, Pow2Defined
<1>2. v \in (-half)..(half - 1)
  <2>1. CASE p.min < 0
    <3>1. p.bits - 1 \in Nat /\ p.bits - 1 <= width - 1
      BY <1>0, <2>1 DEF Fits
    <3>2. Pow2[p.bits - 1] <= half
      BY <1>0, <3>1, Pow2Grows
    <3> HIDE DEF half
    <3> QED
      BY <1>1, <2>1, <3>2, PlacePow2 DEF Holds
  <2>2. CASE ~ (p.min < 0)
    <3>1. p.bits <= width - 1
      BY <1>0, <2>2 DEF Fits
    <3>2. Pow2[p.bits] <= half
      BY <1>0, <3>1, Pow2Grows
    <3> HIDE DEF half
    <3> QED
      BY <1>1, <2>2, <3>2, PlacePow2 DEF Holds
  <2> QED
    BY <2>1, <2>2
<1> HIDE DEF half
<1>3. (v + half) % (2 * half) = v + half
  BY <1>1, <1>2
<1> QED
  BY <1>1, <1>2, <1>3 DEF Wrapped, half

-----------------------------------------------------------------------------
\* A frame stays a frame when a value is put into it.
Last == MaxBits + 4 * ByteBits

LEMMA FrameBits ==
  /\ ByteBits \in Nat \ {0} /\ MaxBits \in Nat /\ Last \in Nat
  /\ Bits = [0..Last -> {0, 1}] /\ Blank \in Bits
BY ReportAssumption DEF Last, Bits, Blank

LEMMA ClampType ==
  ASSUME NEW p \in Place, NEW v \in Int
  PROVE  Clamp(v, p) \in Int
BY DEF Place, Clamp

LEMMA InsertType ==
  ASSUME NEW data \in Bits, NEW p \in Place, p.bits > 0, NEW v \in Int
  PROVE  insertValue(data, p, v) \in Bits
<1>1. DOMAIN data = 0..Last /\ \A b \in 0..Last : data[b] \in {0, 1}
  BY FrameBits
<1>2. ASSUME NEW b \in p.offset..(p.offset + p.bits - 1)
      PROVE  ((Clamp(v, p) % Pow2[p.bits]) \div Pow2[b - p.offset]) % 2 \in {0, 1}
  <2>1. b - p.offset \in Nat
    BY PlacePow2
  <2>2. Pow2[b - p.offset] \in Nat \ {0} /\ Pow2[p.bits] \in Nat \ {0} /\ Clamp(v, p) \in Int
    BY <2>1, Pow2Defined, PlacePow2, ClampType
  <2>3. (Clamp(v, p) % Pow2[p.bits]) \in Int
    BY <2>2
  <2>4. ((Clamp(v, p) % Pow2[p.bits]) \div Pow2[b - p.offset]) \in Int
    BY <2>2, <2>3, DivMod
  <2> QED
    BY <2>4
<1> QED
  BY <1>1, <1>2, FrameBits DEF insertValue

\* It changes the bits of its place, and no others.
LEMMA InsertBits ==
  ASSUME NEW data \in Bits, NEW p \in Place, NEW v, NEW b \in 0..Last
  PROVE  insertValue(data, p, v)[b] =
           IF b \in Span(p) THEN ((Clamp(v, p) % Pow2[p.bits]) \div Pow2[b - p.offset]) % 2 ELSE data[b]
BY FrameBits DEF insertValue, Span

\* The bits of a place inside a report.
LEMMA PlaceBits ==
  ASSUME NEW data \in Bits, NEW p \in Place, p.bits > 0, p.offset + p.bits <= Last + 1
  PROVE  BitsOf(data, p) /\ Span(p) \subseteq 0..Last
<1>1. p.offset \in Nat /\ p.bits \in Nat /\ Last \in Nat /\ \A b \in 0..Last : data[b] \in {0, 1}
  BY PlacePow2, FrameBits
<1> QED
  BY <1>1 DEF BitsOf, Span

\* The fields of a report, each at a place inside it.
GoodFields ==
  \A f \in DOMAIN field :
    f \in Fields /\ field[f] \in Place /\ field[f].bits > 0 /\ field[f].offset + field[f].bits <= Last + 1

\* A report gives integers, and they give a frame.
LEMMA ExtractedType ==
  ASSUME GoodFields, NEW data \in Bits
  PROVE  Extracted(data) \in [Fields -> Int] /\ Extracted(data)["Buttons"] \in Nat
<1>1. ASSUME NEW f \in DOMAIN field
      PROVE  extractValue(data, field[f]) \in Int /\ Unsigned(data, field[f]) \in Nat
  <2>1. field[f] \in Place /\ field[f].bits > 0 /\ BitsOf(data, field[f])
    BY PlaceBits DEF GoodFields
  <2>2. Unsigned(data, field[f]) \in 0..(Pow2[field[f].bits] - 1)
    BY <2>1, UnsignedRange
  <2> QED
    BY <2>1, <2>2, ExtractRange
<1>2. ASSUME NEW v \in Int, NEW width \in Nat \ {0} PROVE Wrapped(v, width) \in Int
  <2>1. width - 1 \in Nat
    OBVIOUS
  <2>2. Pow2[width - 1] \in Nat \ {0} /\ Pow2[width] \in Nat \ {0}
    BY <2>1, Pow2Defined
  <2> QED
    BY <2>2 DEF Wrapped
<1>3. ByteBits \in Nat \ {0} /\ 2 * ByteBits \in Nat \ {0} /\ Pow2[ByteBits] \in Nat \ {0}
  BY FrameBits, Pow2Defined
<1>4. ASSUME NEW n \in Nat PROVE n % Pow2[ByteBits] \in Nat
  BY <1>3
<1> DEFINE value(f) ==
  IF f \notin DOMAIN field THEN 0
  ELSE LET v == extractValue(data, field[f])
       IN CASE f = "Buttons" -> Unsigned(data, field[f]) % Pow2[ByteBits]
            [] f = "Wheel" -> Wrapped(v, ByteBits)
            [] OTHER -> Wrapped(v, 2 * ByteBits)
<1>5. ASSUME NEW f \in Fields PROVE value(f) \in Int /\ (f = "Buttons" => value(f) \in Nat)
  <2>1. CASE f \notin DOMAIN field
    BY <2>1
  <2>2. CASE f \in DOMAIN field /\ f = "Buttons"
    BY <1>1, <1>4, <2>2
  <2>3. CASE f \in DOMAIN field /\ f = "Wheel"
    BY <1>1, <1>2, <1>3, <2>3
  <2>4. CASE f \in DOMAIN field /\ f # "Buttons" /\ f # "Wheel"
    BY <1>1, <1>2, <1>3, <2>4
  <2> QED
    BY <2>1, <2>2, <2>3, <2>4
<1>6. Extracted(data) = [f \in Fields |-> value(f)]
  BY DEF Extracted
<1>7. "Buttons" \in Fields
  BY DEF Fields
<1> HIDE DEF value
<1> QED
  BY <1>5, <1>6, <1>7

\* So does what process() passes on of it, whether the report is too short or not.
LEMMA ParseType ==
  ASSUME GoodFields, NEW data \in Bits, NEW bytes, NEW begins
  PROVE  /\ Passed(parseMouseData(data, bytes, begins)) \in [Fields -> Int]
         /\ Passed(parseMouseData(data, bytes, begins))["Buttons"] \in Nat
<1> DEFINE state == parseMouseData(data, bytes, begins)
<1>1. "Buttons" \in Fields
  BY DEF Fields
<1>2. state \in [Fields -> Int] /\ state["Buttons"] \in Nat
  BY <1>1, ExtractedType DEF parseMouseData, Cleared
<1> HIDE DEF state
<1>3. Pow2[PassedButtons] \in Nat \ {0}
  BY ReportAssumption, Pow2Defined
<1>4. state["Buttons"] % Pow2[PassedButtons] \in Nat
  BY <1>2, <1>3
<1>5. Passed(state) \in [Fields -> Int] /\ Passed(state)["Buttons"] = state["Buttons"] % Pow2[PassedButtons]
  BY <1>1, <1>2, <1>4 DEF Passed
<1> QED
  BY <1>4, <1>5 DEF state

\* A whole report is read, and one that misses more than the byte of its ID is not.
LEMMA ShortIs ==
  ASSUME NEW bytes \in Nat, report_size_bytes \in Nat, NEW begins \in Begins
  PROVE  /\ bytes >= report_size_bytes => ~Short(bytes, begins)
         /\ bytes + (IF report_id # 0 THEN 1 ELSE 0) < report_size_bytes => Short(bytes, begins)
<1>1. CASE report_id = 0
  BY <1>1 DEF Short, Begins
<1>2. CASE report_id # 0 /\ begins
  BY <1>2 DEF Short
<1>3. CASE report_id # 0 /\ ~begins
  BY <1>3 DEF Short
<1> QED
  BY <1>1, <1>2, <1>3

LEMMA FormatType ==
  ASSUME GoodFields, NEW state \in [Fields -> Int]
  PROVE  formatMouseData(state) \in Bits
<1>1. ASSUME NEW data \in Bits, NEW f \in Fields PROVE insertIfFound(data, f, state) \in Bits
  BY InsertType DEF insertIfFound, GoodFields
<1>2. {"Buttons", "X", "Y", "Wheel"} \subseteq Fields
  BY DEF Fields, Axes
<1> QED
  BY <1>1, <1>2, FrameBits DEF formatMouseData

LEMMA PlaceButtonsType ==
  ASSUME NEW data \in Bits, NEW buttons \in Nat
  PROVE  PlaceButtons(data, buttons) \in Bits
<1>1. ASSUME NEW b \in 0..Last PROVE (buttons \div Pow2[b % ByteBits]) % 2 \in {0, 1}
  <2>1. b % ByteBits \in Nat
    BY FrameBits
  <2>2. Pow2[b % ByteBits] \in Nat \ {0}
    BY <2>1, Pow2Defined
  <2>3. buttons \div Pow2[b % ByteBits] \in Int
    BY <2>2, DivMod
  <2> QED
    BY <2>3
<1> QED
  BY <1>1, FrameBits DEF PlaceButtons

\* formatMouseData() leaves at every place the value of its field, if the places are apart.
LEMMA FormatBits ==
  ASSUME GoodFields, NEW state \in [Fields -> Int], NEW f \in DOMAIN field,
         \A h \in DOMAIN field : h # f => Span(field[h]) \cap Span(field[f]) = {},
         NEW b \in Span(field[f])
  PROVE  formatMouseData(state)[b] =
           ((Clamp(state[f], field[f]) % Pow2[field[f].bits]) \div Pow2[b - field[f].offset]) % 2
<1> DEFINE bit == ((Clamp(state[f], field[f]) % Pow2[field[f].bits]) \div Pow2[b - field[f].offset]) % 2
<1>1. f \in Fields /\ field[f] \in Place /\ b \in 0..Last
  BY PlaceBits, FrameBits DEF GoodFields
<1>2. ASSUME NEW data \in Bits, NEW h \in Fields
      PROVE  /\ insertIfFound(data, h, state) \in Bits
             /\ insertIfFound(data, h, state)[b] = IF h = f THEN bit ELSE data[b]
  <2>1. CASE h \notin DOMAIN field
    BY <2>1 DEF insertIfFound
  <2>2. CASE h \in DOMAIN field
    <3>1. field[h] \in Place /\ field[h].bits > 0 /\ state[h] \in Int
      BY <2>2 DEF GoodFields
    <3>2. insertValue(data, field[h], state[h]) \in Bits
      BY <3>1, InsertType
    <3>3. insertValue(data, field[h], state[h])[b] =
            IF b \in Span(field[h])
            THEN ((Clamp(state[h], field[h]) % Pow2[field[h].bits]) \div Pow2[b - field[h].offset]) % 2
            ELSE data[b]
      BY <1>1, <3>1, InsertBits
    <3>4. b \in Span(field[h]) <=> h = f
      BY <2>2
    <3> QED
      BY <2>2, <3>2, <3>3, <3>4 DEF insertIfFound
  <2> QED
    BY <2>1, <2>2
<1> HIDE DEF bit
<1> DEFINE d1 == insertIfFound(Blank, "Buttons", state)
           d2 == insertIfFound(d1, "X", state)
           d3 == insertIfFound(d2, "Y", state)
           d4 == insertIfFound(d3, "Wheel", state)
<1>3. {"Buttons", "X", "Y", "Wheel"} \subseteq Fields /\ f \in {"Buttons", "X", "Y", "Wheel"}
  BY <1>1 DEF Fields, Axes
<1>4. d1 \in Bits /\ ("Buttons" = f => d1[b] = bit)
  BY <1>2, <1>3, FrameBits
<1> HIDE DEF d1
<1>5. d2 \in Bits /\ d2[b] = IF "X" = f THEN bit ELSE d1[b]
  BY <1>2, <1>3, <1>4
<1> HIDE DEF d2
<1>6. d3 \in Bits /\ d3[b] = IF "Y" = f THEN bit ELSE d2[b]
  BY <1>2, <1>3, <1>5
<1> HIDE DEF d3
<1>7. d4[b] = IF "Wheel" = f THEN bit ELSE d3[b]
  BY <1>2, <1>3, <1>6
<1> HIDE DEF d4
<1>8. d4[b] = bit
  BY <1>3, <1>4, <1>5, <1>6, <1>7
<1> QED
  BY <1>8 DEF formatMouseData, d1, d2, d3, d4, bit

-----------------------------------------------------------------------------
\* What an Input item adds: to the descriptor, and to the fields that the parser has.
LEMMA LeastExists ==
  ASSUME NEW S, S \subseteq Nat, S # {}
  PROVE  \E m \in S : \A k \in S : m <= k
<1> DEFINE R == OpToRel(<, Nat)
<1>1. IsWellFoundedOn(R, Nat)
  BY NatLessThanWellFounded
<1>2. ASSUME NEW x \in Nat, NEW y \in Nat, x < y PROVE <<x, y>> \in R
  BY <1>2 DEF OpToRel
<1> HIDE DEF R
<1>3. PICK m \in S : \A k \in S : ~ (<<k, m>> \in R)
  BY <1>1, WFMin
<1>4. ASSUME NEW k \in S PROVE m <= k
  <2>1. k \in Nat /\ m \in Nat
    OBVIOUS
  <2>2. ~ (k < m)
    BY <1>2, <1>3, <2>1
  <2> QED
    BY <2>1, <2>2
<1> QED
  BY <1>4

LEMMA Products ==
  ASSUME NEW a \in Nat, NEW b \in Nat, NEW c \in Nat, a <= b
  PROVE  a * c \in Nat /\ b * c \in Nat /\ a * c <= b * c
<1>1. (b - a) * c \in Nat /\ b * c = a * c + (b - a) * c
  BY a \in Nat, b \in Nat
<1>2. a * c \in Nat /\ b * c \in Nat
  OBVIOUS
<1> QED
  BY <1>1, <1>2

LEMMA InputIs ==
  ASSUME NEW g \in Inputs
  PROVE  /\ g.size \in Nat \ {0} /\ g.count \in Nat \ {0} /\ g.size * g.count \in Nat
         /\ g.logical_min \in Int /\ g.logical_max \in Int /\ g.logical_min <= g.logical_max
         /\ Len(g.usages) \in Nat /\ (g.usages = << >> <=> Len(g.usages) = 0)
         /\ \A i \in 1..Len(g.usages) : g.usages[i] \in Axes \cup {"other"}
         /\ g.page \in {"desktop", "button", "other"}
<1>1. IsInput(g)
  BY ReportAssumption
<1>2. g.size \in Nat \ {0} /\ g.count \in Nat \ {0} /\ g.usages \in Seq(Axes \cup {"other"})
  BY <1>1 DEF IsInput
<1>3. g.size * g.count \in Nat
  BY <1>2
<1>4. Len(g.usages) \in Nat /\ (g.usages = << >> <=> Len(g.usages) = 0)
      /\ \A i \in 1..Len(g.usages) : g.usages[i] \in Axes \cup {"other"}
  BY <1>2
<1> QED
  BY <1>1, <1>2, <1>3, <1>4 DEF IsInput

LEMMA AtIs ==
  ASSUME current_bit \in Nat, NEW g \in Inputs, NEW i \in 1..g.count
  PROVE  /\ At(g, i) \in Place /\ At(g, i).bits = g.size /\ At(g, i).min <= At(g, i).max
         /\ At(g, i).offset >= current_bit
         /\ At(g, i).offset + At(g, i).bits <= current_bit + g.size * g.count
         /\ \A j \in (i + 1)..g.count : At(g, i).offset + At(g, i).bits <= At(g, j).offset
<1>1. g.size \in Nat /\ g.count \in Nat /\ i \in Nat /\ i - 1 \in Nat /\ i <= g.count
  BY InputIs
<1>2. (i - 1) * g.size \in Nat /\ (i - 1) * g.size + g.size = i * g.size
  BY <1>1
<1>3. i * g.size <= g.count * g.size /\ g.count * g.size = g.size * g.count
  BY <1>1, Products
<1>4. ASSUME NEW j \in (i + 1)..g.count PROVE (i - 1) * g.size + g.size <= (j - 1) * g.size
  <2>1. j - 1 \in Nat /\ i <= j - 1
    BY <1>1
  <2>2. i * g.size <= (j - 1) * g.size
    BY <1>1, <2>1, Products
  <2> QED
    BY <1>2, <2>2
<1>5. ASSUME NEW j \in (i + 1)..g.count PROVE (j - 1) * g.size \in Nat
  <2>1. j - 1 \in Nat
    BY <1>1
  <2> QED
    BY <1>1, <2>1, Products
<1>6. /\ At(g, i).offset = current_bit + (i - 1) * g.size /\ At(g, i).bits = g.size
      /\ At(g, i).min = g.logical_min /\ At(g, i).max = g.logical_max
      /\ At(g, i) = [offset |-> At(g, i).offset, bits |-> g.size, min |-> g.logical_min, max |-> g.logical_max]
  BY DEF At
<1>7. At(g, i) \in Place
  <2>1. At(g, i).offset \in Nat
    BY <1>2, <1>6
  <2> QED
    BY <1>6, <2>1, InputIs DEF Place
<1>8. ASSUME NEW j \in (i + 1)..g.count PROVE At(g, i).offset + At(g, i).bits <= At(g, j).offset
  <2>1. At(g, j).offset = current_bit + (j - 1) * g.size
    BY DEF At
  <2>2. \A x \in Nat, y \in Nat, z \in Nat : x + y <= z => (current_bit + x) + y <= current_bit + z
    OBVIOUS
  <2> QED
    BY <1>1, <1>2, <1>4, <1>5, <1>6, <2>1, <2>2
<1>9. /\ At(g, i).offset >= current_bit
      /\ At(g, i).offset + At(g, i).bits <= current_bit + g.size * g.count
  <2>1. \A x \in Nat, y \in Nat, z \in Nat :
          x + y <= z => (current_bit + x) + y <= current_bit + z /\ current_bit + x >= current_bit
    OBVIOUS
  <2> QED
    BY <1>1, <1>2, <1>3, <1>6, <2>1, InputIs
<1> QED
  BY <1>6, <1>7, <1>8, <1>9, InputIs

\* Where an item means a field: inside the bits that it takes, and apart.
LEMMA MeantIs ==
  ASSUME current_bit \in Nat, NEW g \in Inputs
  PROVE  /\ \A m \in Meant(g) :
              /\ m \in Fields \X Place /\ m[2].bits > 0 /\ m[2].min <= m[2].max
              /\ m[2].offset >= current_bit
              /\ m[2].offset + m[2].bits <= current_bit + g.size * g.count
         /\ \A m \in Meant(g), k \in Meant(g) : m # k => Span(m[2]) \cap Span(k[2]) = {}
<1> DEFINE all == [At(g, 1) EXCEPT !.bits = g.size * g.count]
           Usage(i) == IF i > Len(g.usages) THEN g.usages[Len(g.usages)] ELSE g.usages[i]
<1>0. 1 \in 1..g.count
  BY InputIs
<1>1. CASE g.usages = << >> \/ g.page = "other"
  BY <1>1 DEF Meant
<1>2. CASE g.usages # << >> /\ g.page = "button"
  <2>1. Meant(g) = {<<"Buttons", all>>}
    BY <1>2 DEF Meant
  <2>2. /\ At(g, 1) = [offset |-> current_bit + (1 - 1) * g.size, bits |-> g.size,
                       min |-> g.logical_min, max |-> g.logical_max]
        /\ current_bit + (1 - 1) * g.size = current_bit
    BY InputIs DEF At
  <2>3. all = [offset |-> current_bit, bits |-> g.size * g.count, min |-> g.logical_min, max |-> g.logical_max]
    BY <2>2
  <2>4. g.size * g.count > 0 /\ g.size * g.count \in Nat
    BY InputIs
  <2>5. all \in Place /\ all.bits > 0 /\ all.min <= all.max /\ all.offset = current_bit
        /\ all.bits = g.size * g.count
    BY <2>3, <2>4, InputIs DEF Place
  <2>6. "Buttons" \in Fields
    BY DEF Fields
  <2> HIDE DEF all
  <2> QED
    BY <2>1, <2>4, <2>5, <2>6
<1>3. CASE g.usages # << >> /\ g.page = "desktop"
  <2>1. Meant(g) = {<<Usage(i), At(g, i)>> : i \in {k \in 1..g.count : Usage(k) \in Axes}}
    BY <1>3 DEF Meant
  <2> HIDE DEF Usage
  <2>2. Axes \subseteq Fields
    BY DEF Fields
  <2>3. ASSUME NEW m \in Meant(g)
        PROVE  \E i \in 1..g.count : m = <<Usage(i), At(g, i)>> /\ Usage(i) \in Fields
    BY <2>1, <2>2
  <2>4. ASSUME NEW m \in Meant(g)
        PROVE  /\ m \in Fields \X Place /\ m[2].bits > 0 /\ m[2].min <= m[2].max
               /\ m[2].offset >= current_bit
               /\ m[2].offset + m[2].bits <= current_bit + g.size * g.count
    <3>1. PICK i \in 1..g.count : m = <<Usage(i), At(g, i)>> /\ Usage(i) \in Fields
      BY <2>3
    <3> QED
      BY <3>1, AtIs, InputIs
  <2>5. ASSUME NEW m \in Meant(g), NEW k \in Meant(g), m # k PROVE Span(m[2]) \cap Span(k[2]) = {}
    <3>1. PICK i \in 1..g.count : m = <<Usage(i), At(g, i)>>
      BY <2>3
    <3>2. PICK j \in 1..g.count : k = <<Usage(j), At(g, j)>>
      BY <2>3
    <3>3. i # j /\ i \in Nat /\ j \in Nat /\ g.count \in Nat
      BY <2>5, <3>1, <3>2, InputIs
    <3>4. j \in (i + 1)..g.count \/ i \in (j + 1)..g.count
      BY <3>3
    <3>5. \/ m[2].offset + m[2].bits <= k[2].offset
          \/ k[2].offset + k[2].bits <= m[2].offset
      BY <3>1, <3>2, <3>4, AtIs
    <3>6. m[2] \in Place /\ k[2] \in Place
      BY <2>4
    <3> QED
      BY <3>5, <3>6 DEF Place, Span
  <2> QED
    BY <2>4, <2>5
<1> QED
  BY <1>1, <1>2, <1>3, InputIs

\* The parser finds what the item means, where it means it, and all of it.
LEMMA FoundIs ==
  ASSUME NEW g \in Inputs
  PROVE  /\ \A f \in DOMAIN Found(g) : <<f, Found(g)[f]>> \in Meant(g)
         /\ \A m \in Meant(g) : m[1] \in DOMAIN field \cup DOMAIN Found(g)
<1> DEFINE Usage(i) == IF i > Len(g.usages) THEN g.usages[Len(g.usages)] ELSE g.usages[i]
           least(f) == CHOOSE i \in Listed(g) :
                         g.usages[i] = f /\ \A j \in Listed(g) : g.usages[j] = f => i <= j
           named == {g.usages[i] : i \in Listed(g)} \cap Axes
<1>1. \A i \in Listed(g) : i \in Nat /\ i \in 1..g.count /\ i <= Len(g.usages) /\ Usage(i) = g.usages[i]
  BY InputIs DEF Listed
<1>2. Listed(g) = {} <=> g.usages = << >>
  BY InputIs DEF Listed
<1>3. CASE g.page = "other"
  BY <1>3 DEF Found, Meant
<1>4. CASE g.page = "button"
  BY <1>2, <1>4 DEF Found, Meant
<1>5. CASE g.page = "desktop" /\ g.usages = << >>
  BY <1>2, <1>5 DEF Found, Meant
<1>6. CASE g.page = "desktop" /\ g.usages # << >>
  <2>1. Meant(g) = {<<Usage(i), At(g, i)>> : i \in {k \in 1..g.count : Usage(k) \in Axes}}
    BY <1>6 DEF Meant
  <2>2. Found(g) = [f \in named \ DOMAIN field |-> At(g, least(f))]
    BY <1>6 DEF Found
  <2>3. ASSUME NEW f \in named PROVE least(f) \in Listed(g) /\ g.usages[least(f)] = f
    <3> DEFINE S == {i \in Listed(g) : g.usages[i] = f}
    <3>1. S \subseteq Nat /\ S # {}
      BY <1>1
    <3>2. \E i \in S : \A j \in S : i <= j
      <4> HIDE DEF S
      <4> QED
        BY <3>1, LeastExists
    <3>3. \E i \in Listed(g) : g.usages[i] = f /\ \A j \in Listed(g) : g.usages[j] = f => i <= j
      BY <3>2
    <3> QED
      BY <3>3
  <2> HIDE DEF least
  <2>4. ASSUME NEW f \in DOMAIN Found(g) PROVE <<f, Found(g)[f]>> \in Meant(g)
    <3>1. f \in named /\ f \in Axes /\ Found(g)[f] = At(g, least(f))
      BY <2>2
    <3>2. least(f) \in 1..g.count /\ Usage(least(f)) = f
      BY <1>1, <2>3, <3>1
    <3> HIDE DEF Usage, named
    <3> QED
      BY <2>1, <3>1, <3>2
  <2>5. ASSUME NEW m \in Meant(g) PROVE m[1] \in DOMAIN field \cup DOMAIN Found(g)
    <3>1. PICK i \in 1..g.count : m[1] = Usage(i) /\ Usage(i) \in Axes
      BY <2>1
    <3>2. PICK j \in Listed(g) : Usage(i) = g.usages[j]
      <4>1. CASE i > Len(g.usages)
        <5>1. Len(g.usages) \in Listed(g)
          BY <1>6, <4>1, InputIs DEF Listed
        <5> QED
          BY <4>1, <5>1
      <4>2. CASE i <= Len(g.usages)
        <5>1. i \in Listed(g)
          BY <4>2, InputIs DEF Listed
        <5> QED
          BY <1>1, <5>1
      <4> QED
        BY <4>1, <4>2, InputIs
    <3> HIDE DEF Usage
    <3>3. m[1] \in named
      BY <3>1, <3>2
    <3> QED
      BY <2>2, <3>3
  <2> QED
    BY <2>4, <2>5
<1> QED
  BY <1>3, <1>4, <1>5, <1>6, InputIs

-----------------------------------------------------------------------------
(***************************************************************************)
(* The inductive invariant.  The fields that the parser has found are      *)
(* those that the descriptor has, at its places; the places are apart, and *)
(* inside the report, unless a second report ID has made the parser count  *)
(* from the start again; the fields of the boot mouse replace them only    *)
(* when an axis is missing; and a frame is what process() made of the      *)
(* report that it came from.                                               *)
(***************************************************************************)
Named == {m[1] : m \in layout}

\* Every place is inside the largest report, or the boot mouse's.
PlacesFit ==
  \A f \in DOMAIN field : field[f].bits > 0 /\ field[f].offset + field[f].bits <= Last + 1

FieldsAreMeant ==
  \/ /\ \A f \in DOMAIN field : <<f, field[f]>> \in layout
     /\ Named \subseteq DOMAIN field
  \/ stage # "parse" /\ ~ ({"X", "Y"} \subseteq Named)

LayoutTypeOK ==
  /\ layout \subseteq Fields \X Place
  /\ \A m \in layout : m[2].bits > 0 /\ m[2].min <= m[2].max
  /\ items = 0 => layout = {}

LayoutApart ==
  ~split => /\ \A m \in layout : m[2].offset + m[2].bits <= current_bit
            /\ \A m \in layout, k \in layout : m # k => Span(m[2]) \cap Span(k[2]) = {}

SizeIsMeant == stage # "parse" /\ {"X", "Y"} \subseteq Named => report_size_bytes = Size(current_bit)

FrameIsFormatted ==
  stage = "sent" => \E begins \in Begins : frame = process(raw, length, begins)

HIDTypeInv == HIDTypeOK /\ PlacesFit
LayoutInv == LayoutTypeOK /\ FieldsAreMeant /\ LayoutApart /\ SizeIsMeant /\ FrameIsFormatted

LEMMA BootIs ==
  ASSUME setBootMouseFormat
  PROVE  /\ DOMAIN field' = Fields
         /\ \A f \in Fields : field'[f] \in Place /\ field'[f].bits > 0 /\ field'[f].offset + field'[f].bits <= Last + 1
<1>1. /\ ByteBits \in Nat \ {0} /\ ByteBits - 1 \in Nat /\ MaxBits \in Nat
      /\ Pow2[ByteBits - 1] \in Nat \ {0} /\ Pow2[ByteBits] \in Nat \ {0}
  <2>1. ByteBits \in Nat \ {0} /\ ByteBits - 1 \in Nat /\ MaxBits \in Nat
    BY FrameBits
  <2> QED
    BY <2>1, Pow2Defined
<1>2. ASSUME NEW k \in 0..3, NEW lo \in Int, NEW hi \in Int
      PROVE  /\ BootByte(k, lo, hi) \in Place /\ BootByte(k, lo, hi).bits > 0
             /\ BootByte(k, lo, hi).offset + BootByte(k, lo, hi).bits <= Last + 1
  <2>1. k * ByteBits \in Nat /\ k * ByteBits + ByteBits <= 4 * ByteBits
    BY <1>1
  <2> QED
    BY <1>1, <2>1 DEF BootByte, Place, Last
<1> DEFINE limit == Pow2[ByteBits - 1] - 1
<1>3. limit \in Int /\ -limit \in Int /\ Pow2[ByteBits] - 1 \in Int
  BY <1>1
<1>4. field' = [f \in Fields |->
                  CASE f = "Buttons" -> BootByte(0, 0, Pow2[ByteBits] - 1)
                    [] f = "X" -> BootByte(1, -limit, limit)
                    [] f = "Y" -> BootByte(2, -limit, limit)
                    [] f = "Wheel" -> BootByte(3, -limit, limit)]
  BY DEF setBootMouseFormat
<1> HIDE DEF limit
<1>5. ASSUME NEW f \in Fields
      PROVE  \E k \in 0..3, lo \in Int, hi \in Int : field'[f] = BootByte(k, lo, hi)
  <2>1. f \in {"Buttons", "X", "Y", "Wheel"}
    BY DEF Fields, Axes
  <2>2. CASE f = "Buttons"
    BY <1>3, <1>4, <2>2
  <2>3. CASE f = "X"
    BY <1>3, <1>4, <2>3
  <2>4. CASE f = "Y"
    BY <1>3, <1>4, <2>4
  <2>5. CASE f = "Wheel"
    BY <1>3, <1>4, <2>5
  <2> QED
    BY <2>1, <2>2, <2>3, <2>4, <2>5
<1>6. ASSUME NEW f \in Fields
      PROVE  field'[f] \in Place /\ field'[f].bits > 0 /\ field'[f].offset + field'[f].bits <= Last + 1
  <2>1. PICK k \in 0..3, lo \in Int, hi \in Int : field'[f] = BootByte(k, lo, hi)
    BY <1>5
  <2> QED
    BY <1>2, <2>1
<1> QED
  BY <1>4, <1>6

LEMMA SizeType ==
  ASSUME NEW bits \in Nat
  PROVE  Size(bits) \in Nat
BY FrameBits DEF Size

\* What the parser finds, and what it had, stay inside the report.
LEMMA InputFields ==
  ASSUME HIDTypeInv, NEW g \in Inputs, current_bit + g.size * g.count <= MaxBits,
         field' = [f \in DOMAIN field \cup DOMAIN Found(g) |->
                     IF f \in DOMAIN Found(g) THEN Found(g)[f] ELSE field[f]]
  PROVE  /\ DOMAIN field' \subseteq Fields
         /\ \A f \in DOMAIN field' :
              field'[f] \in Place /\ field'[f].bits > 0 /\ field'[f].offset + field'[f].bits <= Last + 1
<1>1. current_bit \in Nat /\ MaxBits \in Nat /\ Last \in Nat /\ MaxBits <= Last /\ g.size * g.count \in Nat
  BY FrameBits, InputIs DEF HIDTypeInv, HIDTypeOK, Last
<1>2. ASSUME NEW f \in DOMAIN Found(g)
      PROVE  /\ f \in Fields /\ Found(g)[f] \in Place /\ Found(g)[f].bits > 0
             /\ Found(g)[f].offset + Found(g)[f].bits <= Last + 1
  <2>1. <<f, Found(g)[f]>> \in Meant(g)
    BY FoundIs
  <2>2. /\ f \in Fields /\ Found(g)[f] \in Place /\ Found(g)[f].bits > 0
        /\ Found(g)[f].offset + Found(g)[f].bits <= current_bit + g.size * g.count
    BY <1>1, <2>1, MeantIs
  <2>3. Found(g)[f].offset \in Nat /\ Found(g)[f].bits \in Nat
    BY <2>2 DEF Place
  <2> QED
    BY <1>1, <2>2, <2>3
<1>3. ASSUME NEW f \in DOMAIN field
      PROVE  f \in Fields /\ field[f] \in Place /\ field[f].bits > 0 /\ field[f].offset + field[f].bits <= Last + 1
  BY DEF HIDTypeInv, HIDTypeOK, PlacesFit
<1> QED
  BY <1>2, <1>3

LEMMA HIDTypeStep ==
  ASSUME HIDTypeInv, [HIDNext]_hidVars
  PROVE  HIDTypeInv'
<1>0. ByteBits \in Nat \ {0} /\ MaxBits \in Nat /\ ByteBits <= MaxBits /\ MaxInputs \in Nat
      /\ ReportIds \subseteq Nat \ {0}
  BY ReportAssumption
<1>1. ASSUME NEW id \in ReportIds, ReportId(id) PROVE HIDTypeInv'
  BY <1>0, <1>1 DEF HIDTypeInv, HIDTypeOK, PlacesFit, ReportId
<1>2. ASSUME NEW g \in Inputs, Input(g) PROVE HIDTypeInv'
  <2>1. /\ DOMAIN field' \subseteq Fields
        /\ \A f \in DOMAIN field' :
              field'[f] \in Place /\ field'[f].bits > 0 /\ field'[f].offset + field'[f].bits <= Last + 1
    BY <1>2, InputFields DEF Input
  <2>2. current_bit + g.size * g.count \in 0..MaxBits
    BY <1>0, <1>2, InputIs DEF Input, HIDTypeInv, HIDTypeOK
  <2>3. items + 1 \in 0..MaxInputs
    BY <1>0, <1>2 DEF Input, HIDTypeInv, HIDTypeOK
  <2> QED
    BY <1>2, <2>1, <2>2, <2>3 DEF HIDTypeInv, HIDTypeOK, PlacesFit, Input
<1>3. ASSUME EndOfDescriptor PROVE HIDTypeInv'
  <2>1. CASE {"X", "Y"} \subseteq DOMAIN field
    <3>1. Size(current_bit) \in Nat
      BY <1>0, SizeType DEF HIDTypeInv, HIDTypeOK
    <3> QED
      BY <1>3, <2>1, <3>1 DEF EndOfDescriptor, HIDTypeInv, HIDTypeOK, PlacesFit
  <2>2. CASE ~ ({"X", "Y"} \subseteq DOMAIN field)
    <3>1. setBootMouseFormat
      BY <1>3, <2>2 DEF EndOfDescriptor
    <3>2. {"X", "Y"} \subseteq Fields
      BY DEF Fields, Axes
    <3>3. report_size_bytes' \in Nat /\ report_id' = 0
      BY <3>1 DEF setBootMouseFormat
    <3> QED
      BY <1>3, <3>1, <3>2, <3>3, BootIs DEF EndOfDescriptor, HIDTypeInv, HIDTypeOK, PlacesFit
  <2> QED
    BY <2>1, <2>2
<1>4. ASSUME Report PROVE HIDTypeInv'
  <2>1. raw' \in Bits
    BY <1>4, FrameBits DEF Report, Reports, Blank, Last
  <2>2. GoodFields
    BY DEF GoodFields, HIDTypeInv, HIDTypeOK, PlacesFit
  <2>3. PICK begins \in Begins : frame' = process(raw', length', begins)
    BY <1>4 DEF Report
  <2> DEFINE state == Passed(parseMouseData(raw', length', begins))
  <2>4. state \in [Fields -> Int] /\ state["Buttons"] \in Nat
    BY <2>1, <2>2, ParseType
  <2>5. frame' = PlaceButtons(formatMouseData(state), state["Buttons"])
    BY <2>3 DEF process
  <2> HIDE DEF state
  <2>6. frame' \in Bits
    BY <2>2, <2>4, <2>5, FormatType, PlaceButtonsType
  <2>7. length' \in Nat
    BY <1>4 DEF Report, HIDTypeInv, HIDTypeOK
  <2> QED
    BY <1>4, <2>1, <2>6, <2>7 DEF Report, HIDTypeInv, HIDTypeOK, PlacesFit
<1>5. CASE UNCHANGED hidVars
  BY <1>5 DEF hidVars, HIDTypeInv, HIDTypeOK, PlacesFit
<1> QED
  BY <1>1, <1>2, <1>3, <1>4, <1>5 DEF HIDNext

THEOREM HIDTypeInvariant == HIDSpec => []HIDTypeInv
<1>1. HIDInit => HIDTypeInv
  <2> SUFFICES ASSUME HIDInit PROVE HIDTypeInv
    OBVIOUS
  <2>1. DOMAIN field = {}
    BY DEF HIDInit
  <2>2. 0 \in 0..MaxBits /\ 0 \in 0..MaxInputs
    BY ReportAssumption
  <2> QED
    BY <2>1, <2>2, FrameBits DEF HIDInit, HIDTypeInv, HIDTypeOK, PlacesFit
<1>2. HIDTypeInv /\ [HIDNext]_hidVars => HIDTypeInv'
  BY HIDTypeStep
<1> QED
  BY <1>1, <1>2, PTL DEF HIDSpec

\* The parser's state, the fields it found, the mouse's report and the frame keep
\* their types: no place is outside the report.
THEOREM HIDTypeCorrect == HIDSpec => []HIDTypeOK
<1>1. HIDTypeInv => HIDTypeOK
  BY DEF HIDTypeInv
<1> QED
  BY <1>1, HIDTypeInvariant, PTL

LEMMA LayoutInit ==
  ASSUME HIDInit
  PROVE  LayoutInv
<1>1. DOMAIN field = {} /\ layout = {} /\ stage = "parse" /\ Named = {}
  BY DEF HIDInit, Named
<1> QED
  BY <1>1 DEF LayoutInv, LayoutTypeOK, FieldsAreMeant, LayoutApart, SizeIsMeant, FrameIsFormatted

\* A report ID: none of it matters unless the descriptor has begun with it.
LEMMA LayoutReportId ==
  ASSUME HIDTypeInv, LayoutInv, NEW id \in ReportIds, ReportId(id)
  PROVE  LayoutInv'
<1>1. /\ stage = "parse" /\ UNCHANGED <<stage, items, field, report_size_bytes, layout, raw, length,
                                  frame>>
      /\ split' = (split \/ items > 0 \/ report_id # 0)
  BY DEF ReportId
<1>2. LayoutTypeOK' /\ FieldsAreMeant' /\ SizeIsMeant' /\ FrameIsFormatted'
  BY <1>1 DEF LayoutInv, LayoutTypeOK, FieldsAreMeant, SizeIsMeant, FrameIsFormatted, Named
<1>3. LayoutApart'
  <2> SUFFICES ASSUME ~split' PROVE layout' = {}
    BY DEF LayoutApart
  <2>1. ~ (items > 0)
    BY <1>1, Zenon
  <2>2. items = 0
    BY <2>1, ReportAssumption DEF HIDTypeInv, HIDTypeOK
  <2> QED
    BY <1>1, <2>2 DEF LayoutInv, LayoutTypeOK
<1> QED
  BY <1>2, <1>3 DEF LayoutInv

LEMMA LayoutInput ==
  ASSUME HIDTypeInv, LayoutInv, NEW g \in Inputs, Input(g)
  PROVE  LayoutInv'
<1>1. /\ stage = "parse" /\ stage' = "parse" /\ split' = split
      /\ layout' = layout \cup Meant(g) /\ items' = items + 1
      /\ current_bit' = current_bit + g.size * g.count
      /\ field' = [f \in DOMAIN field \cup DOMAIN Found(g) |->
                     IF f \in DOMAIN Found(g) THEN Found(g)[f] ELSE field[f]]
  BY DEF Input
<1>2. current_bit \in Nat /\ items \in Nat /\ g.size * g.count \in Nat
  BY InputIs DEF HIDTypeInv, HIDTypeOK
<1>3. \A m \in Meant(g) :
        /\ m \in Fields \X Place /\ m[2].bits > 0 /\ m[2].min <= m[2].max
        /\ m[2].offset >= current_bit
        /\ m[2].offset + m[2].bits <= current_bit + g.size * g.count
  BY <1>2, MeantIs
<1>4. LayoutTypeOK'
  <2>1. items + 1 # 0
    BY <1>2
  <2> QED
    BY <1>1, <1>3, <2>1 DEF LayoutInv, LayoutTypeOK
<1>5. FieldsAreMeant'
  <2>1. (\A f \in DOMAIN field : <<f, field[f]>> \in layout) /\ Named \subseteq DOMAIN field
    BY <1>1 DEF LayoutInv, FieldsAreMeant
  <2>2. \A f \in DOMAIN field' : <<f, field'[f]>> \in layout'
    BY <1>1, <2>1, FoundIs
  <2>3. Named' \subseteq DOMAIN field'
    <3>1. ASSUME NEW m \in layout' PROVE m[1] \in DOMAIN field'
      BY <1>1, <2>1, FoundIs DEF Named
    <3> QED
      BY <3>1 DEF Named
  <2> QED
    BY <2>2, <2>3 DEF FieldsAreMeant
<1>6. LayoutApart'
  <2> SUFFICES ASSUME ~split
               PROVE  /\ \A m \in layout' : m[2].offset + m[2].bits <= current_bit'
                      /\ \A m \in layout', k \in layout' : m # k => Span(m[2]) \cap Span(k[2]) = {}
    BY <1>1 DEF LayoutApart
  <2>1. /\ \A m \in layout : m[2].offset + m[2].bits <= current_bit
        /\ \A m \in layout, k \in layout : m # k => Span(m[2]) \cap Span(k[2]) = {}
    BY DEF LayoutInv, LayoutApart
  <2>2. \A m \in layout' : m[2].offset \in Nat /\ m[2].bits \in Nat
    BY <1>4 DEF LayoutTypeOK, Place
  <2>3. ASSUME NEW m \in layout' PROVE m[2].offset + m[2].bits <= current_bit'
    BY <1>1, <1>2, <1>3, <2>1, <2>2
  <2>4. ASSUME NEW m \in layout, NEW k \in Meant(g) PROVE Span(m[2]) \cap Span(k[2]) = {}
    <3>1. m[2].offset + m[2].bits <= k[2].offset
      BY <1>1, <1>2, <1>3, <2>1, <2>2
    <3>2. m[2].offset \in Nat /\ m[2].bits \in Nat /\ k[2].offset \in Nat /\ k[2].bits \in Nat
      BY <1>1, <2>2
    <3> QED
      BY <3>1, <3>2 DEF Span
  <2>5. ASSUME NEW m \in layout', NEW k \in layout', m # k PROVE Span(m[2]) \cap Span(k[2]) = {}
    <3>1. CASE m \in layout /\ k \in layout
      BY <2>1, <2>5, <3>1
    <3>2. CASE m \in Meant(g) /\ k \in Meant(g)
      BY <1>2, <2>5, <3>2, MeantIs
    <3>3. CASE m \in layout /\ k \in Meant(g)
      BY <2>4, <3>3
    <3>4. CASE m \in Meant(g) /\ k \in layout
      BY <2>4, <3>4
    <3> QED
      BY <1>1, <3>1, <3>2, <3>3, <3>4
  <2> QED
    BY <2>3, <2>5
<1>7. SizeIsMeant' /\ FrameIsFormatted'
  BY <1>1 DEF SizeIsMeant, FrameIsFormatted
<1> QED
  BY <1>4, <1>5, <1>6, <1>7 DEF LayoutInv

LEMMA LayoutEnd ==
  ASSUME HIDTypeInv, LayoutInv, EndOfDescriptor
  PROVE  LayoutInv'
<1>1. /\ stage = "parse" /\ stage' = "ready"
      /\ UNCHANGED <<items, current_bit, layout, split, raw, length, frame>>
      /\ IF {"X", "Y"} \subseteq DOMAIN field
         THEN report_size_bytes' = Size(current_bit) /\ UNCHANGED <<field, report_id>>
         ELSE setBootMouseFormat
  BY DEF EndOfDescriptor
<1>2. LayoutTypeOK' /\ LayoutApart' /\ FrameIsFormatted' /\ Named' = Named
  BY <1>1 DEF LayoutInv, LayoutTypeOK, LayoutApart, FrameIsFormatted, Named
<1>3. (\A f \in DOMAIN field : <<f, field[f]>> \in layout) /\ Named \subseteq DOMAIN field
  BY <1>1 DEF LayoutInv, FieldsAreMeant
<1>4. CASE {"X", "Y"} \subseteq DOMAIN field
  BY <1>1, <1>2, <1>3, <1>4 DEF LayoutInv, FieldsAreMeant, SizeIsMeant
<1>5. CASE ~ ({"X", "Y"} \subseteq DOMAIN field)
  <2>1. ~ ({"X", "Y"} \subseteq Named)
    BY <1>3, <1>5
  <2> QED
    BY <1>1, <1>2, <2>1 DEF LayoutInv, FieldsAreMeant, SizeIsMeant
<1> QED
  BY <1>4, <1>5

LEMMA LayoutReport ==
  ASSUME HIDTypeInv, LayoutInv, Report
  PROVE  LayoutInv'
<1>1. /\ stage = "ready" /\ stage' = "sent"
      /\ UNCHANGED <<items, current_bit, report_id, field, report_size_bytes, layout, split>>
  BY DEF Report
<1>2. LayoutTypeOK' /\ LayoutApart' /\ FieldsAreMeant' /\ SizeIsMeant'
  BY <1>1 DEF LayoutInv, LayoutTypeOK, LayoutApart, FieldsAreMeant, SizeIsMeant, Named
<1>3. PICK begins \in Begins : frame' = process(raw', length', begins)
  BY DEF Report
<1>4. process(raw, length, begins)' = process(raw', length', begins)
  <2>1. Extracted(raw)' = Extracted(raw') /\ Short(length, begins)' = Short(length', begins)
    BY <1>1 DEF Extracted, Short
  <2>2. Passed(parseMouseData(raw, length, begins))' = Passed(parseMouseData(raw', length', begins))
    BY <2>1 DEF Passed, parseMouseData
  <2>3. \A state, buttons :
          PlaceButtons(formatMouseData(state), buttons)' = PlaceButtons(formatMouseData(state), buttons)
    BY <1>1 DEF PlaceButtons, formatMouseData, insertIfFound, getButtonByteOffset
  <2> QED
    BY <2>2, <2>3 DEF process
<1>5. FrameIsFormatted'
  BY <1>1, <1>3, <1>4 DEF FrameIsFormatted, Begins
<1> QED
  BY <1>2, <1>5 DEF LayoutInv

LEMMA LayoutStep ==
  ASSUME HIDTypeInv, LayoutInv, [HIDNext]_hidVars
  PROVE  LayoutInv'
<1>1. CASE UNCHANGED hidVars
  <2>1. UNCHANGED <<stage, items, current_bit, report_id, field, report_size_bytes, layout, split, raw, length,
                    frame>>
    BY <1>1 DEF hidVars
  <2>2. LayoutTypeOK' /\ LayoutApart' /\ FieldsAreMeant' /\ SizeIsMeant'
    BY <2>1 DEF LayoutInv, LayoutTypeOK, LayoutApart, FieldsAreMeant, SizeIsMeant, Named
  <2>3. \A begins : process(raw, length, begins)' = process(raw, length, begins)
    BY <2>1 DEF process, Passed, parseMouseData, Short, Extracted, PlaceButtons, formatMouseData, insertIfFound,
                getButtonByteOffset
  <2>4. FrameIsFormatted'
    BY <2>1, <2>3 DEF LayoutInv, FrameIsFormatted, Begins
  <2> QED
    BY <2>2, <2>4 DEF LayoutInv
<1> QED
  BY <1>1, LayoutReportId, LayoutInput, LayoutEnd, LayoutReport DEF HIDNext

THEOREM LayoutInvariant == HIDSpec => []LayoutInv
<1>1. HIDInit => LayoutInv
  BY LayoutInit
<1>2. HIDTypeInv /\ LayoutInv /\ [HIDNext]_hidVars => LayoutInv'
  BY LayoutStep
<1> QED
  BY <1>1, <1>2, HIDTypeInvariant, PTL DEF HIDSpec

-----------------------------------------------------------------------------
\* A frame that was made of a report, and what the PC reads in it.
LEMMA AxisIsMeant ==
  ASSUME GoodFields, NEW f \in DOMAIN field \cap Axes, field[f].min <= field[f].max,
         Fits(field[f], IF f = "Wheel" THEN ByteBits ELSE 2 * ByteBits),
         \A h \in DOMAIN field : h # f => Span(field[h]) \cap Span(field[f]) = {},
         NEW state \in [Fields -> Int], state[f] \in Holds(field[f]),
         \A b \in Span(field[f]) : frame[b] = formatMouseData(state)[b]
  PROVE  extractValue(frame, field[f]) = Clamp(state[f], field[f])
<1> DEFINE p == field[f]
           c == Clamp(state[f], p)
<1>1. p \in Place /\ p.bits > 0
  BY DEF GoodFields
<1>2. c \in Holds(p)
  BY <1>1, ClampHolds
<1>3. ASSUME NEW i \in 0..(p.bits - 1) PROVE frame[p.offset + i] = ((c % Pow2[p.bits]) \div Pow2[i]) % 2
  <2>1. p.offset + i \in Span(p) /\ (p.offset + i) - p.offset = i
    BY <1>1, PlacePow2 DEF Span
  <2>2. formatMouseData(state)[p.offset + i] =
          ((c % Pow2[p.bits]) \div Pow2[(p.offset + i) - p.offset]) % 2
    BY <2>1, FormatBits
  <2> QED
    BY <2>1, <2>2
<1> HIDE DEF p, c
<1>4. extractValue(frame, p) = c
  BY <1>1, <1>2, <1>3, ExtractInverse
<1> QED
  BY <1>4 DEF p, c

LEMMA ButtonsAreMeant ==
  ASSUME GoodFields, "Buttons" \in DOMAIN field,
         field["Buttons"].offset % ByteBits = 0, field["Buttons"].bits <= ByteBits,
         report_size_bytes = Size(current_bit), current_bit \in Nat,
         field["Buttons"].offset + field["Buttons"].bits <= current_bit,
         NEW data \in Bits, NEW u \in 0..(Pow2[field["Buttons"].bits] - 1), frame = PlaceButtons(data, u)
  PROVE  /\ Unsigned(frame, field["Buttons"]) = u
         /\ \A b \in 0..Last : b \div ByteBits # field["Buttons"].offset \div ByteBits => frame[b] = data[b]
<1> DEFINE p == field["Buttons"]
           k == p.offset \div ByteBits
<1>1. p \in Place /\ p.bits > 0 /\ p.offset \in Nat /\ p.bits \in Nat /\ p.offset + p.bits <= Last + 1
  BY PlacePow2 DEF GoodFields
<1>3. ByteBits \in Nat \ {0} /\ Pow2[p.bits] \in Nat \ {0}
  BY <1>1, FrameBits, Pow2Defined
<1>4. u \in Nat /\ u % Pow2[p.bits] = u
  BY <1>3
<1>6. k \in Nat /\ p.offset = ByteBits * k
  <2>1. k \in Int /\ p.offset % ByteBits \in 0..(ByteBits - 1) /\ p.offset = (ByteBits * k) + (p.offset % ByteBits)
    <3>1. p.offset \in Int /\ ByteBits \in Nat \ {0}
      BY <1>1, <1>3
    <3> HIDE DEF p
    <3> QED
      BY <3>1, DivMod
  <2>2. p.offset % ByteBits = 0
    OBVIOUS
  <2> HIDE DEF k
  <2>3. \A x \in Int : x = x + 0
    OBVIOUS
  <2>4. p.offset = ByteBits * k
    BY <1>3, <2>1, <2>2, <2>3
  <2>5. ASSUME k < 0 PROVE ByteBits * k < 0
    BY <1>3, <2>1, <2>5
  <2> QED
    BY <1>1, <2>1, <2>4, <2>5
<1>7. getButtonByteOffset = k /\ ~ (report_size_bytes <= k)
  <2>1. getButtonByteOffset = k
    BY DEF getButtonByteOffset
  <2>2. current_bit + ByteBits - 1 \in Nat /\ current_bit + ByteBits - 1 >= ByteBits * k + ByteBits
    BY <1>1, <1>3, <1>6
  <2>3. ASSUME NEW q \in Int, NEW r \in 0..(ByteBits - 1),
               current_bit + ByteBits - 1 = ByteBits * q + r
        PROVE  ~ (q <= k)
    <3>1. ASSUME q <= k PROVE ByteBits * q <= ByteBits * k
      BY <1>3, <1>6, <3>1
    <3> QED
      BY <1>3, <1>6, <2>2, <2>3, <3>1
  <2>4. ~ (Size(current_bit) <= k)
    <3>1. /\ Size(current_bit) = (current_bit + ByteBits - 1) \div ByteBits /\ Size(current_bit) \in Int
          /\ (current_bit + ByteBits - 1) % ByteBits \in 0..(ByteBits - 1)
          /\ current_bit + ByteBits - 1
               = (ByteBits * Size(current_bit)) + ((current_bit + ByteBits - 1) % ByteBits)
      BY <1>3, <2>2, DivMod DEF Size
    <3> QED
      BY <2>3, <3>1
  <2> QED
    BY <2>1, <2>4
<1>8. ASSUME NEW b \in 0..Last
      PROVE  frame[b] = IF b \div ByteBits = k THEN (u \div Pow2[b % ByteBits]) % 2 ELSE data[b]
  BY <1>7, FrameBits DEF PlaceButtons
<1> HIDE DEF k
<1>9. ASSUME NEW i \in 0..(p.bits - 1) PROVE frame[p.offset + i] = (u \div Pow2[i]) % 2
  <2>1. i \in 0..(ByteBits - 1) /\ p.offset + i = ByteBits * k + i /\ p.offset + i \in 0..Last
    <3>1. i \in 0..(ByteBits - 1)
      BY <1>1, <1>3
    <3>2. p.offset + i \in 0..Last
      BY <1>1, FrameBits
    <3> QED
      BY <1>6, <3>1, <3>2
  <2>2. (ByteBits * k + i) % ByteBits = i /\ (ByteBits * k + i) \div ByteBits = k
    <3>1. ByteBits \in Nat \ {0} /\ k \in Int /\ i \in 0..(ByteBits - 1)
      BY <1>3, <1>6, <2>1
    <3> QED
      BY <3>1
  <2>3. (p.offset + i) % ByteBits = i /\ (p.offset + i) \div ByteBits = k
    BY <2>1, <2>2
  <2> QED
    BY <1>8, <2>1, <2>3
<1>10. Unsigned(frame, p) = u
  <2> HIDE DEF p
  <2> QED
    BY <1>1, <1>4, <1>9, UnsignedOfBits
<1> QED
  BY <1>8, <1>10 DEF k

\* Of a supported descriptor the parser has every field, at its place and apart from the others.
LEMMA SupportedFields ==
  ASSUME HIDTypeInv, LayoutInv, stage = "sent", Supported
  PROVE  /\ GoodFields /\ raw \in Bits /\ current_bit \in Nat /\ report_size_bytes = Size(current_bit)
         /\ "Buttons" \in DOMAIN field /\ \A f \in DOMAIN field : <<f, field[f]>> \in layout
         /\ \A m \in layout : m[1] \in DOMAIN field /\ m = <<m[1], field[m[1]]>>
         /\ \A m \in layout : m[2].min <= m[2].max /\ m[2].offset + m[2].bits <= current_bit
         /\ \A f, h \in DOMAIN field : h # f => Span(field[h]) \cap Span(field[f]) = {}
<1>1. {"X", "Y", "Buttons"} \subseteq Named
  BY DEF Supported, Named
<1>2. report_size_bytes = Size(current_bit)
  BY <1>1 DEF LayoutInv, SizeIsMeant
<1>3. (\A f \in DOMAIN field : <<f, field[f]>> \in layout) /\ Named \subseteq DOMAIN field
  BY <1>1 DEF LayoutInv, FieldsAreMeant
<1>4. \A m \in layout : m \in Fields \X Place /\ m[2].min <= m[2].max
  BY DEF LayoutInv, LayoutTypeOK
<1>5. ASSUME NEW m \in layout PROVE m[1] \in DOMAIN field /\ m = <<m[1], field[m[1]]>>
  <2>1. m[1] \in DOMAIN field
    BY <1>3 DEF Named
  <2>2. <<m[1], field[m[1]]>> \in layout
    BY <1>3, <2>1
  <2> QED
    BY <2>1, <2>2 DEF Supported
<1>6. GoodFields /\ raw \in Bits /\ current_bit \in Nat
  BY DEF GoodFields, HIDTypeInv, HIDTypeOK, PlacesFit
<1>7. /\ \A m \in layout : m[2].offset + m[2].bits <= current_bit
      /\ \A m \in layout, k \in layout : m # k => Span(m[2]) \cap Span(k[2]) = {}
  BY DEF LayoutInv, LayoutApart, Supported
<1>8. ASSUME NEW f \in DOMAIN field, NEW h \in DOMAIN field, h # f
      PROVE  Span(field[h]) \cap Span(field[f]) = {}
  <2>1. <<f, field[f]>> \in layout /\ <<h, field[h]>> \in layout /\ <<h, field[h]>> # <<f, field[f]>>
    BY <1>3, <1>8
  <2> QED
    BY <1>7, <2>1
<1> QED
  BY <1>1, <1>2, <1>3, <1>4, <1>5, <1>6, <1>7, <1>8

\* What Supported asks of one field, at the place the parser has for it.
LEMMA SupportedPlace ==
  ASSUME HIDTypeInv, LayoutInv, stage = "sent", Supported, NEW f \in DOMAIN field
  PROVE  /\ f \in Fields /\ field[f] \in Place /\ field[f].bits > 0 /\ field[f].min <= field[f].max
         /\ f \in Axes => Fits(field[f], IF f = "Wheel" THEN ByteBits ELSE 2 * ByteBits)
         /\ f = "Buttons" =>
              /\ field[f].offset % ByteBits = 0 /\ field[f].bits <= ByteBits
              /\ \A h \in DOMAIN field \ {f} : \A b \in Span(field[h]) :
                   b \div ByteBits # field[f].offset \div ByteBits
<1>1. <<f, field[f]>> \in layout /\ GoodFields
  BY SupportedFields
<1>2. f \in Fields /\ field[f] \in Place /\ field[f].bits > 0 /\ field[f].min <= field[f].max
  BY <1>1, SupportedFields DEF GoodFields
<1>3. f \in Axes => Fits(field[f], IF f = "Wheel" THEN ByteBits ELSE 2 * ByteBits)
  BY <1>1 DEF Supported, Axes
<1>4. ASSUME f = "Buttons"
      PROVE  /\ field[f].offset % ByteBits = 0 /\ field[f].bits <= ByteBits
             /\ \A h \in DOMAIN field \ {f} : \A b \in Span(field[h]) :
                  b \div ByteBits # field[f].offset \div ByteBits
  <2>1. /\ field[f].offset % ByteBits = 0 /\ field[f].bits <= ByteBits
        /\ \A k \in layout \ {<<f, field[f]>>} : \A b \in Span(k[2]) :
             b \div ByteBits # field[f].offset \div ByteBits
    BY <1>1, <1>4 DEF Supported
  <2>2. ASSUME NEW h \in DOMAIN field \ {f} PROVE <<h, field[h]>> \in layout \ {<<f, field[f]>>}
    BY SupportedFields
  <2> QED
    BY <2>1, <2>2
<1> QED
  BY <1>2, <1>3, <1>4

\* What the PC reads in a frame that was made of values the places can hold.
LEMMA FrameReads ==
  ASSUME HIDTypeInv, LayoutInv, stage = "sent", Supported, NEW state \in [Fields -> Int],
         frame = PlaceButtons(formatMouseData(state), state["Buttons"]),
         state["Buttons"] \in 0..(Pow2[field["Buttons"].bits] - 1),
         \A f \in DOMAIN field \cap Axes : state[f] \in Holds(field[f])
  PROVE  \A m \in layout :
           Value(frame, m) = IF m[1] = "Buttons" THEN state["Buttons"] ELSE Clamp(state[m[1]], m[2])
<1> DEFINE data == formatMouseData(state)
<1>1. /\ GoodFields /\ current_bit \in Nat /\ report_size_bytes = Size(current_bit)
      /\ "Buttons" \in DOMAIN field /\ <<"Buttons", field["Buttons"]>> \in layout
  BY SupportedFields
<1>2. data \in Bits
  BY <1>1, FormatType
<1>3. field["Buttons"].offset % ByteBits = 0 /\ field["Buttons"].bits <= ByteBits
  BY <1>1, SupportedPlace
<1>4. field["Buttons"].offset + field["Buttons"].bits <= current_bit
  BY <1>1, SupportedFields
<1> HIDE DEF data
<1>5. /\ Unsigned(frame, field["Buttons"]) = state["Buttons"]
      /\ \A b \in 0..Last : b \div ByteBits # field["Buttons"].offset \div ByteBits => frame[b] = data[b]
  BY <1>1, <1>2, <1>3, <1>4, ButtonsAreMeant DEF data
<1>6. ASSUME NEW m \in layout, m[1] = "Buttons" PROVE Value(frame, m) = state["Buttons"]
  <2>1. m[2] = field["Buttons"]
    BY <1>6, SupportedFields
  <2> QED
    BY <1>5, <1>6, <2>1 DEF Value
<1>7. ASSUME NEW m \in layout, m[1] # "Buttons" PROVE Value(frame, m) = Clamp(state[m[1]], m[2])
  <2> DEFINE f == m[1]
  <2>1. f \in DOMAIN field /\ m[2] = field[f]
    BY SupportedFields
  <2>2. f \in DOMAIN field \cap Axes /\ state[f] \in Holds(field[f])
    BY <1>7, <2>1, SupportedPlace DEF Fields
  <2>3. field[f].min <= field[f].max /\ Fits(field[f], IF f = "Wheel" THEN ByteBits ELSE 2 * ByteBits)
    BY <2>2, SupportedPlace
  <2>4. \A b \in Span(field[f]) : frame[b] = data[b]
    <3>1. Span(field[f]) \subseteq 0..Last
      BY <1>1, <1>2, <2>1, PlaceBits DEF GoodFields
    <3>2. \A b \in Span(field[f]) : b \div ByteBits # field["Buttons"].offset \div ByteBits
      BY <1>1, <1>7, <2>1, SupportedPlace
    <3> QED
      BY <1>5, <3>1, <3>2
  <2>5. \A h \in DOMAIN field : h # f => Span(field[h]) \cap Span(field[f]) = {}
    BY <2>1, SupportedFields
  <2> HIDE DEF f
  <2>6. extractValue(frame, field[f]) = Clamp(state[f], field[f])
    BY <1>1, <2>2, <2>3, <2>4, <2>5, AxisIsMeant DEF data
  <2> QED
    BY <1>7, <2>1, <2>6 DEF Value, f
<1> QED
  BY <1>6, <1>7

\* What process() passes on of a whole report: the first buttons, and the axes as they are.
LEMMA PassedIs ==
  ASSUME HIDTypeInv, LayoutInv, stage = "sent", Supported
  PROVE  LET state == Passed(Extracted(raw))
         IN /\ state["Buttons"] \in 0..(Pow2[field["Buttons"].bits] - 1)
            /\ state["Buttons"] = Unsigned(raw, field["Buttons"]) % Pow2[PassedButtons]
            /\ \A f \in DOMAIN field \cap Axes :
                 state[f] \in Holds(field[f]) /\ state[f] = extractValue(raw, field[f])
<1>1. GoodFields /\ raw \in Bits /\ "Buttons" \in DOMAIN field
  BY SupportedFields
<1>2. ASSUME NEW f \in DOMAIN field
      PROVE  f \in Fields /\ field[f] \in Place /\ field[f].bits > 0 /\ field[f].bits \in Nat /\ BitsOf(raw, field[f])
  BY <1>1, PlaceBits, PlacePow2 DEF GoodFields
<1> DEFINE p == field["Buttons"]
           u == Unsigned(raw, p)
<1>3. u \in 0..(Pow2[p.bits] - 1)
  BY <1>1, <1>2, UnsignedRange
<1>4. p.bits <= ByteBits /\ p.bits \in Nat
  BY <1>1, <1>2, SupportedPlace
<1>5. /\ Pow2[ByteBits] \in Nat \ {0} /\ Pow2[p.bits] \in Nat \ {0} /\ Pow2[p.bits] <= Pow2[ByteBits]
      /\ Pow2[PassedButtons] \in Nat \ {0}
  BY <1>4, FrameBits, ReportAssumption, Pow2Defined, Pow2Grows
<1>6. Extracted(raw)["Buttons"] = u % Pow2[ByteBits]
  BY <1>1 DEF Extracted, Fields
<1>7. Passed(Extracted(raw))["Buttons"] = Extracted(raw)["Buttons"] % Pow2[PassedButtons]
  BY DEF Passed, Fields
<1> HIDE DEF u, p
<1>8. u % Pow2[ByteBits] = u /\ u % Pow2[PassedButtons] \in 0..u
  BY <1>3, <1>5
<1>9. /\ Passed(Extracted(raw))["Buttons"] = u % Pow2[PassedButtons]
      /\ Passed(Extracted(raw))["Buttons"] \in 0..(Pow2[p.bits] - 1)
  <2>1. Passed(Extracted(raw))["Buttons"] = u % Pow2[PassedButtons]
    BY <1>6, <1>7, <1>8
  <2> QED
    BY <1>3, <1>5, <1>8, <2>1
<1>10. ASSUME NEW f \in DOMAIN field \cap Axes
       PROVE  /\ Passed(Extracted(raw))[f] \in Holds(field[f])
              /\ Passed(Extracted(raw))[f] = extractValue(raw, field[f])
  <2> DEFINE width == IF f = "Wheel" THEN ByteBits ELSE 2 * ByteBits
             v == extractValue(raw, field[f])
  <2>1. f \in Fields /\ f # "Buttons"
    BY <1>2 DEF Axes
  <2>2. v \in Holds(field[f])
    BY <1>2, ExtractRange
  <2>3. width \in Nat \ {0} /\ Fits(field[f], width)
    BY FrameBits, SupportedPlace
  <2>4. Extracted(raw)[f] = Wrapped(v, width)
    BY <2>1 DEF Extracted
  <2>5. Passed(Extracted(raw))[f] = Extracted(raw)[f]
    BY <2>1 DEF Passed
  <2> HIDE DEF v, width
  <2>6. Wrapped(v, width) = v
    BY <1>2, <2>2, <2>3, WrappedSame
  <2> QED
    BY <2>2, <2>4, <2>5, <2>6 DEF v
<1> QED
  BY <1>9, <1>10 DEF u, p

\* It passes on nothing of a report that is too short.
LEMMA NothingPassed ==
  ASSUME GoodFields, "Buttons" \in DOMAIN field
  PROVE  /\ \A f \in Fields : Passed(Cleared)[f] = 0
         /\ 0 \in 0..(Pow2[field["Buttons"].bits] - 1)
         /\ \A f \in DOMAIN field : 0 \in Holds(field[f])
<1>1. Pow2[PassedButtons] \in Nat \ {0}
  BY ReportAssumption, Pow2Defined
<1>2. 0 % Pow2[PassedButtons] = 0
  BY <1>1
<1>3. \A f \in Fields : Passed(Cleared)[f] = 0
  BY <1>2 DEF Passed, Cleared
<1>4. ASSUME NEW f \in DOMAIN field PROVE 0 \in 0..(Pow2[field[f].bits] - 1) /\ 0 \in Holds(field[f])
  <2>1. Pow2[field[f].bits] \in Nat \ {0} /\ Pow2[field[f].bits - 1] \in Nat \ {0}
    BY PlacePow2 DEF GoodFields
  <2> QED
    BY <2>1 DEF Holds
<1> QED
  BY <1>3, <1>4

\* The PC reads what the mouse said and the code passes on, from every frame of a descriptor
\* the code supports: the first buttons and the movement within its limits, or nothing
\* of a report that was cut off.
THEOREM FrameMeansTheReport == HIDSpec => []FrameMeansReport
<1>1. HIDTypeInv /\ LayoutInv => FrameMeansReport
  <2> SUFFICES ASSUME HIDTypeInv, LayoutInv, stage = "sent", Supported
               PROVE  /\ report_size_bytes = Size(current_bit)
                      /\ length >= report_size_bytes =>
                           \A m \in layout : Value(frame, m) = Meaning(Value(raw, m), m)
                      /\ length + (IF report_id # 0 THEN 1 ELSE 0) < report_size_bytes =>
                           \A m \in layout : Value(frame, m) = Meaning(0, m)
    BY DEF FrameMeansReport
  <2>1. /\ GoodFields /\ raw \in Bits /\ report_size_bytes = Size(current_bit) /\ "Buttons" \in DOMAIN field
        /\ \A m \in layout : m[1] \in DOMAIN field /\ m[2] = field[m[1]]
        /\ \A f \in DOMAIN field : f \in Fields
    BY SupportedFields DEF GoodFields
  <2>2. length \in Nat /\ report_size_bytes \in Nat
    BY DEF HIDTypeInv, HIDTypeOK
  <2>3. PICK begins \in Begins : frame = process(raw, length, begins)
    BY DEF LayoutInv, FrameIsFormatted
  <2> DEFINE state == Passed(parseMouseData(raw, length, begins))
  <2>4. frame = PlaceButtons(formatMouseData(state), state["Buttons"]) /\ state \in [Fields -> Int]
    BY <2>1, <2>3, ParseType DEF process
  <2>5. ASSUME ~Short(length, begins)
        PROVE  \A m \in layout : Value(frame, m) = Meaning(Value(raw, m), m)
    <3>1. state = Passed(Extracted(raw))
      BY <2>5 DEF parseMouseData
    <3> HIDE DEF state
    <3>2. /\ state["Buttons"] \in 0..(Pow2[field["Buttons"].bits] - 1)
          /\ state["Buttons"] = Unsigned(raw, field["Buttons"]) % Pow2[PassedButtons]
          /\ \A f \in DOMAIN field \cap Axes :
               state[f] \in Holds(field[f]) /\ state[f] = extractValue(raw, field[f])
      BY <3>1, PassedIs
    <3>3. \A m \in layout :
            Value(frame, m) = IF m[1] = "Buttons" THEN state["Buttons"] ELSE Clamp(state[m[1]], m[2])
      BY <2>4, <3>2, FrameReads
    <3> QED
      BY <2>1, <3>2, <3>3 DEF Value, Meaning, Fields
  <2>6. ASSUME Short(length, begins)
        PROVE  \A m \in layout : Value(frame, m) = Meaning(0, m)
    <3>1. state = Passed(Cleared)
      BY <2>6 DEF parseMouseData
    <3> HIDE DEF state
    <3>2. /\ \A f \in Fields : state[f] = 0
          /\ 0 \in 0..(Pow2[field["Buttons"].bits] - 1) /\ \A f \in DOMAIN field : 0 \in Holds(field[f])
      BY <2>1, <3>1, NothingPassed
    <3>3. state["Buttons"] = 0 /\ \A f \in DOMAIN field : state[f] = 0
      BY <2>1, <3>2
    <3>4. \A m \in layout :
            Value(frame, m) = IF m[1] = "Buttons" THEN state["Buttons"] ELSE Clamp(state[m[1]], m[2])
      BY <2>4, <3>2, <3>3, FrameReads
    <3>5. 0 % Pow2[PassedButtons] = 0
      BY ReportAssumption, Pow2Defined
    <3> QED
      BY <2>1, <3>3, <3>4, <3>5 DEF Meaning
  <2>7. /\ length >= report_size_bytes => ~Short(length, begins)
        /\ length + (IF report_id # 0 THEN 1 ELSE 0) < report_size_bytes => Short(length, begins)
    BY <2>2, ShortIs
  <2> QED
    BY <2>1, <2>5, <2>6, <2>7
<1> QED
  BY <1>1, HIDTypeInvariant, LayoutInvariant, PTL
=============================================================================
