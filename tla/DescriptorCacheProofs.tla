------------------------ MODULE DescriptorCacheProofs ------------------------
(***************************************************************************)
(* Proofs about DescriptorCache, for every set of mouse models, number of  *)
(* string slots and number of replugs.                                     *)
(***************************************************************************)
EXTENDS DescriptorCache, WellFoundedInduction, TLAPS

\* d is not valid, or a descriptor of the mouse that is claimed.
Current(d) == d = NoDesc \/ (Claimed /\ d.gen = gen)

AllCurrent ==
  /\ Current(device_desc) /\ Current(config_desc) /\ Current(bos_desc)
  /\ \A i \in 1..StringSlots : Current(string_descs[i].desc)

\* Between a fetch and its store the buffer is the claimed mouse's, unless a
\* disconnect came in between.
BufferCurrent == pc \in {"identify", "store"} => Claimed /\ buffer.gen = gen

StaleInv ==
  /\ ~torn => AllCurrent /\ BufferCurrent
  /\ string_descs \in [1..StringSlots -> Slot \cup {NoSlot}]
  /\ buffer \in Desc \cup {NoDesc}
  /\ pc \in {"identify", "store"} => buffer \in Desc
  /\ gen \in 0..MaxPlugs /\ pending_setup \in Requests \cup {NoRequest}
  /\ pc \in {"fetch", "identify", "store"} => pending_setup \in Requests
  /\ Claimed => gen # 0

LEMMA RequestFacts ==
  ASSUME NEW r \in Requests
  PROVE  /\ r.type \in Types /\ r.want \in {1, 3, 4} /\ r.index \in {0, 1} \cup StringIndexes
         /\ r.type \in {"device", "bos"} => r.index = 0
         /\ r.type = "string" => r.index \in StringIndexes
         /\ r # NoRequest
  BY DEF Requests, IndexesOf, WantedOf, Whole, Types, NoRequest

\* What a fetch returns is the claimed mouse's: what was asked for, or the data of
\* another transfer.
LEMMA ReceivedFacts ==
  ASSUME NEW r \in Requests, gen \in 1..MaxPlugs, NEW d \in Received(r)
  PROVE  /\ d \in Desc /\ d.gen = gen
         /\ d.type = "other" \/ (d.type = r.type /\ d.index = r.index)
<1>1. FetchedLength(r) \in 0..4
  BY RequestFacts DEF FetchedLength, LeastOf, Whole
<1>2. LateLengths(r) \subseteq 0..4
  BY RequestFacts DEF LateLengths
<1>3. CASE d = [gen |-> gen, type |-> r.type, index |-> r.index, len |-> FetchedLength(r)]
  BY <1>1, <1>3, RequestFacts DEF Desc
<1>4. ASSUME NEW n \in LateLengths(r), d = [gen |-> gen, type |-> "other", index |-> 0, len |-> n]
      PROVE  d \in Desc /\ d.gen = gen /\ d.type = "other"
  BY <1>2, <1>4 DEF Desc
<1> QED
  BY <1>3, <1>4 DEF Received

\* Where a string goes: in the slot of its key, or a free one under its key.
LEMMA SlotFacts ==
  ASSUME string_descs \in [1..StringSlots -> Slot \cup {NoSlot}],
         NEW k \in StringIndexes, NEW d \in Stored, StoreString(k, d)
  PROVE  /\ string_descs' \in [1..StringSlots -> Slot \cup {NoSlot}]
         /\ \A i \in 1..StringSlots :
              string_descs'[i] = string_descs[i] \/ string_descs'[i] = [index |-> k, desc |-> d]
<1> DEFINE new == [index |-> k, desc |-> d]
<1>1. new \in Slot
  BY DEF Slot
<1>2. ASSUME NEW i \in 1..StringSlots, Holds(i, k), string_descs' = [string_descs EXCEPT ![i].desc = d]
      PROVE  string_descs' = [string_descs EXCEPT ![i] = new]
  <2>1. string_descs[i] \in Slot /\ string_descs[i].index = k
    BY <1>2 DEF Holds
  <2>2. [string_descs[i] EXCEPT !.desc = d] = new
    BY <2>1 DEF Slot
  <2>3. string_descs' = [string_descs EXCEPT ![i] = [string_descs[i] EXCEPT !.desc = d]]
    BY <1>2
  <2> QED
    BY <2>2, <2>3
<1>3. \/ \E i \in 1..StringSlots : string_descs' = [string_descs EXCEPT ![i] = new]
      \/ UNCHANGED string_descs
  BY <1>2 DEF StoreString
<1> QED
  BY <1>1, <1>3

\* What a store changes: the entry of the type that was asked for, if the buffer
\* is fit for it.
LEMMA StoreFacts ==
  ASSUME Store, string_descs \in [1..StringSlots -> Slot \cup {NoSlot}],
         buffer \in Desc, pending_setup \in Requests
  PROVE  /\ string_descs' \in [1..StringSlots -> Slot \cup {NoSlot}]
         /\ \A i \in 1..StringSlots :
              \/ string_descs'[i] = string_descs[i]
              \/ /\ pending_setup.type = "string"
                 /\ string_descs'[i] = [index |-> pending_setup.index, desc |-> buffer]
         /\ \/ device_desc' = device_desc
            \/ pending_setup.type = "device" /\ buffer \in Stored /\ device_desc' = buffer
         /\ \/ config_desc' = config_desc
            \/ /\ pending_setup.type = "config" /\ buffer \in Stored /\ config_desc' = buffer
               /\ buffer.type = "config" => buffer.len >= Whole
         /\ \/ bos_desc' = bos_desc
            \/ /\ pending_setup.type = "bos" /\ buffer \in Stored /\ bos_desc' = buffer
               /\ buffer.type = "bos" => buffer.len >= Whole
<1> DEFINE Goes(type, whole) == type = pending_setup.type /\ Cacheable(buffer, type, whole)
<1>1. PICK whole \in IF buffer.type = pending_setup.type THEN {buffer.len >= Whole} ELSE BOOLEAN :
        /\ device_desc' = IF Goes("device", whole) THEN buffer ELSE device_desc
        /\ config_desc' = IF Goes("config", whole) THEN buffer ELSE config_desc
        /\ bos_desc' = IF Goes("bos", whole) THEN buffer ELSE bos_desc
        /\ IF Goes("string", whole) THEN StoreString(pending_setup.index, buffer)
           ELSE UNCHANGED string_descs
  BY DEF Store
<1>2. ASSUME NEW type, Goes(type, whole) PROVE type = pending_setup.type /\ buffer \in Stored
  BY <1>2 DEF Cacheable, Stored
<1>3. ASSUME NEW type \in {"config", "bos"}, Goes(type, whole), buffer.type = type
      PROVE  buffer.len >= Whole
  BY <1>1, <1>3 DEF Cacheable
<1>4. Goes("string", whole) => /\ pending_setup.type = "string" /\ buffer \in Stored
                               /\ pending_setup.index \in StringIndexes
  BY <1>2, RequestFacts
<1> HIDE DEF Goes
<1>5. /\ string_descs' \in [1..StringSlots -> Slot \cup {NoSlot}]
      /\ \A i \in 1..StringSlots :
           \/ string_descs'[i] = string_descs[i]
           \/ /\ pending_setup.type = "string"
              /\ string_descs'[i] = [index |-> pending_setup.index, desc |-> buffer]
  <2>1. CASE Goes("string", whole)
    BY <1>1, <1>4, <2>1, SlotFacts
  <2>2. CASE ~Goes("string", whole)
    BY <1>1, <2>2
  <2> QED
    BY <2>1, <2>2
<1> QED
  BY <1>1, <1>2, <1>3, <1>5

\* The cache never holds a descriptor of an earlier mouse, unless a disconnect
\* preempted storeDescriptorInCache().
THEOREM CacheIsFresh == Spec => []StaleOnlyIfTorn
<1> USE CacheAssumption
<1>1. Init => StaleInv
  BY DEF Init, StaleInv, AllCurrent, Current, BufferCurrent, Claimed, NoSlot
<1>2. StaleInv /\ [Next]_vars => StaleInv'
  <2> SUFFICES ASSUME StaleInv, [Next]_vars PROVE StaleInv'
    OBVIOUS
  <2> USE DEF StaleInv, AllCurrent, Current, BufferCurrent, Claimed
  <2>1. ASSUME NEW m \in Models, Claim(m) PROVE StaleInv'
    BY <2>1 DEF Claim, cacheVars, NoModel
  <2>2. CASE Disconnect
    BY <2>2 DEF Disconnect, Invalidate, NoSlot
  <2>3. ASSUME NEW r \in Requests, ServeHit(r) PROVE StaleInv'
    BY <2>3 DEF ServeHit, cacheVars
  <2>4. ASSUME NEW r \in Requests, ForwardMiss(r) PROVE StaleInv'
    BY <2>4 DEF ForwardMiss, Invalidate, cacheVars, NoSlot
  <2>5. CASE Fetched
    <3>1. gen \in 1..MaxPlugs /\ pending_setup \in Requests
      BY <2>5 DEF Fetched
    <3>2. buffer' \in Desc /\ buffer'.gen = gen
      BY <2>5, <3>1, ReceivedFacts DEF Fetched
    <3> QED
      BY <2>5, <3>1, <3>2 DEF Fetched, cacheVars
  <2>6. CASE FetchFailed
    BY <2>6 DEF FetchFailed, cacheVars
  <2>12. CASE OtherGivenUp
    BY <2>12 DEF OtherGivenUp, cacheVars
  <2>13. CASE LateEnds
    BY <2>13 DEF LateEnds, cacheVars
  <2>7. CASE Identify
    BY <2>7 DEF Identify
  <2>8. CASE Store
    <3>1. buffer \in Desc /\ pc = "store"
      BY <2>8 DEF Store
    <3>2. /\ string_descs' \in [1..StringSlots -> Slot \cup {NoSlot}]
          /\ \A i \in 1..StringSlots : string_descs'[i].desc \in {string_descs[i].desc, buffer}
      BY <2>8, <3>1, StoreFacts DEF Slot, NoSlot
    <3>3. /\ device_desc' \in {device_desc, buffer} /\ config_desc' \in {config_desc, buffer}
          /\ bos_desc' \in {bos_desc, buffer}
      BY <2>8, <3>1, StoreFacts
    <3>4. ~torn => AllCurrent'
      BY <2>8, <3>1, <3>2, <3>3 DEF Store
    <3> QED
      BY <2>8, <3>1, <3>2, <3>4 DEF Store
  <2>9. CASE Answered
    BY <2>9 DEF Answered, cacheVars
  <2>10. CASE BusReset
    BY <2>10 DEF BusReset, Invalidate, cacheVars, NoSlot
  <2>11. CASE UNCHANGED vars
    BY <2>11 DEF vars
  <2> QED
    BY <2>1, <2>2, <2>3, <2>4, <2>5, <2>6, <2>7, <2>8, <2>9, <2>10, <2>11,
     <2>12, <2>13 DEF Next, Interrupt, Mouse, Serve
<1>3. StaleInv => StaleOnlyIfTorn
  BY DEF StaleInv, AllCurrent, Current, StaleOnlyIfTorn, Entries, Claimed
<1>4. QED
  BY <1>1, <1>2, <1>3, PTL DEF Spec

-----------------------------------------------------------------------------
(***************************************************************************)
(* What the entries are, and so what a hit serves.                         *)
(***************************************************************************)
\* Every entry holds the kind of descriptor it is for, or the data of another
\* transfer; a string is the one its slot's key names, and a configuration or BOS
\* descriptor is held whole.
EntriesInv ==
  /\ device_desc.type \in {"none", "device", "other"}
  /\ device_desc.type = "device" => device_desc.index = 0
  /\ config_desc.type \in {"none", "config", "other"}
  /\ config_desc.type = "config" => config_desc.len >= Whole
  /\ bos_desc.type \in {"none", "bos", "other"}
  /\ bos_desc.type = "bos" => bos_desc.index = 0 /\ bos_desc.len >= Whole
  /\ \A i \in 1..StringSlots :
       /\ string_descs[i].desc.type \in {"none", "string", "other"}
       /\ string_descs[i].desc.type = "string" => string_descs[i].desc.index = string_descs[i].index

\* A fetch is of the request that waits, and between a fetch and its store the
\* buffer is the descriptor that request asked for, or other data.
FetchInv ==
  /\ Claimed => gen # 0
  /\ pc \in {"fetch", "identify", "store"} => pending_setup \in Requests
  /\ pc \in {"identify", "store"} =>
       /\ buffer \in Desc
       /\ buffer.type = "other" \/ (buffer.type = pending_setup.type /\ buffer.index = pending_setup.index)

CacheInv == TypeOK /\ EntriesInv /\ FetchInv /\ WholeConfigServed /\ HitIsTheOneAsked

\* A descriptor cut to what was asked for is a descriptor, of the same kind.
LEMMA CutFacts ==
  ASSUME NEW d \in Desc, NEW r \in Requests, NEW c, c = [d EXCEPT !.len = LeastOf(@, r.want)]
  PROVE  /\ c \in Desc /\ c.type = d.type /\ c.index = d.index
         /\ c.len = LeastOf(d.len, r.want)
  BY RequestFacts DEF Desc, LeastOf

\* A set of numbers has a least one.
LEMMA LeastExists ==
  ASSUME NEW T \in SUBSET Nat, T # {}
  PROVE  \E i \in T : \A j \in T : i <= j
<1> DEFINE R == OpToRel(<, Nat)
<1>1. IsWellFoundedOn(R, Nat)
  BY NatLessThanWellFounded
<1>2. ASSUME NEW a \in Nat, NEW b \in Nat, a < b PROVE <<a, b>> \in R
  BY <1>2 DEF OpToRel
<1> HIDE DEF R
<1>3. \E i \in T : \A j \in T : ~ (<<j, i>> \in R)
  BY <1>1, WFMin
<1>4. PICK i \in T : \A j \in T : ~ (<<j, i>> \in R)
  BY <1>3
<1>5. ASSUME NEW j \in T PROVE i <= j
  <2>1. i \in Nat /\ j \in Nat /\ ~ (<<j, i>> \in R)
    BY <1>4
  <2>2. ~(j < i)
    BY <1>2, <2>1
  <2> QED
    BY <2>1, <2>2
<1> QED
  BY <1>5

\* What lookup() finds for a request is an entry of the kind that was asked for.
LEMMA LookupFacts ==
  ASSUME TypeOK, EntriesInv, NEW r \in Requests, Lookup(r) # NoDesc
  PROVE  /\ Lookup(r) \in Desc
         /\ \/ Lookup(r).type = "other"
            \/ /\ Lookup(r).type = r.type
               /\ r.type # "config" => Lookup(r).index = r.index
               /\ r.type \in {"config", "bos"} => Lookup(r).len >= Whole
<1>1. CASE r.type = "string"
  <2>0. Lookup(r) = IF \E i \in 1..StringSlots : Holds(i, r.index)
                    THEN string_descs[CHOOSE i \in 1..StringSlots :
                           Holds(i, r.index) /\ \A j \in 1..(i - 1) : ~Holds(j, r.index)].desc
                    ELSE NoDesc
    BY <1>1 DEF Lookup
  <2>1. \E i \in 1..StringSlots : Holds(i, r.index)
    BY <2>0
  <2> DEFINE at == {i \in 1..StringSlots : Holds(i, r.index)}
  <2>2. \E i \in at : \A j \in at : i <= j
    <3>1. at \in SUBSET Nat /\ at # {}
      BY <2>1, CacheAssumption
    <3> HIDE DEF at
    <3> QED
      BY <3>1, LeastExists
  <2>3. \E i \in 1..StringSlots : Holds(i, r.index) /\ \A j \in 1..(i - 1) : ~Holds(j, r.index)
    BY <2>2, CacheAssumption
  <2>4. PICK i \in 1..StringSlots : Holds(i, r.index) /\ Lookup(r) = string_descs[i].desc
    BY <2>0, <2>1, <2>3
  <2>5. string_descs[i] \in Slot /\ string_descs[i].index = r.index
    BY <2>4 DEF Holds, TypeOK
  <2>6. Lookup(r) \in Desc /\ Lookup(r).type \in Types \cup {"other"}
    BY <2>4, <2>5 DEF Slot, Stored, Desc
  <2> QED
    BY <1>1, <2>4, <2>5, <2>6 DEF EntriesInv, Types
<1>2. CASE r.type # "string"
  <2>1. Lookup(r) \in Desc /\ Lookup(r).type \in Types \cup {"other"}
    BY <1>2, RequestFacts DEF Lookup, TypeOK, Types, Stored, Desc
  <2> QED
    BY <1>2, <2>1, RequestFacts DEF Lookup, EntriesInv, Types
<1> QED
  BY <1>1, <1>2

\* A reply is the descriptor it was cut from, for the request it was cut to.
LEMMA ReplyFacts ==
  ASSUME NEW d \in Desc, NEW r \in Requests, NEW hit \in BOOLEAN, Reply(d, r, hit)
  PROVE  /\ reply' \in [desc : Desc \cup {NoDesc}, req : Requests \cup {NoRequest}, hit : BOOLEAN]
         /\ reply'.desc.type = d.type /\ reply'.desc.index = d.index
         /\ reply'.desc.len = LeastOf(d.len, r.want)
         /\ reply'.req = r /\ reply'.hit = hit
<1> DEFINE c == [d EXCEPT !.len = LeastOf(@, r.want)]
<1>1. /\ c \in Desc /\ c.type = d.type /\ c.index = d.index
      /\ c.len = LeastOf(d.len, r.want)
  BY CutFacts
<1>2. reply' = [desc |-> c, req |-> r, hit |-> hit]
  BY DEF Reply
<1> QED
  BY <1>1, <1>2

\* Two ways a step leaves the cached descriptors in order.
LEMMA EmptyCacheFacts ==
  ASSUME Invalidate
  PROVE  /\ EntriesInv'
         /\ device_desc' \in Stored \cup {NoDesc} /\ config_desc' \in Stored \cup {NoDesc}
         /\ bos_desc' \in Stored \cup {NoDesc}
         /\ string_descs' \in [1..StringSlots -> Slot \cup {NoSlot}]
         /\ identity' \in [valid : BOOLEAN, model : Models \cup {NoModel}]
  BY DEF Invalidate, EntriesInv, NoIdentity, NoDesc, NoSlot

\* The cache holds what it says it holds, and a hit serves what was asked for.
THEOREM CacheInvariant == Spec => []CacheInv
<1> USE CacheAssumption
<1> USE DEF CacheInv
<1>1. Init => CacheInv
  <2> SUFFICES ASSUME Init PROVE CacheInv
    OBVIOUS
  <2>1. TypeOK
    <3>1. reply \in [desc : Desc \cup {NoDesc}, req : Requests \cup {NoRequest}, hit : BOOLEAN]
      BY DEF Init, NoReply
    <3>2. identity \in [valid : BOOLEAN, model : Models \cup {NoModel}]
      BY DEF Init, NoIdentity
    <3>3. gen \in 0..MaxPlugs /\ model \in Models \cup {NoModel}
      BY DEF Init
    <3>4. string_descs \in [1..StringSlots -> Slot \cup {NoSlot}]
      BY DEF Init
    <3> QED
      BY <3>1, <3>2, <3>3, <3>4 DEF Init, TypeOK
  <2>2. EntriesInv /\ FetchInv
    BY DEF Init, EntriesInv, FetchInv, Claimed, NoDesc, NoSlot
  <2>3. WholeConfigServed /\ HitIsTheOneAsked
    BY DEF Init, WholeConfigServed, HitIsTheOneAsked, NoReply
  <2> QED
    BY <2>1, <2>2, <2>3
<1>2. CacheInv /\ [Next]_vars => CacheInv'
  <2> SUFFICES ASSUME CacheInv, [Next]_vars PROVE CacheInv'
    OBVIOUS
  <2> DEFINE Asked == WholeConfigServed /\ HitIsTheOneAsked
  <2>0. reply' = NoReply => Asked'
    BY DEF NoReply, WholeConfigServed, HitIsTheOneAsked
  <2>00. reply' = reply => Asked'
    BY DEF WholeConfigServed, HitIsTheOneAsked
  <2>1. ASSUME NEW m \in Models, Claim(m) PROVE CacheInv'
    <3>1. TypeOK' /\ EntriesInv' /\ FetchInv'
      BY <2>1 DEF Claim, cacheVars, TypeOK, EntriesInv, FetchInv, NoReply, Claimed
    <3> QED
      BY <3>1, <2>0, <2>1 DEF Claim
  <2>2. CASE Disconnect
    <3>1. TypeOK'
      BY <2>2, EmptyCacheFacts DEF Disconnect, TypeOK, NoReply
    <3>2. FetchInv'
      BY <2>2 DEF Disconnect, FetchInv, Claimed
    <3> QED
      BY <3>1, <3>2, <2>0, <2>2, EmptyCacheFacts DEF Disconnect
  <2>3. ASSUME NEW r \in Requests, ServeHit(r) PROVE CacheInv'
    <3> DEFINE d == Lookup(r)
    <3>1. /\ d \in Desc
          /\ \/ d.type = "other"
             \/ /\ d.type = r.type
                /\ r.type # "config" => d.index = r.index
                /\ r.type \in {"config", "bos"} => d.len >= Whole
      BY <2>3, LookupFacts DEF ServeHit
    <3>2. Reply(d, r, TRUE)
      BY <2>3 DEF ServeHit
    <3> HIDE DEF d
    <3>3. /\ reply' \in [desc : Desc \cup {NoDesc}, req : Requests \cup {NoRequest}, hit : BOOLEAN]
          /\ reply'.desc.type = d.type /\ reply'.desc.index = d.index
          /\ reply'.desc.len = LeastOf(d.len, r.want)
          /\ reply'.req = r
      BY <3>1, <3>2, ReplyFacts
    <3>4. TypeOK' /\ EntriesInv' /\ FetchInv'
      BY <2>3, <3>3 DEF ServeHit, cacheVars, TypeOK, EntriesInv, FetchInv, Claimed
    <3>5. WholeConfigServed'
      BY <3>1, <3>3, RequestFacts DEF WholeConfigServed, LeastOf, Whole, Desc
    <3>6. HitIsTheOneAsked'
      BY <3>1, <3>3 DEF HitIsTheOneAsked
    <3> QED
      BY <3>4, <3>5, <3>6
  <2>4. ASSUME NEW r \in Requests, ForwardMiss(r) PROVE CacheInv'
    <3>1. TypeOK' /\ EntriesInv'
      BY <2>4, EmptyCacheFacts DEF ForwardMiss, cacheVars, TypeOK, EntriesInv
    <3>2. FetchInv'
      BY <2>4 DEF ForwardMiss, FetchInv, Claimed
    <3> QED
      BY <3>1, <3>2, <2>00, <2>4 DEF ForwardMiss
  <2>5. CASE Fetched
    <3>1. gen \in 1..MaxPlugs /\ pending_setup \in Requests
      BY <2>5 DEF Fetched, TypeOK, FetchInv
    <3>2. /\ buffer' \in Desc
          /\ \/ buffer'.type = "other"
             \/ buffer'.type = pending_setup.type /\ buffer'.index = pending_setup.index
      BY <2>5, <3>1, ReceivedFacts DEF Fetched
    <3>0. late' \in BOOLEAN
      BY <2>5 DEF Fetched, TypeOK
    <3>3. TypeOK' /\ EntriesInv' /\ FetchInv'
      BY <2>5, <3>0, <3>1, <3>2 DEF Fetched, cacheVars, TypeOK, EntriesInv, FetchInv, Claimed
    <3> QED
      BY <3>3, <2>00, <2>5 DEF Fetched
  <2>6. CASE FetchFailed
    <3>0. late' \in BOOLEAN
      BY <2>6, Zenon DEF FetchFailed, TypeOK
    <3>1. TypeOK' /\ EntriesInv' /\ FetchInv'
      BY <2>6, <3>0 DEF FetchFailed, cacheVars, TypeOK, EntriesInv, FetchInv, Claimed
    <3> QED
      BY <3>1, <2>00, <2>6 DEF FetchFailed
  <2>12. CASE OtherGivenUp
    <3>1. TypeOK' /\ EntriesInv' /\ FetchInv'
      BY <2>12 DEF OtherGivenUp, cacheVars, TypeOK, EntriesInv, FetchInv, Claimed
    <3> QED
      BY <3>1, <2>00, <2>12 DEF OtherGivenUp
  <2>13. CASE LateEnds
    <3>0. late' \in BOOLEAN
      BY <2>13 DEF LateEnds
    <3>1. TypeOK' /\ EntriesInv' /\ FetchInv'
      BY <2>13, <3>0 DEF LateEnds, cacheVars, TypeOK, EntriesInv, FetchInv, Claimed
    <3> QED
      BY <3>1, <2>00, <2>13 DEF LateEnds
  <2>7. CASE Identify
    <3>1. TypeOK' /\ EntriesInv' /\ FetchInv'
      BY <2>7 DEF Identify, TypeOK, EntriesInv, FetchInv, Claimed
    <3> QED
      BY <3>1, <2>00, <2>7 DEF Identify
  <2>8. CASE Store
    <3>1. /\ buffer \in Desc /\ pending_setup \in Requests
          /\ \/ buffer.type = "other"
             \/ buffer.type = pending_setup.type /\ buffer.index = pending_setup.index
      BY <2>8 DEF Store, FetchInv
    <3>2. string_descs \in [1..StringSlots -> Slot \cup {NoSlot}]
      BY DEF TypeOK
    <3>3. /\ reply' \in [desc : Desc \cup {NoDesc}, req : Requests \cup {NoRequest}, hit : BOOLEAN]
          /\ reply'.hit = FALSE
      BY <2>8, <3>1, ReplyFacts DEF Store
    <3>4. TypeOK'
      BY <2>8, <3>1, <3>2, <3>3, StoreFacts DEF Store, TypeOK
    <3>5. EntriesInv'
      BY <2>8, <3>1, <3>2, StoreFacts, RequestFacts DEF EntriesInv
    <3>6. FetchInv'
      BY <2>8 DEF Store, FetchInv, Claimed
    <3>7. Asked'
      BY <3>3 DEF WholeConfigServed, HitIsTheOneAsked
    <3> QED
      BY <3>4, <3>5, <3>6, <3>7
  <2>9. CASE Answered
    <3>1. TypeOK' /\ EntriesInv' /\ FetchInv'
      BY <2>9 DEF Answered, cacheVars, TypeOK, EntriesInv, FetchInv, Claimed, NoReply
    <3> QED
      BY <3>1, <2>0, <2>9 DEF Answered
  <2>10. CASE BusReset
    <3>1. TypeOK' /\ EntriesInv'
      BY <2>10, EmptyCacheFacts DEF BusReset, cacheVars, TypeOK, EntriesInv
    <3>2. FetchInv'
      BY <2>10 DEF BusReset, FetchInv, Claimed
    <3> QED
      BY <3>1, <3>2, <2>00, <2>10 DEF BusReset
  <2>11. CASE UNCHANGED vars
    <3>1. TypeOK' /\ EntriesInv' /\ FetchInv'
      BY <2>11 DEF vars, TypeOK, EntriesInv, FetchInv, Claimed
    <3> QED
      BY <3>1, <2>00, <2>11 DEF vars
  <2> QED
    BY <2>1, <2>2, <2>3, <2>4, <2>5, <2>6, <2>7, <2>8, <2>9, <2>10, <2>11,
     <2>12, <2>13 DEF Next, Interrupt, Mouse, Serve
<1>3. QED
  BY <1>1, <1>2, PTL DEF Spec

\* Every variable of the cache and of the thread that uses it has its type.
THEOREM TypeCorrect == Spec => []TypeOK
<1>1. CacheInv => TypeOK
  BY DEF CacheInv
<1> QED
  BY <1>1, CacheInvariant, PTL

\* A probe of a configuration or BOS header never answers the full request.
THEOREM ProbeIsNotServed == Spec => []WholeConfigServed
<1>1. CacheInv => WholeConfigServed
  BY DEF CacheInv
<1> QED
  BY <1>1, CacheInvariant, PTL

\* A hit is the descriptor its key names, unless the data of an earlier transfer
\* was taken for it.
THEOREM HitIsRight == Spec => []HitIsTheOneAsked
<1>1. CacheInv => HitIsTheOneAsked
  BY DEF CacheInv
<1> QED
  BY <1>1, CacheInvariant, PTL
=============================================================================
