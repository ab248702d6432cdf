--------------------------- MODULE DescriptorCache ---------------------------
(***************************************************************************)
(* The descriptor cache of USBDeviceProxy: GET_DESCRIPTOR requests are     *)
(* answered from it, or fetched from the mouse and stored.  The thread     *)
(* that serves them is preempted by the USB host interrupt, in which       *)
(* USBHostDriver::disconnect() empties the cache and claim() announces the *)
(* next mouse.                                                             *)
(*                                                                         *)
(* The bytes of a descriptor are abstracted to whose they are, which       *)
(* descriptor they begin, and how many units of it there are.  They are    *)
(* not always the ones that were asked for: a transfer to the mouse that   *)
(* was given up may complete the fetch of another descriptor.              *)
(***************************************************************************)
EXTENDS Naturals, FiniteSets

CONSTANTS Models,       \* VID/PID pairs
          StringSlots,  \* DESC_CACHE_MAX_STRING_ENTRIES
          StringIndexes,\* (index, language) keys of string descriptors
          MaxPlugs      \* how many mice are plugged in, one after the other

ASSUME CacheAssumption ==
  /\ StringSlots \in Nat \ {0}
  /\ MaxPlugs \in Nat \ {0}
  /\ 0 \notin Models

NoModel == 0    \* getVendorID() and getProductID() of no device

Types == {"device", "config", "string", "bos"}
\* Every descriptor has Whole units; a PC asks for one (a probe of the header),
\* for the whole, or for more than there is (of a string, which is cut to its
\* length, that is the same as the whole).
Whole == 3
WantedOf(type) == IF type = "string" THEN {1, Whole} ELSE {1, Whole, 4}
IndexesOf(type) == CASE type = "string" -> StringIndexes
                     [] type = "config" -> {0, 1}
                     [] OTHER           -> {0}
Requests == {r \in [type : Types, index : {0, 1} \cup StringIndexes, want : {1, Whole, 4}] :
               r.index \in IndexesOf(r.type) /\ r.want \in WantedOf(r.type)}

\* Descriptor bytes: they begin a descriptor of the gen-th mouse, or are the data
\* of another transfer to it ("other"); len is in units of what was asked for, and
\* what comes after the Whole-th is left over from other transfers.
Desc == [gen : 1..MaxPlugs, type : Types \cup {"other"}, index : {0, 1} \cup StringIndexes, len : 0..4]
NoDesc == [gen |-> 0, type |-> "none", index |-> 0, len |-> 0]
Stored == {d \in Desc : d.len # 0}
\* An entry of string_descs: the key it was stored under, and what was stored.
Slot == [index : StringIndexes, desc : Stored]
NoSlot == [index |-> 0, desc |-> NoDesc]

VARIABLES
  \* USBHostDriver
  gen,        \* how many mice have been claimed
  model,      \* VID/PID of the claimed mouse; NoModel: none is claimed
  late,       \* a transfer that was given up is still open on the control pipe
  \* struct DescriptorCache; NoDesc, NoSlot: the entry is not valid
  device_desc, config_desc, bos_desc, string_descs,
  identity,   \* [valid, model]: identity_valid, cached_vid and cached_pid
  \* the thread in processControlTransfer()
  pc, pending_setup,
  buffer,     \* proxy_descriptor_buffer after a fetch
  reply,      \* the answer the PC is being sent: [desc, req, hit]
  torn        \* history: a disconnect hit storeDescriptorInCache()

cacheVars == <<device_desc, config_desc, bos_desc, string_descs, identity>>
vars == <<gen, model, late, device_desc, config_desc, bos_desc, string_descs, identity,
          pc, pending_setup, buffer, reply, torn>>

NoIdentity == [valid |-> FALSE, model |-> NoModel]
NoRequest == [type |-> "none", index |-> 0, want |-> 0]
NoReply == [desc |-> NoDesc, req |-> NoRequest, hit |-> FALSE]
Claimed == model # NoModel

TypeOK ==
  /\ gen \in 0..MaxPlugs /\ model \in Models \cup {NoModel} /\ late \in BOOLEAN
  /\ device_desc \in Stored \cup {NoDesc} /\ config_desc \in Stored \cup {NoDesc}
  /\ bos_desc \in Stored \cup {NoDesc}
  /\ string_descs \in [1..StringSlots -> Slot \cup {NoSlot}]
  /\ identity \in [valid : BOOLEAN, model : Models \cup {NoModel}]
  /\ pc \in {"idle", "fetch", "lost", "identify", "store"}
  /\ pending_setup \in Requests \cup {NoRequest}
  /\ buffer \in Desc \cup {NoDesc}
  /\ reply \in [desc : Desc \cup {NoDesc}, req : Requests \cup {NoRequest}, hit : BOOLEAN]
  /\ torn \in BOOLEAN

Init ==
  /\ gen = 0 /\ model = NoModel /\ late = FALSE
  /\ device_desc = NoDesc /\ config_desc = NoDesc /\ bos_desc = NoDesc
  /\ string_descs = [i \in 1..StringSlots |-> NoSlot]
  /\ identity = NoIdentity
  /\ pc = "idle" /\ pending_setup = NoRequest /\ buffer = NoDesc
  /\ reply = NoReply /\ torn = FALSE

-----------------------------------------------------------------------------
(***************************************************************************)
(* struct DescriptorCache.                                                 *)
(***************************************************************************)
\* invalidate()
Invalidate ==
  /\ device_desc' = NoDesc /\ config_desc' = NoDesc /\ bos_desc' = NoDesc
  /\ string_descs' = [i \in 1..StringSlots |-> NoSlot]
  /\ identity' = NoIdentity

\* (mutant) Strings are not told apart by their index.
HoldsAny(i, index) == string_descs[i] # NoSlot

\* The slot's key is compared, never what is in it.
Holds(i, index) == string_descs[i] # NoSlot /\ string_descs[i].index = index

\* lookup(): the configuration and BOS entries are not keyed by their index.
Lookup(r) ==
  CASE r.type = "device" -> device_desc
    [] r.type = "config" -> config_desc
    [] r.type = "bos"    -> bos_desc
    [] OTHER -> IF \E i \in 1..StringSlots : Holds(i, r.index)
                THEN string_descs[CHOOSE i \in 1..StringSlots :
                       Holds(i, r.index) /\ \A j \in 1..(i - 1) : ~Holds(j, r.index)].desc
                ELSE NoDesc

\* store() of a string: in the slot its key has, else under the key in the first
\* free one, else nowhere.
StoreString(index, d) ==
  LET own  == {i \in 1..StringSlots : Holds(i, index)}
      free == {i \in 1..StringSlots : string_descs[i] = NoSlot}
  IN \/ \E i \in own : /\ \A j \in own : i <= j
                       /\ string_descs' = [string_descs EXCEPT ![i].desc = d]
     \/ /\ own = {}
        /\ \E i \in free : /\ \A j \in free : i <= j
                           /\ string_descs' = [string_descs EXCEPT ![i] = [index |-> index, desc |-> d]]
     \/ own = {} /\ free = {} /\ UNCHANGED string_descs

-----------------------------------------------------------------------------
(***************************************************************************)
(* The USB host interrupt.                                                 *)
(***************************************************************************)
\* claim(): a new mouse needs a debounce, a port reset and an enumeration, so
\* it cannot appear between the end of a fetch and the store that follows it.
Claim(m) ==
  /\ ~Claimed /\ gen < MaxPlugs
  /\ pc \notin {"identify", "store"}
  /\ gen' = gen + 1 /\ model' = m /\ reply' = NoReply
  /\ UNCHANGED <<late, cacheVars, pc, pending_setup, buffer, torn>>

\* (mutant) disconnect() leaves the cache to the identity check.
DisconnectKeepsCache ==
  /\ Claimed
  /\ model' = NoModel /\ late' = FALSE
  /\ torn' = (torn \/ pc \in {"identify", "store"})
  /\ reply' = NoReply /\ pc' = IF pc = "fetch" THEN "lost" ELSE pc
  /\ UNCHANGED <<gen, cacheVars, pending_setup, buffer>>

\* disconnect(), at any moment; every transfer to the mouse is freed with its pipe.
Disconnect ==
  /\ Claimed
  /\ model' = NoModel /\ late' = FALSE
  /\ Invalidate
  /\ torn' = (torn \/ pc \in {"identify", "store"})
  /\ reply' = NoReply /\ pc' = IF pc = "fetch" THEN "lost" ELSE pc
  /\ UNCHANGED <<gen, pending_setup, buffer>>

-----------------------------------------------------------------------------
(***************************************************************************)
(* The polling thread.                                                     *)
(***************************************************************************)
LeastOf(a, b) == IF a < b THEN a ELSE b
Reply(d, r, hit) == reply' = [desc |-> [d EXCEPT !.len = LeastOf(@, r.want)], req |-> r, hit |-> hit]

Mismatch == identity.valid /\ identity.model # model

\* A GET_DESCRIPTOR the cache answers.
ServeHit(r) ==
  /\ pc = "idle" /\ Claimed /\ reply = NoReply
  /\ ~Mismatch /\ Lookup(r) # NoDesc
  /\ Reply(Lookup(r), r, TRUE)
  /\ UNCHANGED <<gen, model, late, cacheVars, pc, pending_setup, buffer, torn>>

\* One it does not: tryServeCachedDescriptor() drops the descriptors of another
\* mouse, and the request is forwarded.
ForwardMiss(r) ==
  /\ pc = "idle" /\ Claimed /\ reply = NoReply
  /\ \/ Mismatch /\ Invalidate
     \/ ~Mismatch /\ Lookup(r) = NoDesc /\ UNCHANGED cacheVars
  /\ pc' = "fetch" /\ pending_setup' = r
  /\ UNCHANGED <<gen, model, late, buffer, reply, torn>>

\* The length of the own transfer is the one that was asked for
\* (queue_Control_Transfer() sets status->length from wLength and nothing updates
\* it); only a string is trimmed to the length its first byte gives.
FetchedLength(r) == IF r.type = "string" THEN LeastOf(r.want, Whole) ELSE r.want

\* What an earlier transfer leaves in the buffer: its own data, as much of it as
\* it and this request asked for; what is taken for a string is cut at whatever
\* its first byte says.
LateLengths(r) == {1, r.want} \cup IF r.type = "string" THEN {0} ELSE {}

\* What controlTransfer() returns with: this request's descriptor or, when an
\* earlier transfer is still open, what that one asked for.
Received(r) ==
  {[gen |-> gen, type |-> r.type, index |-> r.index, len |-> FetchedLength(r)]}
    \cup {[gen |-> gen, type |-> "other", index |-> 0, len |-> n] :
            n \in IF late THEN LateLengths(r) ELSE {}}

\* controlTransfer() succeeds.  When an earlier transfer completed it, this
\* request's own is now the open one.
Fetched ==
  /\ pc = "fetch" /\ Claimed
  /\ \E d \in Received(pending_setup) : buffer' = d
  /\ late' \in {late, FALSE}
  /\ pc' = "identify"
  /\ UNCHANGED <<gen, model, cacheVars, pending_setup, reply, torn>>

\* It fails: the mouse stalled, or was unplugged, or did not answer within the
\* 500 ms, after which the transfer stays open.
FetchFailed ==
  /\ pc \in {"fetch", "lost"} /\ pc' = "idle" /\ pending_setup' = NoRequest
  /\ late' \in {late, pc = "fetch"}
  /\ UNCHANGED <<gen, model, cacheVars, buffer, reply, torn>>

\* A request that is no GET_DESCRIPTOR of these is given up.
OtherGivenUp ==
  /\ pc = "idle" /\ Claimed /\ late' = TRUE
  /\ UNCHANGED <<gen, model, cacheVars, pc, pending_setup, buffer, reply, torn>>

\* What was given up completes, or is dropped, while nobody waits for a transfer.
LateEnds ==
  /\ late /\ pc # "fetch" /\ late' = FALSE
  /\ UNCHANGED <<gen, model, cacheVars, pc, pending_setup, buffer, reply, torn>>

\* storeDescriptorInCache(), first half: remember whose descriptors these are.
Identify ==
  /\ pc = "identify" /\ pc' = "store"
  /\ identity' = IF identity.valid \/ buffer.len = 0 THEN identity
                 ELSE [valid |-> TRUE, model |-> model]
  /\ UNCHANGED <<gen, model, late, device_desc, config_desc, bos_desc, string_descs,
                 pending_setup, buffer, reply, torn>>

\* (mutant) A configuration or BOS descriptor is cached from a probe as well.
CacheableAny(d, type, whole) == d.len > 0 /\ (type = "device" => d.len <= Whole)

\* (mutant) What has no length is cached.
CacheableEmpty(d, type, whole) ==
  /\ type \in {"config", "bos"} => whole
  /\ type = "device" => d.len <= Whole

\* What goes into the cache as a descriptor of this type: a configuration or BOS
\* descriptor when it is whole, a device descriptor when it is no longer than one.
Cacheable(d, type, whole) ==
  /\ d.len > 0
  /\ type \in {"config", "bos"} => whole
  /\ type = "device" => d.len <= Whole

\* Its second half, and the reply.  Other data may look whole or not: its third
\* and fourth bytes are taken for the total length.
Store ==
  /\ pc = "store" /\ pc' = "idle"
  /\ \E whole \in IF buffer.type = pending_setup.type THEN {buffer.len >= Whole} ELSE BOOLEAN :
       LET Goes(type) == type = pending_setup.type /\ Cacheable(buffer, type, whole)
       IN /\ device_desc' = IF Goes("device") THEN buffer ELSE device_desc
          /\ config_desc' = IF Goes("config") THEN buffer ELSE config_desc
          /\ bos_desc' = IF Goes("bos") THEN buffer ELSE bos_desc
          /\ IF Goes("string") THEN StoreString(pending_setup.index, buffer)
             ELSE UNCHANGED string_descs
  /\ Reply(buffer, pending_setup, FALSE)
  /\ pending_setup' = NoRequest /\ buffer' = NoDesc
  /\ UNCHANGED <<gen, model, late, identity, torn>>

\* The PC has its answer.
Answered ==
  /\ reply # NoReply /\ reply' = NoReply
  /\ UNCHANGED <<gen, model, late, cacheVars, pc, pending_setup, buffer, torn>>

\* handleUSBReset(): keep the cache only if it is known to be this mouse's.
BusReset ==
  /\ pc = "idle" /\ reply = NoReply
  /\ IF identity.valid /\ identity.model = model THEN UNCHANGED cacheVars ELSE Invalidate
  /\ UNCHANGED <<gen, model, late, pc, pending_setup, buffer, reply, torn>>

-----------------------------------------------------------------------------
Interrupt == (\E m \in Models : Claim(m)) \/ Disconnect
Mouse == LateEnds
Serve == (\E r \in Requests : ServeHit(r) \/ ForwardMiss(r))
         \/ Fetched \/ FetchFailed \/ OtherGivenUp \/ Identify \/ Store \/ Answered \/ BusReset
Next == Interrupt \/ Mouse \/ Serve

Spec == Init /\ [][Next]_vars

-----------------------------------------------------------------------------
(***************************************************************************)
(* Properties.                                                             *)
(***************************************************************************)
Entries == {device_desc, config_desc, bos_desc} \cup {string_descs[i].desc : i \in 1..StringSlots}

\* The cache never holds a descriptor of an earlier mouse, whatever was
\* unplugged during a fetch, unless a disconnect hit storeDescriptorInCache().
StaleOnlyIfTorn ==
  ~torn => \A d \in Entries \ {NoDesc} : Claimed /\ d.gen = gen

\* A cached configuration or BOS descriptor is whole: a probe of its header
\* never answers the full request that follows.  The data of another transfer is
\* excepted, here and below: it is cached as what was asked for.
WholeConfigServed ==
  reply.hit /\ reply.desc.type # "other" /\ reply.req.type \in {"config", "bos"}
    => reply.desc.len >= LeastOf(reply.req.want, Whole)

\* What is served under a key is the descriptor that key names: no slot has the
\* content of one string under the key of another, also when more strings were
\* fetched than there are slots.  Configurations are excepted: their index is not
\* looked at.
HitIsTheOneAsked ==
  reply.hit /\ reply.desc.type # "other"
    => /\ reply.desc.type = reply.req.type
       /\ reply.req.type # "config" => reply.desc.index = reply.req.index

\* usb-proxy-dev-guide.md line 411: only full-length responses are cached, so
\* no descriptor is served truncated.
ServedInFull == reply.hit => reply.desc.len >= LeastOf(reply.req.want, Whole)
=============================================================================
