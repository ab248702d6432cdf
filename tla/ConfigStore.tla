----------------------------- MODULE ConfigStore -----------------------------
(***************************************************************************)
(* The persistent settings, SunBoxEEPROM, over the EEPROM of the core: the *)
(* claim correction, which forces an interface and an endpoint on a model  *)
(* of mouse, and the debug mode.  A record is a magic number and fields,   *)
(* without a checksum, and is written by EEPROM.put(), byte by byte in the *)
(* order of the addresses.                                                 *)
(*                                                                         *)
(* The power may fail between any two steps, and the mouse may be claimed  *)
(* between any two, in the USB host interrupt, which reads the record as   *)
(* it is then.  A field is modelled as one byte, and a magic number as one *)
(* that is right or not.                                                   *)
(***************************************************************************)
EXTENDS FlashEEPROM

CONSTANTS Models,      \* models of mouse, VID and PID
          Interfaces,  \* interface numbers, the same for every model
          Endpoints,
          Valid, Zero, \* magic numbers
          On, Off,     \* values of debugEnabled
          Junk,        \* what else an uninitialised byte may hold
          None,        \* no claim correction
          MaxCommands, \* commands that write
          MaxCrashes   \* power losses

Marks == {Valid, Zero, On, Off, Junk, Erased}

ASSUME StoreAssumption ==
  /\ MaxCommands \in Nat /\ MaxCrashes \in Nat
  /\ Models \cup Interfaces \cup Endpoints \cup Marks \subseteq Values
  /\ Marks \cap (Models \cup Interfaces \cup Endpoints) = {}
  /\ Valid \notin {Zero, Junk, Erased} /\ On # Off /\ {On, Off} \cap {Junk, Erased} = {}
  /\ None \notin [model : Models, interface : Interfaces, endpoint : Endpoints]

\* The addresses of the fields of ClaimConfig and DebugConfig.
magic == 0
vid == 4
interface_num == 8
endpoint_addr == 9
debug_magic == 12
debug_flag == 16

ClaimAt == {magic, vid, interface_num, endpoint_addr}
DebugAt == {debug_magic, debug_flag}

\* Neighbouring groups of four bytes lie in different sectors, and so do the records.
ASSUME FieldsAssumption ==
  /\ ClaimAt \cup DebugAt \subseteq Addresses
  /\ \A a \in ClaimAt, d \in DebugAt : Sector(a) # Sector(d)

ClaimConfig == [model : Models, interface : Interfaces, endpoint : Endpoints]

VARIABLES
  todo,         \* the bytes that put() has still to write: [at, value]
  command,      \* what the loop executes: "none", "save", "clear" or "toggle"
  debugEnabled, \* in RAM, of SunBoxStartup
  commands, crashes,
  claimWanted,  \* history: what the last save or clear asked for
  claimBroken,  \* history: the power failed in a save or clear, none completed since
  debugWanted,  \* history: the debug mode the last toggle answered
  debugBroken   \* history: the power failed where a toggle is exposed

historyVars == <<claimWanted, claimBroken, debugWanted, debugBroken>>
vars == <<flashVars, todo, command, debugEnabled, commands, crashes, historyVars>>

TypeOK ==
  /\ FlashTypeOK
  /\ todo \in Seq([at : Addresses, value : Values])
  /\ command \in {"none", "save", "clear", "toggle"} /\ (command = "none" => todo = << >>)
  /\ debugEnabled \in BOOLEAN
  /\ commands \in 0..MaxCommands /\ crashes \in 0..MaxCrashes
  /\ claimWanted \in ClaimConfig \cup {None} /\ claimBroken \in BOOLEAN
  /\ debugWanted \in BOOLEAN /\ debugBroken \in BOOLEAN

Init ==
  /\ FlashInit
  /\ todo = << >> /\ command = "none" /\ debugEnabled = FALSE
  /\ commands = 0 /\ crashes = 0
  /\ claimWanted = None /\ claimBroken = FALSE
  /\ debugWanted = FALSE /\ debugBroken = FALSE

-----------------------------------------------------------------------------
\* What loadDebugMode() may answer: a flag that is neither 0 nor 1 reads as either.
Flag(byte) == IF byte \in {On, Off} THEN {byte = On} ELSE BOOLEAN
DebugMode(mark, flag) == IF mark = Valid THEN Flag(flag) ELSE {FALSE}
loadDebugMode == DebugMode(eeprom_read_byte(debug_magic), eeprom_read_byte(debug_flag))

Bytes(at, values) == [i \in 1..Len(at) |-> [at |-> at[i], value |-> values[i]]]
ClaimFields == <<magic, vid, interface_num, endpoint_addr>>

Begin(what, bytes) ==
  /\ command = "none" /\ stage = "idle" /\ commands < MaxCommands
  /\ command' = what /\ todo' = bytes /\ commands' = commands + 1
  /\ UNCHANGED <<flashVars, debugEnabled, crashes, claimBroken, debugBroken>>

SaveClaimConfig ==
  \E config \in ClaimConfig :
    /\ Begin("save", Bytes(ClaimFields,
                           <<Valid, config.model, config.interface, config.endpoint>>))
    /\ claimWanted' = config /\ UNCHANGED debugWanted

\* The magic number is 0, the other fields are not initialised.
ClearClaimConfig ==
  \E m \in Models \cup {Junk} : \E i \in Interfaces \cup {Junk} : \E e \in Endpoints \cup {Junk} :
    /\ Begin("clear", Bytes(ClaimFields, <<Zero, m, i, e>>))
    /\ claimWanted' = None /\ UNCHANGED debugWanted

ToggleDebugMode ==
  \E enabled \in loadDebugMode :
    /\ Begin("toggle", Bytes(<<debug_magic, debug_flag>>,
                             <<Valid, IF enabled THEN Off ELSE On>>))
    /\ debugWanted' = ~enabled /\ UNCHANGED claimWanted

\* One step of the loop of eeprom_write_block().
PutByte ==
  /\ todo # << >> /\ stage = "idle"
  /\ eeprom_write_byte(Head(todo).at, Head(todo).value)
  /\ todo' = Tail(todo)
  /\ UNCHANGED <<command, debugEnabled, commands, crashes, historyVars>>

\* put() returns.  A toggle then sets the mode in RAM.
Done ==
  /\ command # "none" /\ todo = << >> /\ stage = "idle"
  /\ command' = "none"
  /\ debugEnabled' = IF command = "toggle" THEN debugWanted ELSE debugEnabled
  /\ claimBroken' = (claimBroken /\ command = "toggle")
  /\ debugBroken' = (debugBroken /\ command # "toggle")
  /\ UNCHANGED <<flashVars, todo, commands, crashes, claimWanted, debugWanted>>

StepFlash ==
  /\ CountWord \/ RewriteWord \/ RewriteDone
  /\ UNCHANGED <<todo, command, debugEnabled, commands, crashes, historyVars>>

-----------------------------------------------------------------------------
Stored(a) == Contents[a]

\* A toggle is exposed while it rewrites a sector, and, the first time, between
\* the magic number and the flag.
Exposed == Frail # {} \/ (Stored(debug_magic) = Valid /\ Stored(debug_flag) \notin {On, Off})

PowerLoss ==
  /\ stage # "off" /\ crashes < MaxCrashes
  /\ LosePower
  /\ todo' = << >> /\ command' = "none" /\ crashes' = crashes + 1
  /\ claimBroken' = (claimBroken \/ command \in {"save", "clear"})
  /\ debugBroken' = (debugBroken \/ (command = "toggle" /\ Exposed))
  /\ debugWanted' = IF command = "toggle" /\ ~Exposed
                    THEN CHOOSE enabled \in DebugMode(Stored(debug_magic), Stored(debug_flag)) : TRUE
                    ELSE debugWanted
  /\ UNCHANGED <<debugEnabled, commands, claimWanted>>

\* (mutant) The debug mode starts as off, whatever the EEPROM says.
BootWithoutLoad ==
  /\ eeprom_initialize
  /\ debugEnabled' = FALSE
  /\ UNCHANGED <<todo, command, commands, crashes, historyVars>>

\* The constructor of EEPROM, then SunBoxStartup::begin().
Boot ==
  /\ eeprom_initialize
  /\ debugEnabled' \in DebugMode(Stored(debug_magic), Stored(debug_flag))
  /\ UNCHANGED <<todo, command, commands, crashes, historyVars>>

Next ==
  \/ SaveClaimConfig \/ ClearClaimConfig \/ ToggleDebugMode \/ PutByte \/ Done \/ StepFlash
  \/ PowerLoss \/ Boot

Spec == Init /\ [][Next]_vars

-----------------------------------------------------------------------------
\* What USBHostDriver::claim() would choose now for a mouse of model m.
Selected(m) ==
  IF /\ eeprom_read_byte(magic) = Valid /\ eeprom_read_byte(vid) = m
     /\ eeprom_read_byte(interface_num) \in Interfaces
  THEN <<eeprom_read_byte(interface_num), eeprom_read_byte(endpoint_addr)>>
  ELSE <<"automatic", "automatic">>

\* A claim correction survives restarts, however often the sectors have been
\* rewritten and wherever else the power has failed: unless it failed in a save
\* or a clear with none completed since, a mouse that is claimed between two
\* commands gets what the last one asked for, and the others are left alone.
ClaimFollowsConfig ==
  stage # "off" /\ command = "none" /\ ~claimBroken =>
    \A m \in Models :
      Selected(m) = IF claimWanted # None /\ claimWanted.model = m
                    THEN <<claimWanted.interface, claimWanted.endpoint>>
                    ELSE <<"automatic", "automatic">>

\* The debug mode in RAM, the one in the EEPROM and the one last answered agree
\* between two commands, also after a power loss in any other command, and in a
\* toggle, unless that was rewriting a sector or was the first one ever.
DebugModeAgrees ==
  stage # "off" /\ command # "toggle" /\ ~debugBroken =>
    debugEnabled = debugWanted /\ loadDebugMode = {debugWanted}

\* The log of words implements a store of bytes that a power loss harms only in
\* the sector that is being written anew, and there only the bytes not yet done.
Bytewise == INSTANCE ByteStore WITH bytes <- Contents, frail <- Frail
ImplementsByteStore == Bytewise!Spec
=============================================================================
