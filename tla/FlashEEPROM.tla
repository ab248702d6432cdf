----------------------------- MODULE FlashEEPROM -----------------------------
(***************************************************************************)
(* The EEPROM of the Teensy 4 core: bytes kept in flash sectors, each a    *)
(* log of words.  A word names a byte by its offset and gives its value;   *)
(* the last one counts.  A full sector is erased and written anew from a   *)
(* buffer in RAM, word by word.                                            *)
(*                                                                         *)
(* Programming a word and erasing a sector are single steps, with the      *)
(* interrupts off; between them the interrupts are on and the power may    *)
(* fail.  This module has no specification of its own: a client gives the  *)
(* addresses it writes.                                                    *)
(***************************************************************************)
EXTENDS Naturals, Sequences, FiniteSets

CONSTANTS Addresses,     \* the addresses the client uses
          Values,        \* of a byte
          Erased,        \* 0xFF, a byte never written
          FLASH_SECTORS, \* 63 in the Teensy 4.1
          SectorWords    \* words of a sector: 2048

ASSUME FlashAssumption ==
  /\ Addresses \subseteq Nat
  /\ FLASH_SECTORS \in Nat \ {0} /\ SectorWords \in Nat \ {0}
  /\ Erased \in Values

VARIABLES
  flash,         \* the words in each sector, erased ones left out
  sector_index,  \* in RAM: the words counted in each sector
  stage,         \* eeprom_write_byte(): "idle", "count", "rewrite", or "off"
  where,         \* the address it writes
  buffer,        \* in RAM: the bytes of the sector being written anew
  left           \* the addresses of them that are still to be written

flashVars == <<flash, sector_index, stage, where, buffer, left>>

Sectors == 0..(FLASH_SECTORS - 1)
Sector(a) == (a \div 4) % FLASH_SECTORS
Offset(a) == (a % 4) + 4 * ((a \div 4) \div FLASH_SECTORS)
Word == [offset : Nat, value : Values]

\* The value that the first k words of a sector's log give to an offset.
Lookup(log, k, offset) ==
  LET mine == {i \in 1..k : i <= Len(log) /\ log[i].offset = offset}
  IN IF mine = {} THEN Erased
     ELSE log[CHOOSE i \in mine : \A j \in mine : j <= i].value

eeprom_read_byte(a) ==
  LET s == Sector(a) IN Lookup(flash[s], sector_index[s], Offset(a))

InSector(s) == {a \in Addresses : Sector(a) = s}

\* A sector has room for all its bytes: 2048 words for 68 bytes.
ASSUME SectorAssumption ==
  \A s \in Sectors : IsFiniteSet(InSector(s)) /\ Cardinality(InSector(s)) <= SectorWords

InFlash(s, log) == [a \in InSector(s) |-> Lookup(log, Len(log), Offset(a))]

FlashInit ==
  /\ flash = [s \in Sectors |-> << >>]
  /\ sector_index = [s \in Sectors |-> 0]
  /\ stage = "idle" /\ where = 0
  /\ buffer = << >> /\ left = {}

FlashTypeOK ==
  /\ flash \in [Sectors -> Seq(Word)] /\ \A s \in Sectors : Len(flash[s]) <= SectorWords
  /\ sector_index \in [Sectors -> 0..SectorWords]
  /\ stage \in {"idle", "count", "rewrite", "off"}
  /\ where \in Nat
  /\ left \in SUBSET Addresses

\* A value that is already there is not written.
WriteNothing(a, v) == eeprom_read_byte(a) = v /\ UNCHANGED flashVars

\* (mutant) A word more than the sector holds.
WriteBeyond(a, v) ==
  LET s == Sector(a)
  IN /\ eeprom_read_byte(a) # v /\ sector_index[s] <= SectorWords
     /\ flash' = [flash EXCEPT ![s] = Append(@, [offset |-> Offset(a), value |-> v])]
     /\ stage' = "count" /\ where' = a
     /\ UNCHANGED <<sector_index, buffer, left>>

WriteWord(a, v) ==
  LET s == Sector(a)
  IN /\ eeprom_read_byte(a) # v /\ sector_index[s] < SectorWords
     /\ flash' = [flash EXCEPT ![s] = Append(@, [offset |-> Offset(a), value |-> v])]
     /\ stage' = "count" /\ where' = a
     /\ UNCHANGED <<sector_index, buffer, left>>

\* (mutant) The buffer is filled before the new value is known, and keeps the old one.
EraseForgets(a, v) ==
  LET s == Sector(a)
      kept == InFlash(s, flash[s])
  IN /\ eeprom_read_byte(a) # v /\ sector_index[s] = SectorWords
     /\ flash' = [flash EXCEPT ![s] = << >>]
     /\ buffer' = kept
     /\ left' = {b \in InSector(s) : kept[b] # Erased}
     /\ stage' = "rewrite" /\ where' = a
     /\ UNCHANGED sector_index

\* (mutant) The other bytes of the sector are not copied to the buffer.
EraseLosesOthers(a, v) ==
  LET s == Sector(a)
  IN /\ eeprom_read_byte(a) # v /\ sector_index[s] = SectorWords
     /\ flash' = [flash EXCEPT ![s] = << >>]
     /\ buffer' = [b \in InSector(s) |-> IF b = a THEN v ELSE Erased]
     /\ left' = {a}
     /\ stage' = "rewrite" /\ where' = a
     /\ UNCHANGED sector_index

EraseSector(a, v) ==
  LET s == Sector(a)
      kept == [InFlash(s, flash[s]) EXCEPT ![a] = v]
  IN /\ eeprom_read_byte(a) # v /\ sector_index[s] = SectorWords
     /\ flash' = [flash EXCEPT ![s] = << >>]
     /\ buffer' = kept
     /\ left' = {b \in InSector(s) : kept[b] # Erased}
     /\ stage' = "rewrite" /\ where' = a
     /\ UNCHANGED sector_index

eeprom_write_byte(a, v) == WriteNothing(a, v) \/ WriteWord(a, v) \/ EraseSector(a, v)

\* The word is in the flash; now it is counted.
CountWord ==
  /\ stage = "count" /\ stage' = "idle"
  /\ sector_index' = [sector_index EXCEPT ![Sector(where)] = @ + 1]
  /\ UNCHANGED <<flash, where, buffer, left>>

\* In the order of the offsets.
RewriteWord ==
  /\ stage = "rewrite"
  /\ \E b \in left :
       /\ \A c \in left : Offset(b) <= Offset(c)
       /\ flash' = [flash EXCEPT ![Sector(where)] =
                      Append(@, [offset |-> Offset(b), value |-> buffer[b]])]
       /\ left' = left \ {b}
  /\ UNCHANGED <<sector_index, stage, where, buffer>>

RewriteDone ==
  /\ stage = "rewrite" /\ left = {} /\ stage' = "idle"
  /\ sector_index' = [sector_index EXCEPT ![Sector(where)] = Len(flash[Sector(where)])]
  /\ buffer' = << >>
  /\ UNCHANGED <<flash, where, left>>

LosePower == stage' = "off" /\ left' = {} /\ buffer' = << >> /\ UNCHANGED <<flash, sector_index, where>>

\* eeprom_initialize() counts the words of every sector.
eeprom_initialize ==
  /\ stage = "off" /\ stage' = "idle"
  /\ sector_index' = [s \in Sectors |-> Len(flash[s])]
  /\ UNCHANGED <<flash, where, buffer, left>>

\* The bytes as the library's caller may think of them.
Contents ==
  [a \in Addresses |-> IF stage = "rewrite" /\ Sector(a) = Sector(where) THEN buffer[a]
                       ELSE Lookup(flash[Sector(a)], Len(flash[Sector(a)]), Offset(a))]
Frail == IF stage = "rewrite" THEN left ELSE {}
=============================================================================
