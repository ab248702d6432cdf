-------------------------- MODULE ConfigStoreProofs --------------------------
(***************************************************************************)
(* Proofs about ConfigStore, for any sectors, addresses, values, commands  *)
(* and power losses: the log of words is a store of bytes, and what the    *)
(* two records promise follows from that.                                  *)
(***************************************************************************)
EXTENDS ConfigStore, FiniteSetTheorems, SequenceTheorems, WellFoundedInduction, TLAPS

\* A byte has a place in the flash.
LEMMA PlaceFacts ==
  ASSUME NEW a \in Nat
  PROVE  Sector(a) \in Sectors /\ Offset(a) \in Nat
  BY FlashAssumption DEF Sector, Sectors, Offset

\* And it has that place alone.
LEMMA PlaceIsUnique ==
  ASSUME NEW a \in Nat, NEW b \in Nat, Sector(a) = Sector(b), Offset(a) = Offset(b)
  PROVE  a = b
<1> USE FlashAssumption
<1> DEFINE q == a \div 4
           r == b \div 4
           qd == q \div FLASH_SECTORS
           rd == r \div FLASH_SECTORS
<1>1. /\ a % 4 \in 0..3 /\ a = 4 * q + (a % 4) /\ q \in Nat
      /\ b % 4 \in 0..3 /\ b = 4 * r + (b % 4) /\ r \in Nat
  BY SMT
<1>2. qd \in Nat /\ rd \in Nat
  BY SMT
<1>3. (a % 4) + 4 * qd = (b % 4) + 4 * rd
  BY DEF Offset
<1>4. a % 4 = b % 4 /\ qd = rd
  <2> HIDE DEF qd, rd
  <2> QED
    BY <1>1, <1>2, <1>3
<1>5. q % FLASH_SECTORS = r % FLASH_SECTORS
  BY DEF Sector
<1>6. \A x \in Nat : x = FLASH_SECTORS * (x \div FLASH_SECTORS) + (x % FLASH_SECTORS)
  BY SMT
<1>7. q = r
  BY <1>1, <1>4, <1>5, <1>6
<1> QED
  BY <1>1, <1>4, <1>7

\* A set of natural numbers has a least element, and up to a bound a greatest.
LEMMA GreatestExists ==
  ASSUME NEW k \in Nat, NEW T \in SUBSET (1..k), T # {}
  PROVE  \E i \in T : \A j \in T : j <= i
<1> DEFINE R == OpToRel(<, Nat)
           U == {n \in Nat : k - n \in T}
<1>1. IsWellFoundedOn(R, Nat)
  BY NatLessThanWellFounded
<1>2. ASSUME NEW x \in Nat, NEW y \in Nat, x < y PROVE <<x, y>> \in R
  BY <1>2 DEF OpToRel
<1>3. U # {} /\ U \subseteq Nat
  <2>1. PICK i \in T : TRUE
    OBVIOUS
  <2>2. k - i \in Nat /\ k - (k - i) = i
    BY <2>1
  <2> QED
    BY <2>1, <2>2
<1> HIDE DEF R
<1>4. \E n \in U : \A m \in U : ~ (<<m, n>> \in R)
  <2> HIDE DEF U
  <2> QED
    BY <1>1, <1>3, WFMin
<1>5. PICK n \in U : \A m \in U : ~ (<<m, n>> \in R)
  BY <1>4
<1>6. ASSUME NEW j \in T PROVE j <= k - n
  <2>1. k - j \in Nat /\ k - (k - j) = j
    OBVIOUS
  <2>2. k - j \in U
    BY <2>1
  <2>3. ~(k - j < n)
    BY <1>2, <1>5, <2>2
  <2> QED
    BY <2>1, <2>3, <1>5
<1> QED
  BY <1>5, <1>6

-----------------------------------------------------------------------------
\* An erased sector reads as erased bytes.
LEMMA LookupEmpty ==
  ASSUME NEW o
  PROVE  Lookup(<< >>, Len(<< >>), o) = Erased
  BY DEF Lookup

\* A log has values for all offsets.
LEMMA LookupType ==
  ASSUME NEW log \in Seq(Word), NEW k \in Nat, NEW o
  PROVE  Lookup(log, k, o) \in Values
<1> DEFINE mine == {i \in 1..k : i <= Len(log) /\ log[i].offset = o}
           last(i) == \A j \in mine : j <= i
<1>1. CASE mine = {}
  BY <1>1, FlashAssumption DEF Lookup
<1>2. CASE mine # {}
  <2>1. \E i \in mine : last(i)
    BY <1>2, GreatestExists
  <2>2. PICK i \in mine : i = (CHOOSE c \in mine : last(c))
    BY <2>1, Zenon
  <2>3. Lookup(log, k, o) = log[i].value
    BY <1>2, <2>2 DEF Lookup
  <2>4. i \in 1..Len(log)
    BY LenProperties
  <2>5. log[i] \in Word
    BY <2>4, ElementOfSeq
  <2> QED
    BY <2>3, <2>5 DEF Word
<1> QED
  BY <1>1, <1>2

\* One more word gives its offset a new value and changes no other.
LEMMA LookupAppend ==
  ASSUME NEW log \in Seq(Word), NEW w \in Word, NEW o
  PROVE  Lookup(Append(log, w), Len(Append(log, w)), o) =
           IF w.offset = o THEN w.value ELSE Lookup(log, Len(log), o)
<1> DEFINE n == Len(log)
           more == Append(log, w)
           mine == {i \in 1..n : i <= Len(log) /\ log[i].offset = o}
           then == {i \in 1..Len(more) : i <= Len(more) /\ more[i].offset = o}
<1>1. n \in Nat /\ Len(more) = n + 1 /\ more[n + 1] = w /\ \A i \in 1..n : more[i] = log[i]
  BY LenProperties
<1>2. CASE w.offset = o
  <2>1. n + 1 \in then /\ \A j \in then : j <= n + 1
    BY <1>1, <1>2
  <2>2. (CHOOSE i \in then : \A j \in then : j <= i) = n + 1
    <3>1. \A i \in then : (\A j \in then : j <= i) => i = n + 1
      BY <1>1, <2>1
    <3> HIDE DEF then
    <3> QED
      BY <2>1, <3>1
  <2> QED
    BY <1>1, <1>2, <2>1, <2>2 DEF Lookup
<1>3. CASE w.offset # o
  <2>1. then = mine
    BY <1>1, <1>3
  <2>2. CASE mine = {}
    BY <1>3, <2>1, <2>2 DEF Lookup
  <2>3. CASE mine # {}
    <3>1. \E i \in mine : \A j \in mine : j <= i
      BY <1>1, <2>3, GreatestExists
    <3>2. PICK i \in mine : i = (CHOOSE c \in mine : \A j \in mine : j <= c)
      BY <3>1, Zenon
    <3>3. Lookup(log, Len(log), o) = log[i].value
      BY <2>3, <3>2 DEF Lookup
    <3>4. Lookup(more, Len(more), o) = more[i].value
      BY <2>1, <2>3, <3>2 DEF Lookup
    <3> QED
      BY <1>1, <1>3, <3>2, <3>3, <3>4
  <2> QED
    BY <2>2, <2>3
<1> QED
  BY <1>2, <1>3

-----------------------------------------------------------------------------
\* The RAM copy of a sector's length is right, but for the sector being written.
IndexInv ==
  stage # "off" =>
    \A s \in Sectors :
      IF stage \in {"count", "rewrite"} /\ s = Sector(where)
      THEN stage = "count" => Len(flash[s]) = sector_index[s] + 1
      ELSE sector_index[s] = Len(flash[s])

\* A sector that is written anew already holds the bytes that are done, reads as
\* erased where they are not, and has room for them.
RewriteInv ==
  stage = "rewrite" =>
    /\ buffer \in [InSector(Sector(where)) -> Values]
    /\ left \in SUBSET InSector(Sector(where))
    /\ \A b \in InSector(Sector(where)) :
         InFlash(Sector(where), flash[Sector(where)])[b] = IF b \in left THEN Erased ELSE buffer[b]
    /\ Len(flash[Sector(where)]) + Cardinality(left) <= SectorWords

FlashInv == FlashTypeOK /\ IndexInv /\ RewriteInv /\ (stage \in {"count", "rewrite"} => where \in Addresses)

\* What the log of a byte's sector says of it.
Latest == [a \in Addresses |-> InFlash(Sector(a), flash[Sector(a)])[a]]

LEMMA AddressFacts ==
  ASSUME NEW a \in Addresses
  PROVE  /\ a \in Nat /\ Sector(a) \in Sectors /\ Offset(a) \in Nat
         /\ a \in InSector(Sector(a))
         /\ Latest[a] = Lookup(flash[Sector(a)], Len(flash[Sector(a)]), Offset(a))
         /\ \A b \in Addresses : Sector(a) = Sector(b) /\ Offset(a) = Offset(b) => a = b
<1>1. a \in Nat /\ Addresses \subseteq Nat
  BY FlashAssumption
<1> QED
  BY <1>1, PlaceFacts, PlaceIsUnique DEF Latest, InFlash, InSector

\* The bytes of a client are those in the flash, but while a sector is written anew.
Split == [a \in Addresses |-> IF stage = "rewrite" /\ Sector(a) = Sector(where)
                              THEN buffer[a] ELSE Latest[a]]

LEMMA ContentsFacts ==
  /\ Contents = Split
  /\ stage # "rewrite" => Contents = Latest /\ Frail = {}
<1>1. \A a \in Addresses :
        Latest[a] = Lookup(flash[Sector(a)], Len(flash[Sector(a)]), Offset(a))
  BY AddressFacts
<1>2. Latest = [a \in Addresses |-> Latest[a]]
  BY DEF Latest
<1> QED
  BY <1>1, <1>2 DEF Split, Contents, Frail

LEMMA ContentsType ==
  ASSUME FlashInv
  PROVE  Contents \in [Addresses -> Values] /\ Latest \in [Addresses -> Values]
         /\ Frail \in SUBSET Addresses
<1>1. Latest \in [Addresses -> Values]
  <2> SUFFICES ASSUME NEW a \in Addresses PROVE Latest[a] \in Values
    BY DEF Latest
  <2>1. flash[Sector(a)] \in Seq(Word)
    BY AddressFacts DEF FlashInv, FlashTypeOK
  <2>2. Len(flash[Sector(a)]) \in Nat
    BY <2>1, LenProperties
  <2> QED
    BY <2>1, <2>2, AddressFacts, LookupType
<1>2. ASSUME NEW a \in Addresses, stage = "rewrite", Sector(a) = Sector(where)
      PROVE  buffer[a] \in Values
  BY <1>2, AddressFacts DEF FlashInv, RewriteInv
<1> QED
  BY <1>1, <1>2, ContentsFacts DEF Split, Frail, FlashInv, FlashTypeOK

\* What the library reads is what is stored, outside the sector being written.
LEMMA ReadFacts ==
  ASSUME FlashInv, stage # "off", NEW a \in Addresses,
         stage \in {"count", "rewrite"} => Sector(a) # Sector(where)
  PROVE  eeprom_read_byte(a) = Contents[a]
<1>1. sector_index[Sector(a)] = Len(flash[Sector(a)])
  BY AddressFacts DEF FlashInv, IndexInv
<1>2. Contents[a] = Latest[a]
  BY ContentsFacts DEF Split
<1> QED
  BY <1>1, <1>2, AddressFacts DEF eeprom_read_byte

-----------------------------------------------------------------------------
\* A word appended to a sector changes the byte it names and no other.
LEMMA AppendFacts ==
  ASSUME FlashInv, NEW a \in Addresses, NEW v \in Values,
         Len(flash[Sector(a)]) < SectorWords,
         flash' = [flash EXCEPT ![Sector(a)] = Append(@, [offset |-> Offset(a), value |-> v])]
  PROVE  /\ flash' \in [Sectors -> Seq(Word)]
         /\ \A s \in Sectors : Len(flash'[s]) <= SectorWords
         /\ Len(flash'[Sector(a)]) = Len(flash[Sector(a)]) + 1
         /\ \A s \in Sectors : s # Sector(a) => flash'[s] = flash[s]
         /\ Latest' = [Latest EXCEPT ![a] = v]
<1> DEFINE w == [offset |-> Offset(a), value |-> v]
<1>1. w \in Word /\ w.offset = Offset(a) /\ w.value = v /\ flash[Sector(a)] \in Seq(Word)
  BY AddressFacts DEF Word, FlashInv, FlashTypeOK
<1>2. Append(flash[Sector(a)], w) \in Seq(Word)
      /\ Len(Append(flash[Sector(a)], w)) = Len(flash[Sector(a)]) + 1
  BY <1>1
<1>3. \A s \in Sectors : flash'[s] = IF s = Sector(a) THEN Append(flash[Sector(a)], w) ELSE flash[s]
  BY DEF FlashInv, FlashTypeOK
<1>4. flash' \in [Sectors -> Seq(Word)]
  BY <1>2, <1>3 DEF FlashInv, FlashTypeOK
<1>5. \A s \in Sectors : Len(flash[s]) \in Nat /\ Len(flash[s]) <= SectorWords
  BY LenProperties DEF FlashInv, FlashTypeOK
<1>6. ASSUME NEW s \in Sectors
      PROVE  Len(flash'[s]) <= SectorWords
  <2>1. CASE s = Sector(a)
    <3>1. Len(flash'[s]) = Len(flash[s]) + 1
      BY <2>1, <1>2, <1>3
    <3>2. Len(flash[s]) + 1 <= SectorWords
      BY <2>1, <1>5, FlashAssumption
    <3> QED
      BY <2>1, <3>1, <3>2
  <2>2. CASE s # Sector(a)
    BY <2>2, <1>3, <1>5
  <2> QED
    BY <2>1, <2>2
<1>7. ASSUME NEW b \in Addresses PROVE Latest'[b] = IF b = a THEN v ELSE Latest[b]
  <2>1. Latest'[b] = Lookup(flash'[Sector(b)], Len(flash'[Sector(b)]), Offset(b))
    BY AddressFacts DEF Latest, InFlash
  <2>2. CASE Sector(b) = Sector(a)
    <3>1. Latest'[b] = IF Offset(a) = Offset(b) THEN v
                       ELSE Lookup(flash[Sector(a)], Len(flash[Sector(a)]), Offset(b))
      <4>1. flash'[Sector(b)] = Append(flash[Sector(a)], w)
        BY <2>2, <1>3, AddressFacts
      <4>2. ASSUME NEW log \in Seq(Word), NEW o
            PROVE  Lookup(Append(log, w), Len(Append(log, w)), o)
                     = IF w.offset = o THEN w.value ELSE Lookup(log, Len(log), o)
        <5> HIDE DEF w
        <5> QED
          BY <1>1, LookupAppend
      <4>3. Lookup(flash'[Sector(b)], Len(flash'[Sector(b)]), Offset(b))
              = IF w.offset = Offset(b) THEN w.value
                ELSE Lookup(flash[Sector(a)], Len(flash[Sector(a)]), Offset(b))
        <5> HIDE DEF w
        <5> QED
          BY <4>1, <4>2, <1>1
      <4> QED
        BY <2>1, <4>3, <1>1
    <3> QED
      BY <3>1, <2>2, AddressFacts
  <2>3. CASE Sector(b) # Sector(a)
    BY <2>1, <2>3, <1>3, AddressFacts
  <2> QED
    BY <2>2, <2>3
<1>8. Latest' = [Latest EXCEPT ![a] = v]
  BY <1>7 DEF Latest
<1> QED
  BY <1>2, <1>3, <1>4, <1>6, <1>8, AddressFacts

LEMMA StartFacts ==
  ASSUME FlashInit
  PROVE  FlashInv /\ Contents = [a \in Addresses |-> Erased] /\ Frail = {}
<1>1. \A s \in Sectors : flash[s] = << >> /\ sector_index[s] = 0 /\ Len(flash[s]) = 0
  BY DEF FlashInit
<1>2. flash \in [Sectors -> Seq(Word)]
  BY <1>1 DEF FlashInit
<1>3. FlashInv
  BY <1>1, <1>2, FlashAssumption DEF FlashInit, FlashInv, FlashTypeOK, IndexInv, RewriteInv
<1>4. \A a \in Addresses : Latest[a] = Erased
  BY <1>1, AddressFacts, LookupEmpty
<1>5. Latest = [a \in Addresses |-> Erased]
  BY <1>4 DEF Latest
<1> QED
  BY <1>3, <1>5, ContentsFacts DEF FlashInit

\* eeprom_write_byte() gives one byte a value, whether or not it erases a sector,
\* and no byte is frail when it starts.
LEMMA WriteEffect ==
  ASSUME FlashInv, stage = "idle", NEW a \in Addresses, NEW v \in Values, eeprom_write_byte(a, v)
  PROVE  /\ FlashInv'
         /\ Contents' = [Contents EXCEPT ![a] = v]
         /\ Frail = {} /\ Frail' \in SUBSET Addresses
         /\ stage' = "idle" \/ (stage' \in {"count", "rewrite"} /\ where' = a)
<1> DEFINE s == Sector(a)
<1>1. Frail = {} /\ Contents = Latest /\ Contents \in [Addresses -> Values]
  BY ContentsFacts, ContentsType
<1>2. eeprom_read_byte(a) = Contents[a] /\ sector_index[s] = Len(flash[s]) /\ s \in Sectors
  BY ReadFacts, AddressFacts DEF FlashInv, IndexInv
<1>3. CASE WriteNothing(a, v)
  <2>1. UNCHANGED flashVars /\ Contents[a] = v
    BY <1>2, <1>3 DEF WriteNothing
  <2>2. FlashInv' /\ Contents' = Contents /\ Frail' = Frail /\ stage' = "idle"
    BY <2>1 DEF flashVars, FlashInv, FlashTypeOK, IndexInv, RewriteInv, InFlash, Contents, Frail
  <2> QED
    BY <2>1, <2>2, <1>1
<1>4. CASE WriteWord(a, v)
  <2>1. /\ Len(flash[s]) < SectorWords /\ stage' = "count" /\ where' = a
        /\ flash' = [flash EXCEPT ![s] = Append(@, [offset |-> Offset(a), value |-> v])]
        /\ UNCHANGED <<sector_index, buffer, left>>
    BY <1>2, <1>4 DEF WriteWord
  <2>2. /\ flash' \in [Sectors -> Seq(Word)]
        /\ \A t \in Sectors : Len(flash'[t]) <= SectorWords
        /\ Len(flash'[s]) = Len(flash[s]) + 1
        /\ \A t \in Sectors : t # s => flash'[t] = flash[t]
        /\ Latest' = [Latest EXCEPT ![a] = v]
    BY <2>1, AppendFacts
  <2>3. FlashTypeOK'
    BY <2>1, <2>2, AddressFacts DEF FlashInv, FlashTypeOK
  <2>4. IndexInv'
    <3>1. ASSUME NEW t \in Sectors, t = s PROVE Len(flash'[t]) = sector_index[t] + 1
      BY <2>2, <3>1, <1>2
    <3>2. ASSUME NEW t \in Sectors, t # s PROVE sector_index[t] = Len(flash'[t])
      BY <2>2, <3>2 DEF FlashInv, IndexInv
    <3> QED
      BY <2>1, <3>1, <3>2 DEF IndexInv
  <2>5. FlashInv'
    BY <2>1, <2>3, <2>4 DEF FlashInv, RewriteInv
  <2>6. Contents' = Latest' /\ Frail' = {}
    <3>1. (stage # "rewrite" => Contents = Latest /\ Frail = {})'
      BY ContentsFacts, PTL
    <3> QED
      BY <2>1, <3>1
  <2> QED
    BY <2>1, <2>2, <2>5, <2>6, <1>1
<1>5. CASE EraseSector(a, v)
  <2> DEFINE kept == [InFlash(s, flash[s]) EXCEPT ![a] = v]
  <2>1. /\ stage' = "rewrite" /\ where' = a /\ buffer' = kept /\ UNCHANGED sector_index
        /\ flash' = [flash EXCEPT ![s] = << >>]
        /\ left' = {b \in InSector(s) : kept[b] # Erased}
    BY <1>5 DEF EraseSector
  <2>2. \A b \in InSector(s) : b \in Addresses /\ InFlash(s, flash[s])[b] = Latest[b]
    BY DEF InSector, InFlash, Latest
  <2>3. kept \in [InSector(s) -> Values]
        /\ \A b \in InSector(s) : kept[b] = IF b = a THEN v ELSE Latest[b]
    BY <1>1, <2>2, AddressFacts DEF InFlash
  <2> HIDE DEF kept
  <2>4. flash'[s] = << >> /\ \A t \in Sectors : t # s => flash'[t] = flash[t]
    BY <2>1, <1>2 DEF FlashInv, FlashTypeOK
  <2>5. FlashTypeOK'
    <3>1. flash' \in [Sectors -> Seq(Word)]
      BY <2>1, <2>4, EmptySeq DEF FlashInv, FlashTypeOK
    <3>2. \A t \in Sectors : Len(flash'[t]) <= SectorWords
      BY <2>4, FlashAssumption DEF FlashInv, FlashTypeOK
    <3> QED
      BY <3>1, <3>2, <2>1, <2>2, AddressFacts DEF FlashInv, FlashTypeOK
  <2>6. IndexInv'
    BY <2>1, <2>4 DEF FlashInv, IndexInv
  <2>7. RewriteInv'
    <3>1. \A b \in InSector(s) : InFlash(s, flash'[s])[b] = Erased
      BY <2>4, LookupEmpty DEF InFlash
    <3>2. left' \in SUBSET InSector(s)
      BY <2>1
    <3>3. Len(flash'[s]) + Cardinality(left') <= SectorWords
      <4>1. IsFiniteSet(InSector(s)) /\ Cardinality(InSector(s)) <= SectorWords
        BY <1>2, SectorAssumption
      <4>2. Cardinality(left') <= Cardinality(InSector(s))
            /\ Cardinality(left') \in Nat /\ Cardinality(InSector(s)) \in Nat
        BY <4>1, <3>2, FS_Subset, FS_CardinalityType
      <4>3. Len(flash'[s]) = 0
        BY <2>4
      <4> QED
        BY <4>1, <4>2, <4>3, FlashAssumption
    <3>4. \A b \in InSector(s) : b \notin left' => kept[b] = Erased
      BY <2>1
    <3> QED
      BY <2>1, <2>3, <3>1, <3>2, <3>3, <3>4 DEF RewriteInv
  <2>8. FlashInv'
    BY <2>1, <2>5, <2>6, <2>7 DEF FlashInv
  <2>9. Contents' = [Contents EXCEPT ![a] = v]
    <3>1. Contents' = [b \in Addresses |-> IF Sector(b) = s THEN kept[b] ELSE Latest'[b]]
      <4>1. (Contents = Split)'
        BY ContentsFacts, PTL
      <4> QED
        BY <2>1, <4>1 DEF Split
    <3>2. ASSUME NEW b \in Addresses, Sector(b) # s PROVE Latest'[b] = Latest[b]
      BY <2>4, <3>2, AddressFacts DEF Latest, InFlash
    <3>3. \A b \in Addresses : Sector(b) = s => kept[b] = IF b = a THEN v ELSE Latest[b]
      BY <2>3 DEF InSector
    <3> QED
      BY <1>1, <3>1, <3>2, <3>3
  <2>10. Frail' \in SUBSET Addresses
    BY <2>1, <2>2 DEF Frail
  <2> QED
    BY <2>1, <2>8, <2>9, <2>10, <1>1
<1> QED
  BY <1>3, <1>4, <1>5 DEF eeprom_write_byte

\* What the library still does after a word changes no byte, and secures the frail ones.
LEMMA SettleEffect ==
  ASSUME FlashInv, CountWord \/ RewriteWord \/ RewriteDone
  PROVE  /\ FlashInv' /\ Contents' = Contents /\ Frail' \in SUBSET Frail
         /\ stage \in {"count", "rewrite"} /\ where' = where /\ stage' \in {stage, "idle"}
<1> DEFINE s == Sector(where)
<1>0. ASSUME stage \in {"count", "rewrite"} PROVE where \in Addresses /\ s \in Sectors
  BY <1>0, AddressFacts DEF FlashInv
<1>p. (Contents = Split)' /\ ((stage # "rewrite" => Contents = Latest /\ Frail = {})')
  BY ContentsFacts, PTL
<1>q. \A t \in Sectors : Len(flash[t]) \in Nat /\ Len(flash[t]) <= SectorWords
  BY LenProperties DEF FlashInv, FlashTypeOK
<1>r. \A t \in Sectors : Len(flash[t]) \in 0..SectorWords
  BY <1>q, FlashAssumption
<1>1. CASE CountWord
  <2>1. /\ stage = "count" /\ stage' = "idle" /\ UNCHANGED <<flash, where, buffer, left>>
        /\ sector_index' = [sector_index EXCEPT ![s] = @ + 1]
    BY <1>1 DEF CountWord
  <2>2. \A t \in Sectors : sector_index'[t] = Len(flash[t])
    BY <2>1, <1>0 DEF FlashInv, FlashTypeOK, IndexInv
  <2>3. sector_index' \in [Sectors -> 0..SectorWords]
    BY <2>1, <2>2, <1>r DEF FlashInv, FlashTypeOK
  <2>4. FlashInv'
    BY <2>1, <2>2, <2>3 DEF FlashInv, FlashTypeOK, IndexInv, RewriteInv
  <2>5. Contents' = Contents /\ Frail' = {}
    BY <2>1 DEF Contents, Frail
  <2> QED
    BY <2>1, <2>4, <2>5
<1>2. CASE RewriteWord
  <2>1. PICK b \in left :
          /\ flash' = [flash EXCEPT ![s] = Append(@, [offset |-> Offset(b), value |-> buffer[b]])]
          /\ left' = left \ {b}
    BY <1>2 DEF RewriteWord
  <2>2. stage = "rewrite" /\ UNCHANGED <<sector_index, stage, where, buffer>>
    BY <1>2 DEF RewriteWord
  <2>3. b \in InSector(s) /\ b \in Addresses /\ Sector(b) = s /\ buffer[b] \in Values /\ s \in Sectors
    BY <2>1, <2>2, <1>0 DEF FlashInv, RewriteInv, InSector
  <2>4. Cardinality(left') = Cardinality(left) - 1 /\ Cardinality(left) \in Nat \ {0}
    <3>1. IsFiniteSet(left)
      BY <2>2, <2>3, SectorAssumption, FS_Subset DEF FlashInv, RewriteInv
    <3>2. Cardinality(left) \in Nat /\ Cardinality(left') = Cardinality(left) - 1
      BY <2>1, <3>1, FS_CardinalityType, FS_RemoveElement
    <3>3. Cardinality(left) # 0
      BY <2>1, <3>1, FS_EmptySet
    <3> QED
      BY <3>2, <3>3
  <2>5. Len(flash[s]) < SectorWords
    BY <2>2, <2>3, <2>4, <1>q, FlashAssumption DEF FlashInv, RewriteInv
  <2>6. /\ flash' \in [Sectors -> Seq(Word)]
        /\ \A t \in Sectors : Len(flash'[t]) <= SectorWords
        /\ Len(flash'[s]) = Len(flash[s]) + 1
        /\ \A t \in Sectors : t # s => flash'[t] = flash[t]
        /\ Latest' = [Latest EXCEPT ![b] = buffer[b]]
    BY <2>1, <2>3, <2>5, AppendFacts
  <2>7. FlashTypeOK' /\ IndexInv'
    BY <2>1, <2>2, <2>6 DEF FlashInv, FlashTypeOK, IndexInv
  <2>8. RewriteInv'
    <3>1. Len(flash'[s]) + Cardinality(left') <= SectorWords
      <4>1. Len(flash[s]) + Cardinality(left) <= SectorWords
        BY <2>2 DEF FlashInv, RewriteInv
      <4> QED
        BY <4>1, <2>3, <2>4, <2>6, <1>q, FlashAssumption
    <3>2. ASSUME NEW c \in InSector(s)
          PROVE  InFlash(s, flash'[s])[c] = IF c \in left' THEN Erased ELSE buffer[c]
      <4>1. c \in Addresses /\ Sector(c) = s
        BY DEF InSector
      <4>2. InFlash(s, flash'[s])[c] = Latest'[c] /\ InFlash(s, flash[s])[c] = Latest[c]
        BY <4>1 DEF Latest, InFlash
      <4>3. Latest[c] = IF c \in left THEN Erased ELSE buffer[c]
        BY <2>2, <4>2 DEF FlashInv, RewriteInv
      <4>4. Latest'[c] = IF c = b THEN buffer[b] ELSE Latest[c]
        BY <2>6, <4>1 DEF Latest
      <4> QED
        BY <2>1, <4>2, <4>3, <4>4
    <3>3. left' \in SUBSET InSector(s)
      BY <2>1, <2>2 DEF FlashInv, RewriteInv
    <3>4. buffer' \in [InSector(s) -> Values]
      BY <2>2 DEF FlashInv, RewriteInv
    <3> QED
      BY <2>2, <3>1, <3>2, <3>3, <3>4 DEF RewriteInv
  <2>9. Contents' = Contents
    <3>1. ASSUME NEW c \in Addresses, Sector(c) # s PROVE Latest'[c] = Latest[c]
      BY <2>3, <2>6, <3>1 DEF Latest
    <3> QED
      BY <2>2, <3>1, <1>p, ContentsFacts DEF Split
  <2> QED
    BY <2>1, <2>2, <2>7, <2>8, <2>9 DEF FlashInv, Frail
<1>3. CASE RewriteDone
  <2>1. /\ stage = "rewrite" /\ left = {} /\ stage' = "idle"
        /\ sector_index' = [sector_index EXCEPT ![s] = Len(flash[s])]
        /\ UNCHANGED <<flash, where, left>>
    BY <1>3 DEF RewriteDone
  <2>2. s \in Sectors
    BY <2>1, <1>0
  <2>3. \A t \in Sectors : sector_index'[t] = Len(flash[t])
    BY <2>1, <2>2 DEF FlashInv, FlashTypeOK, IndexInv
  <2>4. sector_index' \in [Sectors -> 0..SectorWords]
    BY <2>1, <2>3, <1>r DEF FlashInv, FlashTypeOK
  <2>5. FlashInv'
    BY <2>1, <2>3, <2>4 DEF FlashInv, FlashTypeOK, IndexInv, RewriteInv
  <2>6. Contents' = Latest /\ Frail' = {} /\ Frail = {}
    BY <2>1, <1>p DEF Latest, InFlash, Frail
  <2>7. ASSUME NEW c \in Addresses, Sector(c) = s PROVE buffer[c] = Latest[c]
    <3>1. c \in InSector(s) /\ InFlash(s, flash[s])[c] = Latest[c]
      BY <2>7 DEF InSector, InFlash, Latest
    <3> QED
      BY <2>1, <3>1 DEF FlashInv, RewriteInv
  <2>8. Split = Latest
    BY <2>7 DEF Split, Latest
  <2> QED
    BY <2>1, <2>5, <2>6, <2>8, ContentsFacts
<1> QED
  BY <1>1, <1>2, <1>3

\* A power loss erases the bytes that are frail and no other.
LEMMA LossEffect ==
  ASSUME FlashInv, LosePower
  PROVE  /\ FlashInv'
         /\ Contents' = [a \in Addresses |-> IF a \in Frail THEN Erased ELSE Contents[a]]
         /\ Frail' = {}
<1>1. stage' = "off" /\ left' = {} /\ UNCHANGED <<flash, sector_index, where>>
  BY DEF LosePower
<1>2. FlashInv'
  BY <1>1 DEF FlashInv, FlashTypeOK, IndexInv, RewriteInv
<1>3. Contents' = Latest /\ Frail' = {}
  <2>1. (stage # "rewrite" => Contents = Latest /\ Frail = {})'
    BY ContentsFacts, PTL
  <2> QED
    BY <1>1, <2>1 DEF Latest, InFlash
<1>4. ASSUME NEW a \in Addresses
      PROVE  Latest[a] = IF a \in Frail THEN Erased ELSE Contents[a]
  <2>1. CASE stage = "rewrite" /\ Sector(a) = Sector(where)
    <3>1. a \in InSector(Sector(where)) /\ InFlash(Sector(where), flash[Sector(where)])[a] = Latest[a]
      BY <2>1 DEF InSector, InFlash, Latest
    <3> QED
      BY <2>1, <3>1, ContentsFacts DEF Split, Frail, FlashInv, RewriteInv
  <2>2. CASE ~(stage = "rewrite" /\ Sector(a) = Sector(where))
    <3>1. a \notin Frail
      BY <2>2 DEF Frail, FlashInv, RewriteInv, InSector
    <3> QED
      BY <2>2, <3>1, ContentsFacts DEF Split
  <2> QED
    BY <2>1, <2>2
<1>5. Latest = [a \in Addresses |-> Latest[a]]
  BY DEF Latest
<1> QED
  BY <1>2, <1>3, <1>4, <1>5

\* Counting the words at a start changes no byte.
LEMMA BootEffect ==
  ASSUME FlashInv, eeprom_initialize
  PROVE  FlashInv' /\ Contents' = Contents /\ Frail = {} /\ Frail' = {} /\ stage' = "idle"
<1>1. /\ stage = "off" /\ stage' = "idle" /\ UNCHANGED <<flash, where, buffer, left>>
      /\ sector_index' = [s \in Sectors |-> Len(flash[s])]
  BY DEF eeprom_initialize
<1>2. \A s \in Sectors : Len(flash[s]) \in 0..SectorWords
  BY LenProperties, FlashAssumption DEF FlashInv, FlashTypeOK
<1>3. FlashInv'
  BY <1>1, <1>2 DEF FlashInv, FlashTypeOK, IndexInv, RewriteInv
<1>4. Contents' = Contents /\ Frail = {} /\ Frail' = {}
  BY <1>1 DEF Contents, Frail
<1> QED
  BY <1>1, <1>3, <1>4

\* Without a step of the library nothing changes.
LEMMA IdleEffect ==
  ASSUME FlashInv, UNCHANGED flashVars
  PROVE  FlashInv' /\ Contents' = Contents /\ Frail' = Frail
  BY DEF flashVars, FlashInv, FlashTypeOK, IndexInv, RewriteInv, InFlash, Contents, Frail

-----------------------------------------------------------------------------
Byte == [at : Addresses, value : Values]
FieldsOf(c) == IF c = "toggle" THEN DebugAt ELSE ClaimAt

\* A command writes the fields of its own record only.
PutInv ==
  /\ \A i \in 1..Len(todo) : todo[i].at \in FieldsOf(command)
  /\ stage \in {"count", "rewrite"} => command # "none" /\ where \in FieldsOf(command)

\* The byte at a is v when put() is through.
Will(a, v) ==
  /\ \A i \in 1..Len(todo) : todo[i].at = a => todo[i].value = v
  /\ (\E i \in 1..Len(todo) : todo[i].at = a) \/ Contents[a] = v

\* The claim record is, or will be, the one wanted, unless a power loss has broken it.
ClaimInv ==
  ~claimBroken \/ command \in {"save", "clear"} =>
    /\ claimWanted = None => \E v \in Values \ {Valid} : Will(magic, v)
    /\ claimWanted # None =>
         /\ Will(magic, Valid) /\ Will(vid, claimWanted.model)
         /\ Will(interface_num, claimWanted.interface)
         /\ Will(endpoint_addr, claimWanted.endpoint)

\* What loadDebugMode() answers of given bytes.
Mode(bytes) == IF bytes[debug_magic] = Valid THEN Flag(bytes[debug_flag]) ELSE {FALSE}

DebugInv ==
  /\ command = "toggle" =>
       Will(debug_magic, Valid) /\ Will(debug_flag, IF debugWanted THEN On ELSE Off)
  /\ command # "toggle" /\ ~debugBroken =>
       Mode(Contents) = {debugWanted} /\ (stage # "off" => debugEnabled = debugWanted)

Inv == TypeOK /\ FlashInv /\ PutInv /\ ClaimInv /\ DebugInv

-----------------------------------------------------------------------------
LEMMA FieldFacts ==
  /\ ClaimAt = {magic, vid, interface_num, endpoint_addr} /\ ClaimAt \subseteq Addresses
  /\ DebugAt = {debug_magic, debug_flag} /\ DebugAt \subseteq Addresses
  /\ \A a \in ClaimAt, d \in DebugAt : a # d /\ Sector(a) # Sector(d)
  BY FieldsAssumption DEF ClaimAt, DebugAt

LEMMA BytesFacts ==
  ASSUME NEW at \in Seq(Addresses), NEW values \in Seq(Values), Len(values) = Len(at)
  PROVE  /\ Bytes(at, values) \in Seq(Byte) /\ Len(Bytes(at, values)) = Len(at)
         /\ \A i \in 1..Len(at) : /\ Bytes(at, values)[i].at = at[i]
                                  /\ Bytes(at, values)[i].value = values[i]
<1>1. Len(at) \in Nat /\ \A i \in 1..Len(at) : at[i] \in Addresses /\ values[i] \in Values
  BY LenProperties, ElementOfSeq
<1>2. \A i \in 1..Len(at) : [at |-> at[i], value |-> values[i]] \in Byte
  BY <1>1 DEF Byte
<1> QED
  BY <1>1, <1>2 DEF Bytes

\* What a store of ClaimConfig puts.
LEMMA ClaimBytes ==
  ASSUME NEW v1 \in Values, NEW v2 \in Values, NEW v3 \in Values, NEW v4 \in Values,
         NEW put, put = Bytes(ClaimFields, <<v1, v2, v3, v4>>)
  PROVE  /\ put \in Seq(Byte) /\ Len(put) = 4
         /\ put[1].at = magic /\ put[1].value = v1 /\ put[2].at = vid /\ put[2].value = v2
         /\ put[3].at = interface_num /\ put[3].value = v3
         /\ put[4].at = endpoint_addr /\ put[4].value = v4
<1>1. ClaimFields \in Seq(Addresses) /\ Len(ClaimFields) = 4 /\ <<v1, v2, v3, v4>> \in Seq(Values)
      /\ Len(<<v1, v2, v3, v4>>) = 4
  BY FieldFacts DEF ClaimFields
<1>2. \A i \in 1..4 : put[i].at = ClaimFields[i] /\ put[i].value = <<v1, v2, v3, v4>>[i]
  BY <1>1, BytesFacts
<1>3. put \in Seq(Byte) /\ Len(put) = 4
  BY <1>1, BytesFacts
<1> QED
  BY <1>2, <1>3 DEF ClaimFields

\* And one of DebugConfig.
LEMMA DebugBytes ==
  ASSUME NEW v1 \in Values, NEW v2 \in Values,
         NEW put, put = Bytes(<<debug_magic, debug_flag>>, <<v1, v2>>)
  PROVE  /\ put \in Seq(Byte) /\ Len(put) = 2
         /\ put[1].at = debug_magic /\ put[1].value = v1
         /\ put[2].at = debug_flag /\ put[2].value = v2
<1>1. <<debug_magic, debug_flag>> \in Seq(Addresses) /\ Len(<<debug_magic, debug_flag>>) = 2
      /\ <<v1, v2>> \in Seq(Values) /\ Len(<<v1, v2>>) = 2
  BY FieldFacts
<1>2. \A i \in 1..2 : put[i].at = <<debug_magic, debug_flag>>[i] /\ put[i].value = <<v1, v2>>[i]
  BY <1>1, BytesFacts
<1>3. put \in Seq(Byte) /\ Len(put) = 2
  BY <1>1, BytesFacts
<1> QED
  BY <1>2, <1>3

\* A flag that is 0 or 1, and the mode of a record that a toggle has written.
LEMMA ModeFacts ==
  ASSUME NEW bytes
  PROVE  /\ Mode(bytes) \in SUBSET BOOLEAN /\ Mode(bytes) # {}
         /\ bytes[debug_magic] # Valid \/ bytes[debug_flag] \in {On, Off} =>
              \E e \in BOOLEAN : Mode(bytes) = {e}
         /\ \A e \in BOOLEAN : bytes[debug_magic] = Valid
                               /\ bytes[debug_flag] = (IF e THEN On ELSE Off) => Mode(bytes) = {e}
<1>1. Mode(bytes) \in SUBSET BOOLEAN /\ Mode(bytes) # {}
  BY DEF Mode, Flag
<1>2. CASE bytes[debug_magic] # Valid
  BY <1>1, <1>2 DEF Mode
<1>3. CASE bytes[debug_magic] = Valid /\ bytes[debug_flag] = On
  <2>1. Mode(bytes) = {TRUE}
    BY <1>3 DEF Mode, Flag
  <2> QED
    BY <1>1, <1>3, <2>1, StoreAssumption
<1>4. CASE bytes[debug_magic] = Valid /\ bytes[debug_flag] = Off
  <2>1. Mode(bytes) = {FALSE}
    BY <1>4, StoreAssumption DEF Mode, Flag
  <2> QED
    BY <1>1, <1>4, <2>1, StoreAssumption
<1>5. CASE bytes[debug_flag] \notin {On, Off} /\ bytes[debug_magic] = Valid
  BY <1>1, <1>5
<1> QED
  BY <1>2, <1>3, <1>4, <1>5

\* Between two commands, and in a command on the other record, a record reads as stored.
LEMMA FieldsRead ==
  ASSUME FlashInv, PutInv, stage # "off"
  PROVE  /\ command # "toggle" => loadDebugMode = Mode(Contents)
         /\ command = "none" => \A a \in Addresses : eeprom_read_byte(a) = Contents[a]
<1>1. ASSUME command # "toggle", NEW d \in DebugAt PROVE eeprom_read_byte(d) = Contents[d]
  BY <1>1, FieldFacts, ReadFacts DEF PutInv, FieldsOf
<1>2. ASSUME command # "toggle" PROVE loadDebugMode = Mode(Contents)
  BY <1>1, <1>2, FieldFacts DEF loadDebugMode, DebugMode, Mode
<1>3. ASSUME command = "none", NEW a \in Addresses PROVE eeprom_read_byte(a) = Contents[a]
  BY <1>3, ReadFacts DEF PutInv
<1> QED
  BY <1>2, <1>3

-----------------------------------------------------------------------------
\* What put() will have written does not depend on how far it is.
LEMMA WillAfterPut ==
  ASSUME FlashInv, todo \in Seq(Byte), todo # << >>, NEW a \in Addresses, NEW v, Will(a, v),
         todo' = Tail(todo), Contents' = [Contents EXCEPT ![Head(todo).at] = Head(todo).value]
  PROVE  Will(a, v)'
<1> DEFINE n == Len(todo)
<1>1. /\ n \in Nat \ {0} /\ Len(todo') = n - 1 /\ Head(todo) = todo[1]
      /\ \A i \in 1..(n - 1) : todo'[i] = todo[i + 1]
  BY HeadTailProperties, EmptySeq
<1>2. Contents'[a] = IF Head(todo).at = a THEN Head(todo).value ELSE Contents[a]
  BY ContentsType
<1>3. ASSUME NEW i \in 1..Len(todo'), todo'[i].at = a PROVE todo'[i].value = v
  <2>1. i + 1 \in 1..n /\ todo'[i] = todo[i + 1]
    BY <1>1
  <2> QED
    BY <1>3, <2>1 DEF Will
<1>4. CASE \E i \in 1..(n - 1) : todo[i + 1].at = a
  <2>1. \E i \in 1..Len(todo') : todo'[i].at = a
    BY <1>1, <1>4
  <2> QED
    BY <1>3, <2>1 DEF Will
<1>5. CASE \A i \in 1..(n - 1) : todo[i + 1].at # a
  <2>1. ASSUME NEW i \in 1..n, todo[i].at = a PROVE i = 1
    <3>1. CASE i # 1
      <4>1. i - 1 \in 1..(n - 1) /\ (i - 1) + 1 = i
        BY <1>1, <3>1
      <4> QED
        BY <1>5, <2>1, <4>1
    <3> QED
      BY <3>1
  <2>2. Contents'[a] = v
    <3>1. CASE todo[1].at = a
      <4>1. todo[1].value = v
        BY <1>1, <3>1 DEF Will
      <4> QED
        BY <1>1, <1>2, <3>1, <4>1
    <3>2. CASE todo[1].at # a
      BY <1>1, <1>2, <2>1, <3>2 DEF Will
    <3> QED
      BY <3>1, <3>2
  <2> QED
    BY <1>3, <2>2 DEF Will
<1> QED
  BY <1>4, <1>5

\* With nothing to put, the byte is there.
LEMMA WillNow ==
  ASSUME todo = << >>, NEW a, NEW v
  PROVE  Will(a, v) <=> Contents[a] = v
  BY DEF Will

\* Where put() writes other fields, the byte stays.
LEMMA WillElsewhere ==
  ASSUME NEW a, NEW v, Will(a, v), Contents'[a] = Contents[a],
         \A i \in 1..Len(todo) : todo[i].at # a, \A i \in 1..Len(todo') : todo'[i].at # a
  PROVE  Will(a, v)'
  BY DEF Will

\* What holds of the claim record before a step holds after one that keeps what will be.
LEMMA ClaimKept ==
  ASSUME TypeOK, ClaimInv, UNCHANGED claimWanted,
         \A a \in ClaimAt, v \in Values : Will(a, v) => Will(a, v)',
         ~claimBroken' \/ command' \in {"save", "clear"} =>
           ~claimBroken \/ command \in {"save", "clear"}
  PROVE  ClaimInv'
<1>1. \A c \in ClaimConfig : c.model \in Values /\ c.interface \in Values /\ c.endpoint \in Values
      /\ Valid \in Values
  BY StoreAssumption DEF ClaimConfig, Marks
<1>2. claimWanted # None => claimWanted \in ClaimConfig
  BY DEF TypeOK
<1>3. claimWanted = None => ((\E v \in Values \ {Valid} : Will(magic, v)) =>
                             (\E v \in Values \ {Valid} : Will(magic, v)'))
  BY FieldFacts
<1> QED
  BY <1>1, <1>2, <1>3, FieldFacts DEF ClaimInv

LEMMA DebugKept ==
  ASSUME TypeOK, DebugInv, UNCHANGED <<debugWanted, command>>,
         \A a \in DebugAt, v \in Values : Will(a, v) => Will(a, v)',
         command # "toggle" /\ ~debugBroken' =>
           ~debugBroken /\ Mode(Contents') = Mode(Contents)
           /\ (stage' # "off" => debugEnabled' = debugWanted \/ (stage # "off" /\ UNCHANGED debugEnabled))
  PROVE  DebugInv'
<1>1. Valid \in Values /\ On \in Values /\ Off \in Values
  BY StoreAssumption DEF Marks
<1>2. ASSUME command' = "toggle"
      PROVE  (Will(debug_magic, Valid) /\ Will(debug_flag, IF debugWanted THEN On ELSE Off))'
  BY <1>1, <1>2, FieldFacts DEF DebugInv
<1>3. ASSUME command' # "toggle", ~debugBroken'
      PROVE  (Mode(Contents) = {debugWanted} /\ (stage # "off" => debugEnabled = debugWanted))'
  BY <1>3 DEF DebugInv
<1> QED
  BY <1>2, <1>3 DEF DebugInv

\* Every step keeps the types and the two records as wanted.
THEOREM StoreInvariant == Spec => []Inv
<1>1. Init => Inv
  <2> SUFFICES ASSUME Init PROVE Inv
    OBVIOUS
  <2>1. /\ FlashInv /\ Contents = [a \in Addresses |-> Erased] /\ stage = "idle" /\ todo = << >>
        /\ command = "none" /\ claimWanted = None /\ debugWanted = FALSE /\ debugEnabled = FALSE
    BY StartFacts DEF Init, FlashInit
  <2>2. TypeOK
    <3>1. commands \in 0..MaxCommands /\ crashes \in 0..MaxCrashes
      BY StoreAssumption DEF Init
    <3>2. todo \in Seq([at : Addresses, value : Values])
      BY <2>1, EmptySeq
    <3> QED
      BY <2>1, <3>1, <3>2 DEF Init, TypeOK, FlashInv
  <2>3. PutInv
    BY <2>1 DEF PutInv
  <2>4. Contents[magic] = Erased /\ Contents[debug_magic] = Erased /\ Erased \in Values \ {Valid}
    BY <2>1, FieldFacts, StoreAssumption, FlashAssumption
  <2>5. ClaimInv
    BY <2>1, <2>4, WillNow DEF ClaimInv
  <2>6. DebugInv
    BY <2>1, <2>4 DEF DebugInv, Mode
  <2> QED
    BY <2>1, <2>2, <2>3, <2>5, <2>6 DEF Inv
<1>2. Inv /\ [Next]_vars => Inv'
  <2> SUFFICES ASSUME Inv, [Next]_vars PROVE Inv'
    OBVIOUS
  <2> USE DEF Inv
  <2>m. Marks \subseteq Values /\ Models \subseteq Values /\ Interfaces \subseteq Values
        /\ Endpoints \subseteq Values /\ Valid \in Marks /\ On \in Marks /\ Off \in Marks
        /\ Zero \in Marks /\ Junk \in Marks
    BY StoreAssumption DEF Marks
  <2>t. todo \in Seq(Byte)
    BY DEF TypeOK, Byte
  <2>c. commands \in Nat /\ crashes \in Nat /\ MaxCommands \in Nat /\ MaxCrashes \in Nat
    BY StoreAssumption DEF TypeOK
  <2>w. ASSUME NEW a, NEW v, UNCHANGED todo, Contents' = Contents, Will(a, v) PROVE Will(a, v)'
    BY <2>w DEF Will
  <2>1. ASSUME NEW config \in ClaimConfig,
               Begin("save", Bytes(ClaimFields,
                                   <<Valid, config.model, config.interface, config.endpoint>>)),
               claimWanted' = config, UNCHANGED debugWanted
        PROVE  Inv'
    <3>1. /\ command = "none" /\ stage = "idle" /\ command' = "save" /\ commands' = commands + 1
          /\ commands < MaxCommands
          /\ UNCHANGED <<flashVars, debugEnabled, crashes, claimBroken, debugBroken, debugWanted>>
          /\ FlashInv' /\ Contents' = Contents /\ stage' = stage
      BY <2>1, IdleEffect DEF Begin, flashVars
    <3>2. /\ todo' \in Seq(Byte) /\ Len(todo') = 4
          /\ todo'[1].at = magic /\ todo'[1].value = Valid
          /\ todo'[2].at = vid /\ todo'[2].value = config.model
          /\ todo'[3].at = interface_num /\ todo'[3].value = config.interface
          /\ todo'[4].at = endpoint_addr /\ todo'[4].value = config.endpoint
      <4>1. config.model \in Values /\ config.interface \in Values /\ config.endpoint \in Values
        BY <2>m DEF ClaimConfig
      <4> QED
        BY <2>1, <2>m, <4>1, ClaimBytes DEF Begin
    <3>3. TypeOK'
      <4>1. commands' \in 0..MaxCommands
        BY <2>c, <3>1
      <4> QED
        BY <2>1, <3>1, <3>2, <4>1 DEF TypeOK, Byte, FlashInv
    <3>4. PutInv'
      BY <3>1, <3>2 DEF PutInv, FieldsOf, ClaimAt
    <3>5. ClaimInv'
      <4>1. /\ Will(magic, Valid)' /\ Will(vid, config.model)'
            /\ Will(interface_num, config.interface)' /\ Will(endpoint_addr, config.endpoint)'
        BY <3>2 DEF Will, magic, vid, interface_num, endpoint_addr
      <4> QED
        BY <2>1, <4>1, StoreAssumption DEF ClaimInv, ClaimConfig
    <3>6. DebugInv'
      BY <3>1 DEF DebugInv
    <3> QED
      BY <3>1, <3>3, <3>4, <3>5, <3>6
  <2>2. ASSUME NEW m \in Models \cup {Junk}, NEW i \in Interfaces \cup {Junk},
               NEW e \in Endpoints \cup {Junk},
               Begin("clear", Bytes(ClaimFields, <<Zero, m, i, e>>)),
               claimWanted' = None, UNCHANGED debugWanted
        PROVE  Inv'
    <3>1. /\ command = "none" /\ stage = "idle" /\ command' = "clear" /\ commands' = commands + 1
          /\ commands < MaxCommands
          /\ UNCHANGED <<flashVars, debugEnabled, crashes, claimBroken, debugBroken, debugWanted>>
          /\ FlashInv' /\ Contents' = Contents /\ stage' = stage
      BY <2>2, IdleEffect DEF Begin, flashVars
    <3>2. /\ todo' \in Seq(Byte) /\ Len(todo') = 4
          /\ todo'[1].at = magic /\ todo'[1].value = Zero /\ todo'[2].at = vid
          /\ todo'[3].at = interface_num /\ todo'[4].at = endpoint_addr
      <4>1. m \in Values /\ i \in Values /\ e \in Values /\ Zero \in Values
        BY <2>m
      <4> QED
        BY <2>2, <4>1, ClaimBytes DEF Begin
    <3>3. TypeOK'
      <4>1. commands' \in 0..MaxCommands
        BY <2>c, <3>1
      <4> QED
        BY <2>2, <3>1, <3>2, <4>1 DEF TypeOK, Byte, FlashInv
    <3>4. PutInv'
      BY <3>1, <3>2 DEF PutInv, FieldsOf, ClaimAt
    <3>5. ClaimInv'
      <4>1. Will(magic, Zero)'
        BY <3>2 DEF Will, magic, vid, interface_num, endpoint_addr
      <4>2. Zero \in Values \ {Valid}
        BY <2>m, StoreAssumption
      <4> QED
        BY <2>2, <4>1, <4>2 DEF ClaimInv
    <3>6. DebugInv'
      BY <3>1 DEF DebugInv
    <3> QED
      BY <3>1, <3>3, <3>4, <3>5, <3>6
  <2>3. ASSUME NEW enabled \in loadDebugMode,
               Begin("toggle", Bytes(<<debug_magic, debug_flag>>,
                                     <<Valid, IF enabled THEN Off ELSE On>>)),
               debugWanted' = ~enabled, UNCHANGED claimWanted
        PROVE  Inv'
    <3>1. /\ command = "none" /\ stage = "idle" /\ command' = "toggle" /\ commands' = commands + 1
          /\ commands < MaxCommands /\ todo = << >>
          /\ UNCHANGED <<flashVars, debugEnabled, crashes, claimBroken, debugBroken, claimWanted>>
          /\ FlashInv' /\ Contents' = Contents /\ stage' = stage
      BY <2>3, IdleEffect DEF Begin, flashVars, TypeOK
    <3>2. /\ todo' \in Seq(Byte) /\ Len(todo') = 2
          /\ todo'[1].at = debug_magic /\ todo'[1].value = Valid
          /\ todo'[2].at = debug_flag /\ todo'[2].value = IF enabled THEN Off ELSE On
      <4> DEFINE flag == IF enabled THEN Off ELSE On
      <4>1. flag \in Values /\ Valid \in Values
        BY <2>m
      <4> HIDE DEF flag
      <4>2. todo' = Bytes(<<debug_magic, debug_flag>>, <<Valid, flag>>)
        BY <2>3 DEF Begin, flag
      <4>3. /\ todo' \in Seq(Byte) /\ Len(todo') = 2
            /\ todo'[1].at = debug_magic /\ todo'[1].value = Valid
            /\ todo'[2].at = debug_flag /\ todo'[2].value = flag
        BY <4>1, <4>2, DebugBytes
      <4> QED
        BY <4>3 DEF flag
    <3>3. enabled \in BOOLEAN /\ debugWanted' \in BOOLEAN
      <4>1. enabled \in BOOLEAN
        BY <3>1, FieldsRead, ModeFacts
      <4> QED
        BY <2>3, <4>1
    <3>4. TypeOK'
      <4>1. commands' \in 0..MaxCommands
        BY <2>c, <3>1
      <4> QED
        BY <3>1, <3>2, <3>3, <4>1 DEF TypeOK, Byte, FlashInv
    <3>5. PutInv'
      BY <3>1, <3>2 DEF PutInv, FieldsOf, DebugAt
    <3>6. ClaimInv'
      <4>1. ASSUME NEW a \in ClaimAt, NEW v \in Values, Will(a, v) PROVE Will(a, v)'
        <5>1. a # debug_magic /\ a # debug_flag
          BY FieldFacts
        <5> QED
          BY <3>1, <3>2, <4>1, <5>1, WillElsewhere
      <4> QED
        BY <3>1, <4>1, ClaimKept
    <3>7. DebugInv'
      <4>1. Will(debug_magic, Valid)'
        BY <3>2 DEF Will, debug_magic, debug_flag
      <4>2. Will(debug_flag, IF enabled THEN Off ELSE On)'
        BY <3>2 DEF Will, debug_magic, debug_flag
      <4>3. (IF enabled THEN Off ELSE On) = (IF debugWanted' THEN On ELSE Off)
        BY <2>3, <3>3
      <4> QED
        BY <3>1, <4>1, <4>2, <4>3 DEF DebugInv
    <3> QED
      BY <3>1, <3>4, <3>5, <3>6, <3>7
  <2>4. CASE PutByte
    <3>1. /\ todo # << >> /\ stage = "idle" /\ todo' = Tail(todo)
          /\ eeprom_write_byte(Head(todo).at, Head(todo).value)
          /\ UNCHANGED <<command, debugEnabled, commands, crashes, historyVars>>
      BY <2>4 DEF PutByte
    <3>2. /\ Head(todo).at \in Addresses /\ Head(todo).value \in Values
          /\ Head(todo).at \in FieldsOf(command) /\ todo' \in Seq(Byte)
          /\ Len(todo) \in Nat /\ \A i \in 1..Len(todo') : i + 1 \in 1..Len(todo) /\ todo'[i] = todo[i + 1]
          /\ Len(todo') = Len(todo) - 1
      <4>1. Head(todo) = todo[1] /\ 1 \in 1..Len(todo) /\ Len(todo) \in Nat
        BY <2>t, <3>1, EmptySeq
      <4>2. Head(todo).at \in FieldsOf(command)
        BY <4>1 DEF PutInv
      <4>3. Head(todo) \in Byte /\ todo' \in Seq(Byte) /\ Len(todo') = Len(todo) - 1
            /\ \A i \in 1..Len(todo') : todo'[i] = todo[i + 1]
        BY <2>t, <3>1, HeadTailProperties
      <4>4. \A i \in 1..Len(todo') : i + 1 \in 1..Len(todo)
        BY <4>1, <4>3
      <4> QED
        BY <4>1, <4>2, <4>3, <4>4 DEF Byte
    <3>3. command # "none"
      BY <3>1 DEF TypeOK
    <3>4. /\ FlashInv' /\ Contents' = [Contents EXCEPT ![Head(todo).at] = Head(todo).value]
          /\ stage' = "idle" \/ (stage' \in {"count", "rewrite"} /\ where' = Head(todo).at)
      BY <3>1, <3>2, WriteEffect
    <3>5. TypeOK'
      BY <3>1, <3>2, <3>3, <3>4 DEF TypeOK, Byte, FlashInv, historyVars
    <3>6. PutInv'
      BY <3>1, <3>2, <3>3, <3>4 DEF PutInv
    <3>7. ASSUME NEW a \in Addresses, NEW v \in Values, Will(a, v) PROVE Will(a, v)'
      BY <2>t, <3>1, <3>4, <3>7, WillAfterPut
    <3>8. ClaimInv'
      BY <3>1, <3>7, FieldFacts, ClaimKept DEF historyVars
    <3>9. DebugInv'
      <4>1. ASSUME command # "toggle" PROVE Mode(Contents') = Mode(Contents)
        <5>1. Head(todo).at # debug_magic /\ Head(todo).at # debug_flag
          BY <3>2, <4>1, FieldFacts DEF FieldsOf
        <5>2. Contents'[debug_magic] = Contents[debug_magic]
              /\ Contents'[debug_flag] = Contents[debug_flag]
          BY <3>4, <5>1, FieldFacts, ContentsType
        <5> QED
          BY <5>2 DEF Mode
      <4> QED
        BY <3>1, <3>7, <4>1, FieldFacts, DebugKept DEF historyVars
    <3> QED
      BY <3>4, <3>5, <3>6, <3>8, <3>9
  <2>5. CASE Done
    <3>1. /\ command # "none" /\ todo = << >> /\ stage = "idle" /\ command' = "none"
          /\ UNCHANGED <<flashVars, todo, commands, crashes, claimWanted, debugWanted>>
          /\ FlashInv' /\ Contents' = Contents /\ stage' = stage
      BY <2>5, IdleEffect DEF Done, flashVars
    <3>2. /\ debugEnabled' = (IF command = "toggle" THEN debugWanted ELSE debugEnabled)
          /\ claimBroken' = (claimBroken /\ command = "toggle")
          /\ debugBroken' = (debugBroken /\ command # "toggle")
      BY <2>5 DEF Done
    <3>3. debugEnabled' \in BOOLEAN /\ claimBroken' \in BOOLEAN /\ debugBroken' \in BOOLEAN
      BY <3>2, Zenon DEF TypeOK
    <3>4. TypeOK'
      BY <3>1, <3>3 DEF TypeOK, FlashInv
    <3>5. PutInv'
      BY <3>1 DEF PutInv
    <3>6. ClaimInv'
      <4>1. ~claimBroken' => ~claimBroken \/ command \in {"save", "clear"}
        BY <3>1, <3>2 DEF TypeOK
      <4> QED
        BY <2>w, <3>1, <4>1, ClaimKept
    <3>7. DebugInv'
      <4>1. CASE command = "toggle"
        <5>1. Contents[debug_magic] = Valid /\ Contents[debug_flag] = IF debugWanted THEN On ELSE Off
          BY <3>1, <4>1, WillNow DEF DebugInv
        <5>2. Mode(Contents) = {debugWanted}
          BY <5>1, ModeFacts DEF TypeOK
        <5> QED
          BY <3>1, <3>2, <4>1, <5>2 DEF DebugInv
      <4>2. CASE command # "toggle"
        <5>1. debugEnabled' = debugEnabled /\ (~debugBroken' => ~debugBroken)
          BY <3>2, <4>2
        <5> QED
          BY <3>1, <4>2, <5>1 DEF DebugInv
      <4> QED
        BY <4>1, <4>2
    <3> QED
      BY <3>1, <3>4, <3>5, <3>6, <3>7
  <2>6. CASE StepFlash
    <3>1. UNCHANGED <<todo, command, debugEnabled, commands, crashes, historyVars>>
      BY <2>6 DEF StepFlash
    <3>2. /\ FlashInv' /\ Contents' = Contents /\ stage \in {"count", "rewrite"}
          /\ where' = where /\ stage' \in {stage, "idle"}
      BY <2>6, SettleEffect DEF StepFlash
    <3>3. TypeOK'
      BY <3>1, <3>2 DEF TypeOK, FlashInv, historyVars
    <3>4. PutInv'
      BY <3>1, <3>2 DEF PutInv
    <3>5. ClaimInv'
      BY <2>w, <3>1, <3>2, ClaimKept DEF historyVars
    <3>6. DebugInv'
      BY <2>w, <3>1, <3>2, DebugKept DEF historyVars
    <3> QED
      BY <3>2, <3>3, <3>4, <3>5, <3>6
  <2>7. CASE PowerLoss
    <3>1. /\ stage # "off" /\ crashes < MaxCrashes /\ crashes' = crashes + 1 /\ LosePower
          /\ todo' = << >> /\ command' = "none" /\ stage' = "off"
          /\ UNCHANGED <<debugEnabled, commands, claimWanted>>
      BY <2>7 DEF PowerLoss, LosePower
    <3>2. /\ FlashInv' /\ Frail' = {}
          /\ Contents' = [a \in Addresses |-> IF a \in Frail THEN Erased ELSE Contents[a]]
      BY <3>1, LossEffect
    <3>3. /\ claimBroken' = (claimBroken \/ command \in {"save", "clear"})
          /\ debugBroken' = (debugBroken \/ (command = "toggle" /\ Exposed))
          /\ debugWanted' = IF command = "toggle" /\ ~Exposed
                            THEN CHOOSE enabled \in Mode(Contents) : TRUE ELSE debugWanted
      <4>1. DebugMode(Stored(debug_magic), Stored(debug_flag)) = Mode(Contents)
        BY DEF DebugMode, Mode, Stored
      <4> QED
        BY <2>7, <4>1 DEF PowerLoss
    <3>4. /\ claimBroken' \in BOOLEAN /\ debugBroken' \in BOOLEAN
      BY <3>3, Zenon DEF TypeOK
    <3>5. debugWanted' \in BOOLEAN
      <4>1. (CHOOSE enabled \in Mode(Contents) : TRUE) \in BOOLEAN
        BY ModeFacts
      <4> QED
        BY <3>3, <4>1 DEF TypeOK
    <3>6. TypeOK'
      <4>1. crashes' \in 0..MaxCrashes
        BY <2>c, <3>1
      <4> QED
        BY <3>1, <3>2, <3>4, <3>5, <4>1, EmptySeq DEF TypeOK, FlashInv
    <3>7. PutInv'
      BY <3>1 DEF PutInv
    <3>8. ASSUME NEW a \in Addresses, command = "none" \/ a \notin FieldsOf(command),
                 command = "none" \/ (\A c \in FieldsOf(command) : Sector(c) # Sector(a))
          PROVE  Contents'[a] = Contents[a]
      <4>1. a \notin Frail
        BY <3>8 DEF Frail, FlashInv, RewriteInv, PutInv, InSector
      <4> QED
        BY <3>2, <4>1
    <3>9. ClaimInv'
      <4>1. CASE command \in {"save", "clear"}
        <5>1. claimBroken' = TRUE
          BY <3>3, <4>1
        <5> QED
          BY <3>1, <5>1 DEF ClaimInv
      <4>2. CASE command \notin {"save", "clear"}
        <5>1. command \in {"none", "toggle"} /\ claimBroken' = claimBroken
          BY <3>3, <4>2 DEF TypeOK
        <5>2. ASSUME NEW a \in ClaimAt, NEW v \in Values, Will(a, v) PROVE Will(a, v)'
          <6>1. Contents'[a] = Contents[a]
            BY <3>8, <5>1, FieldFacts DEF FieldsOf
          <6>2. \A i \in 1..Len(todo) : todo[i].at # a
            BY <5>1, FieldFacts DEF PutInv, FieldsOf, TypeOK
          <6>3. \A i \in 1..Len(todo') : todo'[i].at # a
            BY <3>1
          <6> QED
            BY <5>2, <6>1, <6>2, <6>3, WillElsewhere
        <5>3. UNCHANGED claimWanted
          BY <3>1
        <5>4. ~claimBroken' \/ command' \in {"save", "clear"} => ~claimBroken
          BY <3>1, <5>1
        <5> QED
          BY <5>2, <5>3, <5>4, ClaimKept
      <4> QED
        BY <4>1, <4>2
    <3>10. DebugInv'
      <4>1. ASSUME ~debugBroken' PROVE Mode(Contents') = {debugWanted'}
        <5>1. CASE command = "toggle"
          <6>1. ~Exposed
            BY <3>3, <4>1, <5>1
          <6>2. Frail = {} /\ (Contents[debug_magic] # Valid \/ Contents[debug_flag] \in {On, Off})
            BY <6>1 DEF Exposed, Stored
          <6>3. Contents' = Contents
            BY <3>2, <6>2, ContentsType
          <6>4. \E e \in BOOLEAN : Mode(Contents) = {e}
            BY <6>2, ModeFacts
          <6>5. debugWanted' = CHOOSE enabled \in Mode(Contents) : TRUE
            BY <3>3, <5>1, <6>1
          <6> QED
            BY <6>3, <6>4, <6>5
        <5>2. CASE command # "toggle"
          <6>1. debugWanted' = debugWanted /\ ~debugBroken
            BY <3>3, <4>1, <5>2
          <6>2. \A d \in DebugAt : Contents'[d] = Contents[d]
            BY <3>8, <5>2, FieldFacts DEF FieldsOf
          <6>3. Mode(Contents') = Mode(Contents)
            BY <6>2, FieldFacts DEF Mode
          <6> QED
            BY <5>2, <6>1, <6>3 DEF DebugInv
        <5> QED
          BY <5>1, <5>2
      <4> QED
        BY <3>1, <4>1 DEF DebugInv
    <3> QED
      BY <3>2, <3>6, <3>7, <3>9, <3>10
  <2>8. CASE Boot
    <3>1. eeprom_initialize /\ stage = "off"
          /\ UNCHANGED <<todo, command, commands, crashes, historyVars>>
      BY <2>8 DEF Boot, eeprom_initialize
    <3>2. FlashInv' /\ Contents' = Contents /\ stage' = "idle"
      BY <3>1, BootEffect
    <3>3. debugEnabled' \in Mode(Contents)
      <4>1. DebugMode(Stored(debug_magic), Stored(debug_flag)) = Mode(Contents)
        BY DEF DebugMode, Mode, Stored
      <4> QED
        BY <2>8, <4>1 DEF Boot
    <3>4. TypeOK'
      BY <3>1, <3>2, <3>3, ModeFacts DEF TypeOK, FlashInv, historyVars
    <3>5. PutInv'
      BY <3>1, <3>2 DEF PutInv
    <3>6. ClaimInv'
      BY <2>w, <3>1, <3>2, ClaimKept DEF historyVars
    <3>7. DebugInv'
      <4>1. command # "toggle" /\ ~debugBroken' => ~debugBroken /\ debugEnabled' = debugWanted
        BY <3>1, <3>3 DEF DebugInv, historyVars
      <4> QED
        BY <2>w, <3>1, <3>2, <4>1, DebugKept DEF historyVars
    <3> QED
      BY <3>2, <3>4, <3>5, <3>6, <3>7
  <2>9. CASE UNCHANGED vars
    <3>1. /\ UNCHANGED <<todo, command, debugEnabled, commands, crashes, historyVars>>
          /\ FlashInv' /\ Contents' = Contents /\ stage' = stage /\ where' = where
      BY <2>9, IdleEffect DEF vars, flashVars
    <3>2. TypeOK'
      BY <3>1 DEF TypeOK, FlashInv, historyVars
    <3>3. PutInv'
      BY <3>1 DEF PutInv
    <3>4. ClaimInv'
      BY <2>w, <3>1, ClaimKept DEF historyVars
    <3>5. DebugInv'
      BY <2>w, <3>1, DebugKept DEF historyVars
    <3> QED
      BY <3>1, <3>2, <3>3, <3>4, <3>5
  <2> QED
    BY <2>1, <2>2, <2>3, <2>4, <2>5, <2>6, <2>7, <2>8, <2>9
       DEF Next, SaveClaimConfig, ClearClaimConfig, ToggleDebugMode
<1> QED
  BY <1>1, <1>2, PTL DEF Spec

-----------------------------------------------------------------------------
\* The type invariant: no sector takes more words than it has, whenever the power fails.
THEOREM TypeCorrect == Spec => []TypeOK
<1>1. Inv => TypeOK
  BY DEF Inv
<1> QED
  BY <1>1, StoreInvariant, PTL

\* A mouse that is claimed between two commands gets what the last one asked for.
THEOREM ClaimSurvives == Spec => []ClaimFollowsConfig
<1>1. Inv => ClaimFollowsConfig
  <2> SUFFICES ASSUME Inv, stage # "off", command = "none", ~claimBroken, NEW m \in Models
               PROVE  Selected(m) = IF claimWanted # None /\ claimWanted.model = m
                                    THEN <<claimWanted.interface, claimWanted.endpoint>>
                                    ELSE <<"automatic", "automatic">>
    BY DEF ClaimFollowsConfig
  <2>1. /\ todo = << >>
        /\ \A a \in ClaimAt : eeprom_read_byte(a) = Contents[a]
    BY FieldsRead, FieldFacts DEF Inv, TypeOK
  <2>2. CASE claimWanted = None
    <3>1. Contents[magic] # Valid
      BY <2>1, <2>2, WillNow DEF Inv, ClaimInv
    <3> QED
      BY <2>1, <2>2, <3>1, FieldFacts DEF Selected
  <2>3. CASE claimWanted # None
    <3>1. /\ Contents[magic] = Valid /\ Contents[vid] = claimWanted.model
          /\ Contents[interface_num] = claimWanted.interface
          /\ Contents[endpoint_addr] = claimWanted.endpoint
      BY <2>1, <2>3, WillNow DEF Inv, ClaimInv
    <3>2. claimWanted.interface \in Interfaces
      BY <2>3 DEF Inv, TypeOK, ClaimConfig
    <3> QED
      BY <2>1, <2>3, <3>1, <3>2, FieldFacts DEF Selected
  <2> QED
    BY <2>2, <2>3
<1> QED
  BY <1>1, StoreInvariant, PTL

\* The debug mode in RAM and in the flash agree.
THEOREM DebugModeSurvives == Spec => []DebugModeAgrees
<1>1. Inv => DebugModeAgrees
  BY FieldsRead DEF Inv, DebugInv, DebugModeAgrees
<1> QED
  BY <1>1, StoreInvariant, PTL

\* The log of words implements the store of bytes.
THEOREM Refinement == Spec => ImplementsByteStore
<1>1. Init => Bytewise!Init
  BY StartFacts DEF Init, Bytewise!Init
<1>2. Inv /\ [Next]_vars => [Bytewise!Next]_<<Contents, Frail>>
  <2> SUFFICES ASSUME Inv, [Next]_vars
               PROVE  Bytewise!Next \/ (Contents' = Contents /\ Frail' = Frail)
    OBVIOUS
  <2> USE DEF Inv, Bytewise!Next
  <2>1. CASE UNCHANGED flashVars
    BY <2>1, IdleEffect
  <2>2. CASE PutByte
    <3>1. Head(todo).at \in Addresses /\ Head(todo).value \in Values
      <4>1. todo \in Seq(Byte) /\ todo # << >>
        BY <2>2 DEF PutByte, TypeOK, Byte
      <4>2. Head(todo) \in Byte
        BY <4>1, HeadTailProperties
      <4> QED
        BY <4>2 DEF Byte
    <3>2. /\ Contents' = [Contents EXCEPT ![Head(todo).at] = Head(todo).value]
          /\ Frail = {} /\ Frail' \in SUBSET Addresses
      BY <2>2, <3>1, WriteEffect DEF PutByte
    <3> QED
      BY <3>1, <3>2 DEF Bytewise!Write
  <2>3. CASE StepFlash
    BY <2>3, SettleEffect DEF StepFlash, Bytewise!Secure
  <2>4. CASE PowerLoss
    BY <2>4, LossEffect DEF PowerLoss, Bytewise!PowerLoss
  <2>5. CASE Boot
    BY <2>5, BootEffect DEF Boot
  <2> QED
    BY <2>1, <2>2, <2>3, <2>4, <2>5
       DEF Next, SaveClaimConfig, ClearClaimConfig, ToggleDebugMode, Begin, Done, vars
<1> QED
  BY <1>1, <1>2, StoreInvariant, PTL DEF Spec, ImplementsByteStore, Bytewise!Spec, Bytewise!vars
=============================================================================
