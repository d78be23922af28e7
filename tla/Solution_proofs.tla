---------------------------- MODULE Solution_proofs ----------------------------
(***************************************************************************)
(* Proofs about what a run hands on: the projects it generates and gives   *)
(* to the solution (SolutionRun), and the addresses that the projects of a *)
(* game compute from one list (LoadAddress).                               *)
(***************************************************************************)
EXTENDS LoadAddress, SolutionRun, SequenceTheorems, TLAPS

-----------------------------------------------------------------------------
(***************************************************************************)
(* The load addresses, for lists of any length, any lengths of images and  *)
(* any width of the words.                                                 *)
(***************************************************************************)
\* Rounding up stays within one alignment of the number.
LEMMA AlignBounds ==
  ASSUME NEW x \in Nat
  PROVE  /\ AlignValue(x) \in Nat
         /\ x <= AlignValue(x)
         /\ AlignValue(x) <= x + Align - 1
<1>1. Align \in Nat \ {0}
  BY LoadAddressAssumption
<1>2. (x + Align - 1) % Align \in 0..(Align - 1)
  BY <1>1
<1> QED
  BY <1>1, <1>2 DEF AlignValue

\* Cutting a number to a word leaves the numbers that fit.
LEMMA WordBounds ==
  ASSUME NEW x \in Int
  PROVE  /\ x % Word \in 0..(Word - 1)
         /\ x \in 0..(Word - 1) => x % Word = x
  BY LoadAddressAssumption

\* The padding of a later entry is more by one padding at least.
LEMMA PadsGrow ==
  ASSUME NEW pad \in Nat, NEW i \in Nat, NEW j \in Nat, i < j
  PROVE  pad * i \in Nat /\ pad * i + pad <= pad * j
<1>1. PICK d \in Nat : j = i + 1 + d
  BY SMT
<1>2. pad * j = pad * i + pad + pad * d
  BY <1>1
<1>3. pad * d \in Nat /\ pad * i \in Nat
  OBVIOUS
<1> QED
  BY <1>2, <1>3

\* The length of an entry is a number.
LEMMA LengthIsNat ==
  ASSUME NEW e \in ListEntry, bPad \in BOOLEAN
  PROVE  LengthOf(e) \in 0..(Word - 1)
<1>1. e.length \in 0..(Word - 1) /\ e.length \in Nat
  BY LoadAddressAssumption DEF ListEntry
<1> QED
  BY <1>1, AlignBounds, WordBounds DEF LengthOf

-----------------------------------------------------------------------------
\* While the list is read: an image that was met lies below what was read,
\* and below every image that was met after it.
Below(p) ==
  Listed(p) =>
    /\ picked[p].line <= line
    /\ picked[p].entry <= entries
    /\ ~overflown => picked[p].address <= base
    /\ list[picked[p].line].used =>
         /\ picked[p].entry < entries
         /\ ~overflown => picked[p].address + LengthOf(list[picked[p].line]) <= base

Before(p, q) ==
  Takes(p) /\ Listed(q) /\ picked[p].line < picked[q].line =>
    /\ picked[p].entry < picked[q].entry
    /\ ~overflown =>
         picked[p].address + LengthOf(list[picked[p].line]) <= picked[q].address

AddressesKept == outcome = "done" => \A p \in Image : macro[p] = Address(p)

AddressInv ==
  /\ AddressTypeOK
  /\ \A p \in Image : Below(p)
  /\ \A p, q \in Image : Before(p, q)
  /\ AddressesKept

LEMMA AddressInitInv == AddressInit => AddressInv
<1> SUFFICES ASSUME AddressInit PROVE AddressInv
  OBVIOUS
<1>1. initial \in 0..(Word - 1) /\ list \in Seq(ListEntry) /\ Word \in Nat
  BY LoadAddressAssumption DEF AddressInit
<1>2. Len(list) \in Nat
  BY <1>1
<1>3. Unset \in [line : 0..Len(list), entry : Nat, address : 0..(Word - 1)]
  BY <1>1, <1>2 DEF Unset
<1>4. AddressTypeOK
  <2>1. picked \in [Image -> [line : 0..Len(list), entry : Nat, address : 0..(Word - 1)]]
    BY <1>3 DEF AddressInit
  <2>2. macro \in [Image -> 0..(Word - 1)]
    BY <1>1 DEF AddressInit
  <2>3. line \in 0..Len(list) /\ base \in 0..(Word - 1) /\ entries \in 0..line
    BY <1>1, <1>2 DEF AddressInit
  <2>4. bPad \in BOOLEAN /\ initial \in Bases /\ overflown \in BOOLEAN
        /\ outcome \in {"reading", "done", "error", "crash"}
    BY DEF AddressInit
  <2> QED
    BY <1>1, <2>1, <2>2, <2>3, <2>4 DEF AddressTypeOK
<1>5. \A p \in Image : ~Listed(p)
  BY DEF AddressInit, Unset, Listed
<1>6. AddressesKept
  BY DEF AddressInit, AddressesKept
<1> QED
  BY <1>4, <1>5, <1>6 DEF AddressInv, Below, Before, Takes

\* An entry of the list that is read gives its image the place it has got to.
LEMMA PickKeepsTypes ==
  ASSUME AddressTypeOK, Reading, Pick(list[line + 1])
  PROVE  /\ list[line + 1] \in ListEntry
         /\ line + 1 \in 1..Len(list)
         /\ picked' \in [Image -> [line : 0..Len(list), entry : Nat, address : 0..(Word - 1)]]
         /\ \A p \in Image :
              picked'[p] = IF p = list[line + 1].name
                           THEN [line |-> line + 1, entry |-> entries, address |-> base]
                           ELSE picked[p]
<1>1. line + 1 \in 1..Len(list) /\ Len(list) \in Nat
  BY DEF AddressTypeOK, Reading
<1>2. list[line + 1] \in ListEntry
  BY <1>1 DEF AddressTypeOK
<1>3. [line |-> line + 1, entry |-> entries, address |-> base]
        \in [line : 0..Len(list), entry : Nat, address : 0..(Word - 1)]
  BY <1>1 DEF AddressTypeOK
<1> QED
  BY <1>1, <1>2, <1>3 DEF AddressTypeOK, Pick, ListEntry

\* An entry whose condition is false.
LEMMA SkipKeeps == AddressInv /\ SkipEntry => AddressInv'
<1> SUFFICES ASSUME AddressInv, SkipEntry PROVE AddressInv'
  OBVIOUS
<1> DEFINE e == list[line + 1]
<1>1. AddressTypeOK /\ Reading /\ Pick(e) /\ ~e.used
  BY DEF AddressInv, SkipEntry
<1>2. /\ e \in ListEntry
      /\ line + 1 \in 1..Len(list)
      /\ picked' \in [Image -> [line : 0..Len(list), entry : Nat, address : 0..(Word - 1)]]
      /\ \A p \in Image :
           picked'[p] = IF p = e.name
                        THEN [line |-> line + 1, entry |-> entries, address |-> base]
                        ELSE picked[p]
  BY <1>1, PickKeepsTypes
<1>3. /\ line' = line + 1
      /\ UNCHANGED <<bPad, list, initial, base, entries, macro, outcome, overflown>>
      /\ outcome = "reading"
  BY DEF SkipEntry, Reading
<1>4. AddressTypeOK'
  BY <1>1, <1>2, <1>3 DEF AddressTypeOK
<1>5. ASSUME NEW p \in Image PROVE Below(p)'
  <2>1. Below(p)
    BY DEF AddressInv
  <2>2. \A f : LengthOf(f)' = LengthOf(f)
    BY <1>3 DEF LengthOf
  <2>3. picked[p].line \in Nat /\ picked[p].entry \in Nat /\ line \in Nat
        /\ entries \in Nat /\ base \in Int
    BY <1>1 DEF AddressTypeOK
  <2>4. CASE p = e.name
    <3>1. picked'[p].line = line + 1 /\ picked'[p].entry = entries
          /\ picked'[p].address = base
      BY <1>2, <2>4
    <3>2. ~list'[picked'[p].line].used
      BY <1>1, <1>3, <3>1
    <3> QED
      BY <1>3, <2>3, <3>1, <3>2 DEF Below
  <2>5. CASE p # e.name
    <3>1. picked'[p] = picked[p]
      BY <1>2, <2>5
    <3> QED
      BY <1>3, <2>1, <2>2, <2>3, <3>1 DEF Below, Listed
  <2> QED
    BY <2>4, <2>5
<1>6. ASSUME NEW p \in Image, NEW q \in Image PROVE Before(p, q)'
  <2>1. Before(p, q) /\ Below(p) /\ Below(q)
    BY DEF AddressInv
  <2>2. \A f : LengthOf(f)' = LengthOf(f)
    BY <1>3 DEF LengthOf
  <2>3. CASE p = e.name
    <3>1. ~Takes(p)'
      BY <1>1, <1>2, <1>3, <2>3 DEF Takes
    <3> QED
      BY <3>1 DEF Before
  <2>4. CASE p # e.name /\ q = e.name
    <3>1. picked'[p] = picked[p] /\ picked'[q].entry = entries /\ picked'[q].address = base
      BY <1>2, <2>4
    <3> QED
      BY <1>3, <2>1, <2>2, <3>1 DEF Below, Before, Takes, Listed
  <2>5. CASE p # e.name /\ q # e.name
    <3>1. picked'[p] = picked[p] /\ picked'[q] = picked[q]
      BY <1>2, <2>5
    <3> QED
      BY <1>3, <2>1, <2>2, <3>1 DEF Before, Takes, Listed
  <2> QED
    BY <2>3, <2>4, <2>5
<1>7. AddressesKept'
  BY <1>3 DEF AddressesKept
<1> QED
  BY <1>4, <1>5, <1>6, <1>7 DEF AddressInv

\* An entry that counts.
LEMMA ReadKeeps == AddressInv /\ ReadEntry => AddressInv'
<1> SUFFICES ASSUME AddressInv, ReadEntry PROVE AddressInv'
  OBVIOUS
<1> DEFINE e == list[line + 1]
<1>1. AddressTypeOK /\ Reading /\ Pick(e) /\ e.used
  BY DEF AddressInv, ReadEntry
<1>2. /\ e \in ListEntry
      /\ line + 1 \in 1..Len(list)
      /\ picked' \in [Image -> [line : 0..Len(list), entry : Nat, address : 0..(Word - 1)]]
      /\ \A p \in Image :
           picked'[p] = IF p = e.name
                        THEN [line |-> line + 1, entry |-> entries, address |-> base]
                        ELSE picked[p]
  BY <1>1, PickKeepsTypes
<1>3. /\ line' = line + 1
      /\ entries' = entries + 1
      /\ UNCHANGED <<bPad, list, initial, macro, outcome>>
      /\ outcome = "reading"
  BY DEF ReadEntry, Reading
<1>4. /\ LengthOf(e) \in Nat
      /\ base' = (base + LengthOf(e)) % Word
      /\ overflown' = (overflown \/ base + LengthOf(e) >= Word)
  BY <1>1, <1>2, LengthIsNat DEF ReadEntry, AddressTypeOK
<1>5. base' \in 0..(Word - 1) /\ (~overflown' => ~overflown /\ base' = base + LengthOf(e))
  <2>1. base \in Nat /\ Word \in Nat
    BY <1>1, LoadAddressAssumption DEF AddressTypeOK
  <2>2. overflown \in BOOLEAN
    BY <1>1 DEF AddressTypeOK
  <2>3. base + LengthOf(e) \in Int
    BY <1>4, <2>1
  <2>4. CASE base + LengthOf(e) >= Word
    BY <1>4, <2>3, <2>4, WordBounds
  <2>5. CASE ~(base + LengthOf(e) >= Word)
    <3>1. base + LengthOf(e) \in 0..(Word - 1)
      BY <1>4, <2>1, <2>5
    <3> QED
      BY <1>4, <2>2, <2>3, <3>1, WordBounds
  <2> QED
    BY <2>4, <2>5
<1>6. AddressTypeOK'
  <2>1. overflown' \in BOOLEAN
    BY <1>4 DEF AddressTypeOK
  <2> QED
    BY <1>1, <1>2, <1>3, <1>5, <2>1 DEF AddressTypeOK
<1>7. \A f : LengthOf(f)' = LengthOf(f)
  BY <1>3 DEF LengthOf
<1>8. ASSUME NEW p \in Image PROVE Below(p)'
  <2>1. Below(p)
    BY DEF AddressInv
  <2>2. picked[p] \in [line : 0..Len(list), entry : Nat, address : 0..(Word - 1)]
        /\ entries \in Nat /\ line \in Nat /\ base \in Int
    BY <1>1 DEF AddressTypeOK
  <2>3. CASE p = e.name
    <3>1. picked'[p].line = line + 1 /\ picked'[p].entry = entries
          /\ picked'[p].address = base
      BY <1>2, <2>3
    <3>2. list'[picked'[p].line] = e
      BY <1>3, <3>1
    <3> QED
      BY <1>3, <1>4, <1>5, <1>7, <2>2, <3>1, <3>2 DEF Below
  <2>4. CASE p # e.name
    <3>1. picked'[p] = picked[p]
      BY <1>2, <2>4
    <3>2. CASE ~Listed(p)
      BY <3>1, <3>2 DEF Below, Listed
    <3>3. CASE Listed(p)
      <4>1. list[picked[p].line] \in ListEntry
        BY <1>1, <2>2, <3>3 DEF Listed, AddressTypeOK
      <4>2. LengthOf(list[picked[p].line]) \in Nat
        BY <1>1, <4>1, LengthIsNat, LoadAddressAssumption DEF AddressTypeOK
      <4> QED
        BY <1>3, <1>4, <1>5, <1>7, <2>1, <2>2, <3>1, <3>3, <4>2 DEF Below, Listed
    <3> QED
      BY <3>2, <3>3
  <2> QED
    BY <2>3, <2>4
<1>9. ASSUME NEW p \in Image, NEW q \in Image PROVE Before(p, q)'
  <2>1. Before(p, q) /\ Below(p) /\ Below(q)
    BY DEF AddressInv
  <2>2. /\ picked[p] \in [line : 0..Len(list), entry : Nat, address : 0..(Word - 1)]
        /\ picked[q] \in [line : 0..Len(list), entry : Nat, address : 0..(Word - 1)]
        /\ entries \in Nat /\ line \in Nat
    BY <1>1 DEF AddressTypeOK
  <2> SUFFICES ASSUME Takes(p)', Listed(q)', picked'[p].line < picked'[q].line
               PROVE  /\ picked'[p].entry < picked'[q].entry
                      /\ ~overflown' => picked'[p].address + LengthOf(list[picked'[p].line])
                                          <= picked'[q].address
    BY <1>3, <1>7 DEF Before
  <2>3. CASE p = e.name
    \* Nobody was met later.
    <3>1. picked'[p].line = line + 1
      BY <1>2, <2>3
    <3>2. picked'[q].line <= line + 1
      <4>1. CASE q = e.name
        BY <1>2, <2>2, <4>1
      <4>2. CASE q # e.name
        <5>1. picked'[q] = picked[q]
          BY <1>2, <4>2
        <5>2. picked[q].line = 0 \/ picked[q].line <= line
          BY <2>1 DEF Below, Listed
        <5>3. picked[q].line \in Nat /\ line \in Nat
          BY <2>2
        <5> QED
          BY <5>1, <5>2, <5>3
      <4> QED
        BY <4>1, <4>2
    <3> QED
      BY <2>2, <3>1, <3>2, <1>2
  <2>4. CASE p # e.name /\ q = e.name
    <3>1. picked'[p] = picked[p] /\ picked'[q].entry = entries /\ picked'[q].address = base
      BY <1>2, <2>4
    <3>2. Listed(p) /\ list[picked[p].line].used
      BY <1>3, <3>1 DEF Takes, Listed
    <3> QED
      BY <1>5, <2>1, <3>1, <3>2 DEF Below
  <2>5. CASE p # e.name /\ q # e.name
    <3>1. picked'[p] = picked[p] /\ picked'[q] = picked[q]
      BY <1>2, <2>5
    <3>2. Takes(p) /\ Listed(q)
      BY <1>3, <3>1 DEF Takes, Listed
    <3> QED
      BY <1>5, <2>1, <3>1, <3>2 DEF Before
  <2> QED
    BY <2>3, <2>4, <2>5
<1>10. AddressesKept'
  BY <1>3 DEF AddressesKept
<1> QED
  BY <1>6, <1>8, <1>9, <1>10 DEF AddressInv

\* The padding of all entries fits between the end of the list and the limit.
LEMMA PaddingFits ==
  ASSUME AddressTypeOK, entries # 0
  PROVE  /\ PadPerEntry \in Nat
         /\ base <= EndAddress => base + PadPerEntry * entries <= EndAddress
<1> DEFINE left == (EndAddress - base) % Word
<1>1. entries \in Nat \ {0} /\ base \in 0..(Word - 1) /\ base \in Int
  BY LoadAddressAssumption DEF AddressTypeOK
<1>2. EndAddress \in 0..(Word - 1) /\ EndAddress \in Int
  BY LoadAddressAssumption DEF EndAddress
<1>3. left \in Nat
  BY <1>1, <1>2, WordBounds, LoadAddressAssumption
<1>4. base <= EndAddress => left = EndAddress - base
  <2> SUFFICES ASSUME base <= EndAddress PROVE left = EndAddress - base
    OBVIOUS
  <2>1. EndAddress - base \in 0..(Word - 1)
    BY <1>1, <1>2, LoadAddressAssumption
  <2> QED
    BY <1>1, <1>2, <2>1, WordBounds
<1>5. \A x \in Nat, n \in Nat \ {0} : x \div n \in Nat /\ (x \div n) * n <= x
  OBVIOUS
<1>6. left \div entries \in Nat /\ (left \div entries) * entries <= left
  BY <1>1, <1>3, <1>5
<1> QED
  BY <1>1, <1>2, <1>4, <1>6 DEF PadPerEntry

\* The address that is computed in the end is a word.
LEMMA AddressInWord ==
  ASSUME AddressTypeOK, NEW p \in Image, Listed(p) /\ bPad => entries # 0
  PROVE  Address(p) \in 0..(Word - 1)
<1>1. picked[p].address \in 0..(Word - 1)
  BY DEF AddressTypeOK
<1>2. CASE Listed(p) /\ bPad /\ PadPerEntry > 0 /\ 2 * PadPerEntry < Word
  <2>1. PadPerEntry \in Nat
    BY <1>2, PaddingFits
  <2>2. picked[p].entry \in Nat /\ picked[p].address \in Nat
    BY LoadAddressAssumption DEF AddressTypeOK
  <2>3. picked[p].address + PadsBefore(p) \in Nat
    BY <2>1, <2>2 DEF PadsBefore
  <2>4. AlignValue(picked[p].address + PadsBefore(p)) \in Int
    BY <2>3, AlignBounds
  <2> QED
    BY <1>2, <2>4, WordBounds DEF Address
<1> QED
  BY <1>1, <1>2 DEF Address

LEMMA SetKeeps == AddressInv /\ SetAddresses => AddressInv'
<1> SUFFICES ASSUME AddressInv, SetAddresses PROVE AddressInv'
  OBVIOUS
<1>1. UNCHANGED <<bPad, list, initial, line, base, entries, picked, overflown>>
  BY DEF SetAddresses
<1>2. AddressTypeOK
  BY DEF AddressInv
<1>3. /\ macro' \in [Image -> 0..(Word - 1)]
      /\ outcome' \in {"crash", "done"}
      /\ AddressesKept'
  <2>1. CASE NothingToPad /\ outcome' = "crash" /\ UNCHANGED macro
    BY <1>2, <2>1 DEF AddressTypeOK, AddressesKept
  <2>2. CASE ~NothingToPad /\ outcome' = "done" /\ macro' = [p \in Image |-> Address(p)]
    <3>1. \A p \in Image : Listed(p) /\ bPad => entries # 0
      BY <2>2 DEF NothingToPad
    <3>2. \A p \in Image : Address(p) \in 0..(Word - 1)
      BY <1>2, <3>1, AddressInWord
    <3>3. \A p \in Image : Address(p)' = Address(p)
      BY <1>1 DEF Address, Listed, PadPerEntry, PadsBefore, EndAddress
    <3> QED
      BY <2>2, <3>2, <3>3 DEF AddressesKept
  <2> QED
    BY <2>1, <2>2 DEF SetAddresses
<1>4. AddressTypeOK'
  BY <1>1, <1>2, <1>3 DEF AddressTypeOK
<1>5. \A p, q \in Image : Below(p)' /\ Before(p, q)'
  BY <1>1 DEF AddressInv, Below, Before, Takes, Listed, LengthOf
<1> QED
  BY <1>3, <1>4, <1>5 DEF AddressInv

LEMMA AddressStep == AddressInv /\ [AddressNext]_addressVars => AddressInv'
<1> SUFFICES ASSUME AddressInv, [AddressNext]_addressVars PROVE AddressInv'
  OBVIOUS
<1>1. CASE SkipEntry
  BY <1>1, SkipKeeps
<1>2. CASE ReadEntry
  BY <1>2, ReadKeeps
<1>3. CASE SetAddresses
  BY <1>3, SetKeeps
<1>4. CASE EmptyEntry
  <2>1. UNCHANGED <<bPad, list, initial, line, base, entries, picked, macro, overflown>>
        /\ outcome' = "error"
    BY <1>4 DEF EmptyEntry
  <2>2. AddressTypeOK' /\ AddressesKept'
    BY <2>1 DEF AddressInv, AddressTypeOK, AddressesKept
  <2>3. \A p, q \in Image : Below(p)' /\ Before(p, q)'
    BY <2>1 DEF AddressInv, Below, Before, Takes, Listed, LengthOf
  <2> QED
    BY <2>2, <2>3 DEF AddressInv
<1>5. CASE UNCHANGED addressVars
  <2>1. AddressTypeOK'
    BY <1>5 DEF AddressInv, AddressTypeOK, addressVars
  <2>2. AddressesKept'
    BY <1>5 DEF AddressInv, AddressesKept, addressVars, Address, Listed, PadPerEntry,
               PadsBefore, EndAddress
  <2>3. \A p, q \in Image : Below(p)' /\ Before(p, q)'
    BY <1>5 DEF AddressInv, addressVars, Below, Before, Takes, Listed, LengthOf
  <2> QED
    BY <2>1, <2>2, <2>3 DEF AddressInv
<1> QED
  BY <1>1, <1>2, <1>3, <1>4, <1>5 DEF AddressNext, AddressesSet

LEMMA AddressInvariant == AddressSpec => []AddressInv
BY AddressInitInv, AddressStep, PTL DEF AddressSpec

-----------------------------------------------------------------------------
(***************************************************************************)
(* The parser of the list keeps its types: addresses are words, and an     *)
(* image never counts more entries than the list has.                      *)
(***************************************************************************)
THEOREM AddressTyped == AddressSpec => []AddressTypeOK
<1>1. AddressInv => AddressTypeOK
  BY DEF AddressInv
<1> QED
  BY <1>1, AddressInvariant, PTL

\* What the final address of an image that takes space is, when there is room.
LEMMA FinalAddress ==
  ASSUME AddressInv, outcome = "done", ~overflown, entries # 0 => Spacious,
         NEW p \in Image, Takes(p)
  PROVE  LET a == picked[p].address
             pads == PadsBefore(p)
         IN  \/ macro[p] = a /\ (bPad => PadPerEntry = 0 \/ 2 * PadPerEntry >= Word)
             \/ /\ bPad /\ PadPerEntry > 0 /\ 2 * PadPerEntry < Word
                /\ a + pads <= macro[p]
                /\ macro[p] <= a + pads + PadPerEntry
<1> DEFINE a == picked[p].address
           pads == PadsBefore(p)
           up == AlignValue(a + pads)
<1>1. AddressTypeOK /\ Below(p) /\ Listed(p) /\ list[picked[p].line].used /\ macro[p] = Address(p)
  BY DEF AddressInv, AddressesKept, Takes
<1>2. picked[p].entry \in Nat /\ a \in Nat /\ entries \in Nat /\ base \in Nat
      /\ picked[p].entry < entries /\ Word \in Nat /\ Align \in Nat \ {0}
      /\ EndAddress \in 0..(Word - 1)
  BY <1>1, LoadAddressAssumption DEF AddressTypeOK, Below, EndAddress
<1>3. PadPerEntry \in Nat
  BY <1>1, <1>2, PaddingFits
<1>4. CASE ~(bPad /\ PadPerEntry > 0 /\ 2 * PadPerEntry < Word)
  <2>1. macro[p] = a
    BY <1>1, <1>4 DEF Address
  <2> QED
    BY <1>2, <1>3, <1>4, <2>1
<1>5. CASE bPad /\ PadPerEntry > 0 /\ 2 * PadPerEntry < Word
  <2>1. pads \in Nat /\ pads + PadPerEntry <= PadPerEntry * entries
    BY <1>2, <1>3, PadsGrow DEF PadsBefore
  <2>2. base + PadPerEntry * entries <= EndAddress /\ PadPerEntry >= Align - 1
    BY <1>1, <1>2, <1>3, <1>5, PaddingFits DEF Spacious
  <2>3. list[picked[p].line] \in ListEntry
    BY <1>1 DEF AddressTypeOK, Listed
  <2>4. LengthOf(list[picked[p].line]) \in Nat
    BY <1>1, <1>2, <2>3, LengthIsNat DEF AddressTypeOK
  <2>5. a <= base
    BY <1>1, <1>2, <2>4 DEF Below
  <2>6. up \in Nat /\ a + pads <= up /\ up <= a + pads + Align - 1
    BY <1>2, <2>1, AlignBounds
  <2>7. PadPerEntry * entries \in Nat
    BY <1>2, <1>3
  <2>8. up <= a + pads + PadPerEntry
    BY <1>2, <1>3, <2>1, <2>2, <2>6
  <2>9. up \in 0..(Word - 1)
    BY <1>2, <1>3, <2>1, <2>2, <2>5, <2>6, <2>7, <2>8
  <2>10. macro[p] = up
    BY <1>1, <1>5, <2>9, WordBounds DEF Address
  <2> QED
    BY <1>5, <2>6, <2>8, <2>10
<1> QED
  BY <1>4, <1>5

(***************************************************************************)
(* However many projects share the address space and whatever their        *)
(* lengths: two that take space never get areas that overlap, if what is   *)
(* left is nothing or enough to round every address up.                    *)
(***************************************************************************)
THEOREM AreasAreDisjoint == AddressSpec => []AreasDisjoint
<1>1. AddressInv => AreasDisjoint
  <2> SUFFICES ASSUME AddressInv, outcome = "done", ~overflown, entries # 0 => Spacious,
                      NEW p \in Image, NEW q \in Image, Takes(p), Takes(q),
                      picked[p].line < picked[q].line
               PROVE  macro[p] + LengthOf(list[picked[p].line]) <= macro[q]
    BY DEF AreasDisjoint
  <2> DEFINE length == LengthOf(list[picked[p].line])
  <2>1. AddressTypeOK /\ Before(p, q) /\ Below(p) /\ Below(q) /\ Listed(p) /\ Listed(q)
    BY DEF AddressInv, Takes
  <2>2. /\ picked[p].entry \in Nat /\ picked[q].entry \in Nat
        /\ picked[p].address \in Nat /\ picked[q].address \in Nat
        /\ macro[p] \in Nat /\ macro[q] \in Nat /\ entries \in Nat
    BY <2>1, LoadAddressAssumption DEF AddressTypeOK
  <2>3. list[picked[p].line] \in ListEntry
    BY <2>1 DEF AddressTypeOK, Listed
  <2>4. length \in Nat
    BY <2>1, <2>3, LengthIsNat, LoadAddressAssumption DEF AddressTypeOK
  <2>5. picked[p].entry < picked[q].entry /\ picked[p].address + length <= picked[q].address
    BY <2>1 DEF Before
  <2>6. entries # 0
    BY <2>1, <2>2 DEF Below, Takes
  <2>7. PadPerEntry \in Nat
    BY <2>1, <2>6, PaddingFits
  <2>8. PadsBefore(p) \in Nat /\ PadsBefore(p) + PadPerEntry <= PadsBefore(q)
        /\ PadsBefore(q) \in Nat
    BY <2>2, <2>5, <2>7, PadsGrow DEF PadsBefore
  <2>9. \/ macro[p] = picked[p].address /\ (bPad => PadPerEntry = 0 \/ 2 * PadPerEntry >= Word)
        \/ /\ bPad /\ PadPerEntry > 0 /\ 2 * PadPerEntry < Word
           /\ macro[p] <= picked[p].address + PadsBefore(p) + PadPerEntry
    BY FinalAddress
  <2>10. \/ macro[q] = picked[q].address /\ (bPad => PadPerEntry = 0 \/ 2 * PadPerEntry >= Word)
         \/ /\ bPad /\ PadPerEntry > 0 /\ 2 * PadPerEntry < Word
            /\ picked[q].address + PadsBefore(q) <= macro[q]
    BY FinalAddress
  <2>11. CASE bPad /\ PadPerEntry > 0 /\ 2 * PadPerEntry < Word
    <3>1. Word \in Nat
      BY LoadAddressAssumption
    <3>2. macro[p] <= picked[p].address + PadsBefore(p) + PadPerEntry
          /\ picked[q].address + PadsBefore(q) <= macro[q]
      BY <2>7, <2>9, <2>10, <2>11, <3>1
    <3> QED
      BY <2>2, <2>4, <2>5, <2>7, <2>8, <3>2
  <2>12. CASE ~(bPad /\ PadPerEntry > 0 /\ 2 * PadPerEntry < Word)
    BY <2>5, <2>9, <2>10, <2>12
  <2> QED
    BY <2>11, <2>12
<1> QED
  BY <1>1, AddressInvariant, PTL

(***************************************************************************)
(* A padded area ends at the limit of its address space at the latest.     *)
(***************************************************************************)
THEOREM AreasEndBelowLimit == AddressSpec => []AreasBelowLimit
<1>1. AddressInv => AreasBelowLimit
  <2> SUFFICES ASSUME AddressInv, outcome = "done", bPad, ~overflown,
                      entries # 0 => Spacious, NEW p \in Image, Takes(p)
               PROVE  macro[p] + LengthOf(list[picked[p].line]) <= EndAddress
    BY DEF AreasBelowLimit
  <2> DEFINE length == LengthOf(list[picked[p].line])
  <2>1. AddressTypeOK /\ Below(p) /\ Listed(p) /\ list[picked[p].line].used
    BY DEF AddressInv, Takes
  <2>2. /\ picked[p].entry \in Nat /\ picked[p].address \in Nat
        /\ macro[p] \in Nat /\ entries \in Nat /\ base \in Nat /\ EndAddress \in Int
    BY <2>1, LoadAddressAssumption DEF AddressTypeOK, EndAddress
  <2>3. list[picked[p].line] \in ListEntry
    BY <2>1 DEF AddressTypeOK, Listed
  <2>4. length \in Nat
    BY <2>1, <2>3, LengthIsNat, LoadAddressAssumption DEF AddressTypeOK
  <2>5. picked[p].entry < entries /\ picked[p].address + length <= base
    BY <2>1 DEF Below
  <2>6. base <= EndAddress
    BY <2>2, <2>5 DEF Spacious
  <2>7. PadPerEntry \in Nat /\ base + PadPerEntry * entries <= EndAddress
    BY <2>1, <2>2, <2>5, <2>6, PaddingFits
  <2>8. PadsBefore(p) \in Nat /\ PadsBefore(p) + PadPerEntry <= PadPerEntry * entries
    BY <2>2, <2>5, <2>7, PadsGrow DEF PadsBefore
  <2>9. macro[p] = picked[p].address
          \/ macro[p] <= picked[p].address + PadsBefore(p) + PadPerEntry
    BY FinalAddress
  <2>10. PadPerEntry * entries \in Nat
    BY <2>2, <2>7
  <2> QED
    BY <2>2, <2>4, <2>5, <2>6, <2>7, <2>8, <2>9, <2>10
<1> QED
  BY <1>1, AddressInvariant, PTL

(***************************************************************************)
(* Every area that the keywords hand out fits: padded or not, aligned or   *)
(* not, for every list that leaves the space it promises.                  *)
(***************************************************************************)
THEOREM AreasAllFit == AddressSpec => []AreasFit
BY AreasAreDisjoint, AreasEndBelowLimit, PTL DEF AreasFit

-----------------------------------------------------------------------------
(***************************************************************************)
(* Proofs about a run, for any projects, scripts and games: every pass of  *)
(* IterateTargetProjects visits the same slots, a slot being a place in    *)
(* m_TargetProjects, one script of that project and, if the script names   *)
(* games, one game.  What the current pass has left behind is what its     *)
(* visitor has collected.                                                  *)
(***************************************************************************)
Slot == [at : 1..Len(target), script : Nat \ {0}, game : 1..(Len(Games) + 1)]

ScriptOf(s) == scripts[target[s.at]][s.script]

\* The game of a slot: its number in Games, and 1 if the script names no game.
GameOf(s) == IF ScriptOf(s).hasGame THEN Games[s.game] ELSE NoGame

NodeAt(f, s) ==
  [phase |-> f, project |-> target[s.at], script |-> s.script, game |-> GameOf(s)]

\* The slots that the condition of the script lets through in phase f.
Qualifies(f, s) ==
  /\ s.script <= Len(scripts[target[s.at]])
  /\ f \in ScriptOf(s).phases
  /\ IF ScriptOf(s).hasGame
     THEN s.game <= Len(Games) /\ Games[s.game] \in wanted \cap ScriptOf(s).games
     ELSE s.game = 1

Slots(f) == {s \in Slot : Qualifies(f, s)}

\* The position has moved past slot s.
Behind(s) ==
  \/ s.at < position.project
  \/ s.at = position.project /\ s.script < position.script
  \/ s.at = position.project /\ s.script = position.script /\ s.game < position.game

Passed == {s \in Slots(phase) : Behind(s)}

NodesOf(f, S) == {NodeAt(f, s) : s \in S}

Earlier == IF phase = 2 THEN NodesOf(1, Slots(1)) ELSE {}

RunTypeInv ==
  /\ RunTypeOK
  /\ scripts \in [ProjectIndex -> Seq(ScriptEntry)]
  /\ target \in Seq(ProjectIndex)
  /\ Once(target)
  /\ wanted \in SUBSET Game
  /\ twoPhase \in BOOLEAN /\ mksln \in BOOLEAN

\* Every file of the slots S of phase f is a project of that phase in the list.
HasFiles(seq, f, S) ==
  \A s \in S : \E k \in 1..Len(seq) : seq[k].phase = f /\ SameFile(seq[k], NodeAt(f, s))

BuiltInv ==
  /\ Once(built)
  /\ stage \in {"start", "simulate"} => Elements(built) = Earlier
  /\ stage = "build" => Elements(built) = Earlier \cup NodesOf(phase, Passed)
  /\ stage \in {"graph", "translate", "built", "done"} =>
       Elements(built) = Earlier \cup NodesOf(phase, Slots(phase))

GraphInv ==
  /\ stage \in {"start", "simulate", "build"} => graphs["member"] = << >>
  /\ stage = "graph" => Elements(graphs["member"]) = NodesOf(phase, Passed)
  /\ stage = "translate" => Elements(graphs["member"]) = NodesOf(phase, Slots(phase))

HandOverInv ==
  /\ stage # "error"
  /\ stage \notin {"translate", "done"} => solution = << >>
  /\ stage = "translate" => HasFiles(solution, phase, Passed)
  /\ stage = "done" /\ solution # << >> =>
       \A f \in IF twoPhase THEN Phase ELSE {1} : HasFiles(solution, f, Slots(f))
  /\ stage \in {"graph", "translate"} => mksln
  /\ phase = 1 /\ stage # "built" => phase1 = << >>
  /\ ~(mksln /\ twoPhase) => phase1 = << >>
  /\ mksln /\ twoPhase /\ (phase = 2 \/ stage = "built") => HasFiles(phase1, 1, Slots(1))

ControlInv ==
  /\ phase = 2 => twoPhase
  /\ stage \in {"start", "build", "graph", "translate"} => defined = wanted
  /\ InScript /\ ~CurrentScript.hasGame => position.game = 1
  /\ stage = "done" /\ twoPhase => phase = 2

RunInv == RunTypeInv /\ ControlInv /\ BuiltInv /\ GraphInv /\ HandOverInv

-----------------------------------------------------------------------------
LEMMA ElementsTyped ==
  ASSUME NEW S, NEW s \in Seq(S)
  PROVE  Elements(s) \subseteq S
BY DEF Elements

LEMMA ElementsAppended ==
  ASSUME NEW S, NEW s \in Seq(S), NEW e \in S
  PROVE  /\ Elements(Append(s, e)) = Elements(s) \cup {e}
         /\ Once(s) /\ e \notin Elements(s) => Once(Append(s, e))
<1>1. /\ Len(s) \in Nat /\ Len(Append(s, e)) = Len(s) + 1
      /\ \A k \in 1..Len(s) : Append(s, e)[k] = s[k]
      /\ Append(s, e)[Len(s) + 1] = e
  BY AppendProperties
<1> DEFINE t == Append(s, e)
<1> HIDE DEF t
<1>2. Elements(t) = Elements(s) \cup {e}
  <2>1. 1..Len(t) = 1..Len(s) \cup {Len(s) + 1}
    BY <1>1 DEF t
  <2> QED
    BY <1>1, <2>1 DEF Elements, t
<1>3. ASSUME Once(s), e \notin Elements(s)
      PROVE  Once(t)
  <2> SUFFICES ASSUME NEW j \in 1..Len(t), NEW k \in 1..Len(t), t[j] = t[k]
               PROVE  j = k
    BY DEF Once
  <2>1. \A m \in 1..Len(s) : t[m] = s[m] /\ s[m] \in Elements(s)
    BY <1>1 DEF Elements, t
  <2>2. Len(t) = Len(s) + 1 /\ t[Len(s) + 1] = e
    BY <1>1 DEF t
  <2>3. \A m \in 1..Len(t) : m \in 1..Len(s) \/ m = Len(s) + 1
    BY <1>1, <2>2
  <2> QED
    BY <1>3, <2>1, <2>2, <2>3 DEF Once
<1> QED
  BY <1>2, <1>3 DEF t

LEMMA GamesTyped == Games \in Seq(Game) /\ Projects \in Seq(ProjectIndex)
                    /\ \A k \in 1..Len(Games) : Games[k] \in Game
BY SolutionRunAssumption

\* Where a pass is when it visits a script.
LEMMA AtScript ==
  ASSUME RunTypeInv, InScript
  PROVE  /\ position.project \in 1..Len(List) /\ Current \in ProjectIndex
         /\ position.script \in 1..Len(scripts[Current]) /\ CurrentScript \in ScriptEntry
         /\ position.script \in Nat \ {0}
<1>1. position.project \in Nat \ {0} /\ position.script \in Nat \ {0}
  BY DEF RunTypeInv, RunTypeOK
<1>2. List \in Seq(ProjectIndex)
  BY GamesTyped DEF RunTypeInv, List
<1>3. position.project \in 1..Len(List)
  BY <1>1, <1>2 DEF InScript, InLoop
<1>4. Current \in ProjectIndex
  BY <1>2, <1>3 DEF Current
<1>5. scripts[Current] \in Seq(ScriptEntry)
  BY <1>4 DEF RunTypeInv
<1>6. position.script \in 1..Len(scripts[Current])
  BY <1>1, <1>5 DEF InScript
<1>7. CurrentScript \in ScriptEntry
  BY <1>5, <1>6 DEF CurrentScript
<1> QED
  BY <1>1, <1>3, <1>4, <1>6, <1>7

LEMMA NodeTyped ==
  ASSUME RunTypeInv, InScript, NEW game \in Game \cup {NoGame}
  PROVE  NodeOf(game) \in Node
BY AtScript DEF NodeOf, Node, RunTypeInv, RunTypeOK

\* What one visit may change.
LEMMA VisitTyped ==
  ASSUME RunTypeInv, InScript, NEW game \in Game \cup {NoGame}, NEW games,
         BuildTargetProject(game, games)
  PROVE  /\ stage' \in Stage /\ qualified' \in BOOLEAN
         /\ graphs' \in [Graph -> Seq(Node)]
         /\ built' \in Seq(Node) /\ phase1' \in Seq(Node) /\ solution' \in Seq(Node)
<1> DEFINE n == NodeOf(game)
<1>1. n \in Node
  BY NodeTyped
<1>2. qualified' \in BOOLEAN
  BY Zenon DEF BuildTargetProject, RunTypeInv, RunTypeOK
<1> HIDE DEF n
<1> USE DEF RunTypeInv, RunTypeOK
<1>3. CASE VisitBuild(n)
  BY <1>1, <1>2, <1>3, AppendProperties DEF VisitBuild
<1>4. CASE VisitGraph(n)
  <2>1. ASSUME NEW g \in Graph
        PROVE  Append(graphs[g], n) \in Seq(Node)
    BY <1>1, <2>1, AppendProperties
  <2>2. graphs' \in [Graph -> Seq(Node)]
    BY <1>4, <2>1 DEF VisitGraph, Graph
  <2> QED
    BY <1>2, <1>4, <2>2 DEF VisitGraph
<1>5. CASE VisitTranslate(n)
  <2>1. graphs["member"] \in Seq(Node)
    BY DEF Graph
  <2>2. \A k \in 1..Len(graphs["member"]) : Append(solution, graphs["member"][k]) \in Seq(Node)
    BY <2>1, AppendProperties
  <2>3. solution' \in Seq(Node) /\ stage' \in Stage
    BY <1>5, <2>2 DEF VisitTranslate, Stage
  <2> QED
    BY <1>2, <1>5, <2>3 DEF VisitTranslate
<1>6. CASE UNCHANGED <<stage, qualified, results>>
  BY <1>2, <1>6 DEF results
<1> QED
  BY <1>3, <1>4, <1>5, <1>6 DEF BuildTargetProject, n

LEMMA RunInitTyped == RunInit => RunTypeInv
<1> SUFFICES ASSUME RunInit PROVE RunTypeInv
  OBVIOUS
<1>1. twoPhase \in BOOLEAN /\ mksln \in BOOLEAN /\ qualified \in BOOLEAN
  BY Zenon DEF RunInit
<1>2. /\ stage \in Stage /\ phase \in Phase /\ graphs \in [Graph -> Seq(Node)]
      /\ position \in [project : Nat \ {0}, script : Nat \ {0}, game : Nat \ {0}]
      /\ built \in Seq(Node) /\ phase1 \in Seq(Node) /\ solution \in Seq(Node)
  BY DEF RunInit, Stage, Phase, StartPosition
<1> QED
  BY <1>1, <1>2 DEF RunInit, RunTypeInv, RunTypeOK

\* A step within a pass keeps what it does not visit.
LEMMA IterateTyped ==
  ASSUME RunTypeInv, Iterate
  PROVE  RunTypeInv'
<1> USE DEF RunTypeInv, RunTypeOK
<1>1. UNCHANGED <<input, phase, defined>>
  BY DEF Iterate, NextProject, PlainScript, GamesExhausted, SkipGame, GameScript
<1>2. position' \in [project : Nat \ {0}, script : Nat \ {0}, game : Nat \ {0}]
  <2> DEFINE P == [project : Nat \ {0}, script : Nat \ {0}, game : Nat \ {0}]
  <2>1. [project |-> position.project + 1, script |-> 1, game |-> 1] \in P
    OBVIOUS
  <2>5. position.script + 1 \in Nat \ {0} /\ position.game + 1 \in Nat \ {0} /\ 1 \in Nat \ {0}
    OBVIOUS
  <2> DEFINE k == position.script + 1
             g == position.game + 1
  <2>6. position \in P /\ k \in Nat \ {0} /\ g \in Nat \ {0}
    BY <2>5
  <2> HIDE DEF k, g
  <2>2. [position EXCEPT !.script = k] \in P
    BY <2>6
  <2>3. [position EXCEPT !.script = k, !.game = 1] \in P
    <3> DEFINE q == [position EXCEPT !.script = k]
               first == 1
    <3>1. q \in P /\ first \in Nat \ {0}
      BY <2>2
    <3> HIDE DEF q, first
    <3>2. [q EXCEPT !.game = first] \in P
      BY <3>1
    <3>3. [position EXCEPT !.script = k, !.game = 1] = [q EXCEPT !.game = first]
      BY DEF q, first
    <3> QED
      BY <3>2, <3>3
  <2>4. [position EXCEPT !.game = g] \in P
    BY <2>6
  <2> HIDE DEF P
  <2> QED
    BY <2>1, <2>2, <2>3, <2>4
       DEF Iterate, NextProject, PlainScript, GamesExhausted, SkipGame, GameScript, P, k, g
<1>3. active' \subseteq Game
  BY GamesTyped
     DEF Iterate, NextProject, PlainScript, GamesExhausted, SkipGame, GameScript, Activate
<1>4. /\ stage' \in Stage /\ qualified' \in BOOLEAN /\ graphs' \in [Graph -> Seq(Node)]
      /\ built' \in Seq(Node) /\ phase1' \in Seq(Node) /\ solution' \in Seq(Node)
  <2>1. CASE UNCHANGED <<stage, qualified, results>>
    <3>1. qualified' \in BOOLEAN
      BY <2>1, Zenon
    <3> QED
      BY <2>1, <3>1 DEF results
  <2>2. CASE PlainScript
    BY <2>2, VisitTyped DEF PlainScript
  <2>3. CASE GameScript
    <3>1. InScript /\ Games[position.game] \in Game
      BY <2>3, GamesTyped DEF GameScript
    <3>2. BuildTargetProject(Games[position.game], active' \cap defined)
      BY <2>3 DEF GameScript
    <3> QED
      BY <3>1, <3>2, VisitTyped
  <2> QED
    BY <2>1, <2>2, <2>3 DEF Iterate, NextProject, GamesExhausted, SkipGame
<1>5. twoPhase' \in BOOLEAN /\ mksln' \in BOOLEAN
  BY <1>1, Zenon DEF input
<1> QED
  BY <1>1, <1>2, <1>3, <1>4, <1>5 DEF input

LEMMA StageTyped ==
  ASSUME RunTypeInv,
         \/ StartSimulation \/ EndSimulation \/ StartBuild \/ EndBuild
         \/ EndGraph \/ EndTranslate \/ SecondPhase \/ Exit
  PROVE  RunTypeInv'
<1> USE DEF RunTypeInv, RunTypeOK
<1> DEFINE P == [project : Nat \ {0}, script : Nat \ {0}, game : Nat \ {0}]
<1>1. UNCHANGED input /\ UNCHANGED built
  BY DEF StartSimulation, EndSimulation, StartBuild, EndBuild, EndGraph, EndTranslate,
     SecondPhase, Exit, results
<1>2. twoPhase' \in BOOLEAN /\ mksln' \in BOOLEAN
  BY <1>1, Zenon DEF input
<1>3. qualified' \in BOOLEAN
  BY Zenon DEF StartSimulation, EndSimulation, StartBuild, EndBuild, EndGraph, EndTranslate,
     SecondPhase, Exit, BeginPass
<1>4. StartPosition \in P
  BY DEF StartPosition
<1>5. position' \in P
  <2> HIDE DEF P
  <2>1. position \in P
    BY DEF P
  <2> QED
    BY <1>4, <2>1 DEF StartSimulation, EndSimulation, StartBuild, EndBuild, EndGraph,
       EndTranslate, SecondPhase, Exit, BeginPass
<1>6. stage' \in Stage /\ phase' \in Phase
  BY DEF StartSimulation, EndSimulation, StartBuild, EndBuild, EndGraph, EndTranslate,
     SecondPhase, Exit, BeginPass, Stage, Passes, Phase
<1>7. defined' \subseteq Game /\ active' \subseteq Game
  BY DEF StartSimulation, EndSimulation, StartBuild, EndBuild, EndGraph, EndTranslate,
     SecondPhase, Exit
<1>9. graphs' \in [Graph -> Seq(Node)]
  <2>1. graphs' = graphs \/ graphs' = [g \in Graph |-> << >>]
    BY DEF StartSimulation, EndSimulation, StartBuild, EndBuild, EndGraph, EndTranslate,
       SecondPhase, Exit, results
  <2>2. << >> \in Seq(Node)
    OBVIOUS
  <2>3. [g \in Graph |-> << >>] \in [Graph -> Seq(Node)]
    BY <2>2, Zenon
  <2>4. graphs \in [Graph -> Seq(Node)]
    OBVIOUS
  <2> QED
    BY <2>1, <2>3, <2>4, Zenon
<1>8. phase1' \in Seq(Node) /\ solution' \in Seq(Node)
  <2>1. solution \o phase1 \in Seq(Node) /\ << >> \in Seq(Node)
    BY ConcatProperties
  <2> QED
    BY <2>1 DEF StartSimulation, EndSimulation, StartBuild, EndBuild, EndGraph, EndTranslate,
       SecondPhase, Exit, results
<1> QED
  BY <1>1, <1>2, <1>3, <1>5, <1>6, <1>7, <1>8, <1>9 DEF input

LEMMA RunStepTyped == RunTypeInv /\ [RunNext]_runVars => RunTypeInv'
<1> SUFFICES ASSUME RunTypeInv, [RunNext]_runVars
             PROVE  RunTypeInv'
  OBVIOUS
<1>1. CASE UNCHANGED runVars
  <2>1. qualified' \in BOOLEAN /\ twoPhase' \in BOOLEAN /\ mksln' \in BOOLEAN
    BY <1>1, Zenon DEF runVars, input, RunTypeInv, RunTypeOK
  <2> QED
    BY <1>1, <2>1 DEF runVars, input, results, RunTypeInv, RunTypeOK
<1>2. CASE RunNext
  BY <1>1, <1>2, IterateTyped, StageTyped DEF RunNext, RunStep, RunEnded
<1> QED
  BY <1>1, <1>2

(***************************************************************************)
(* The position, the graphs and the lists of a run keep their types.       *)
(***************************************************************************)
THEOREM RunTyped == RunSpec => []RunTypeOK
<1>1. RunTypeInv => RunTypeOK
  BY DEF RunTypeInv
<1> QED
  BY RunInitTyped, RunStepTyped, <1>1, PTL DEF RunSpec

-----------------------------------------------------------------------------
LEMMA SlotTyped ==
  ASSUME RunTypeInv, NEW f, NEW s \in Slots(f)
  PROVE  /\ s.at \in 1..Len(target) /\ s.script \in Nat \ {0} /\ s.game \in 1..(Len(Games) + 1)
         /\ target[s.at] \in ProjectIndex /\ s.script \in 1..Len(scripts[target[s.at]])
         /\ ScriptOf(s) \in ScriptEntry
         /\ s = [at |-> s.at, script |-> s.script, game |-> s.game]
         /\ GameOf(s) \in Game \cup {NoGame} /\ (ScriptOf(s).hasGame <=> GameOf(s) # NoGame)
<1>1. s \in Slot /\ Qualifies(f, s)
  BY DEF Slots
<1>2. /\ s.at \in 1..Len(target) /\ s.script \in Nat \ {0} /\ s.game \in 1..(Len(Games) + 1)
      /\ s = [at |-> s.at, script |-> s.script, game |-> s.game]
  BY <1>1 DEF Slot
<1>3. target[s.at] \in ProjectIndex
  BY <1>2 DEF RunTypeInv
<1>4. s.script \in 1..Len(scripts[target[s.at]])
  BY <1>1, <1>2, <1>3 DEF Qualifies, RunTypeInv
<1>5. ScriptOf(s) \in ScriptEntry
  BY <1>3, <1>4 DEF ScriptOf, RunTypeInv
<1>6. GameOf(s) \in Game \cup {NoGame} /\ (ScriptOf(s).hasGame <=> GameOf(s) # NoGame)
  <2>1. CASE ScriptOf(s).hasGame
    <3>1. Games[s.game] \in Game
      BY <1>1, <1>2, <2>1, GamesTyped DEF Qualifies
    <3> QED
      BY <2>1, <3>1, SolutionRunAssumption DEF GameOf
  <2>2. CASE ~ScriptOf(s).hasGame
    BY <2>2 DEF GameOf
  <2> QED
    BY <2>1, <2>2
<1> QED
  BY <1>2, <1>3, <1>4, <1>5, <1>6

LEMMA NodeFields ==
  ASSUME NEW f, NEW s
  PROVE  /\ NodeAt(f, s).phase = f /\ NodeAt(f, s).project = target[s.at]
         /\ NodeAt(f, s).script = s.script /\ NodeAt(f, s).game = GameOf(s)
BY DEF NodeAt

\* No two slots are the same project, script and game.
LEMMA SlotOfNode ==
  ASSUME RunTypeInv, NEW f, NEW s \in Slots(f), NEW t \in Slots(f), NodeAt(f, s) = NodeAt(f, t)
  PROVE  s = t
<1>1. target[s.at] = target[t.at] /\ s.script = t.script /\ GameOf(s) = GameOf(t)
  BY NodeFields
<1>2. s.at = t.at
  BY <1>1, SlotTyped DEF RunTypeInv, Once
<1>3. ScriptOf(s) = ScriptOf(t)
  BY <1>1, <1>2 DEF ScriptOf
<1>4. s.game = t.game
  <2>1. CASE ScriptOf(s).hasGame
    <3>1. s.game \in 1..Len(Games) /\ t.game \in 1..Len(Games) /\ Games[s.game] = Games[t.game]
      BY <1>1, <1>3, <2>1, SlotTyped, GamesTyped DEF Slots, Qualifies, GameOf
    <3> QED
      BY <3>1, SolutionRunAssumption DEF Once
  <2>2. CASE ~ScriptOf(s).hasGame
    BY <1>3, <2>2 DEF Slots, Qualifies
  <2> QED
    BY <2>1, <2>2
<1> QED
  BY <1>1, <1>2, <1>4, SlotTyped

\* The slots are what the command line asks for.
LEMMA SlotsAreAsked ==
  ASSUME RunTypeInv, NEW f \in Phase
  PROVE  AskedIn(f) = NodesOf(f, Slots(f))
<1>1. ASSUME NEW s \in Slots(f)
      PROVE  NodeAt(f, s) \in AskedIn(f)
  <2>1. target[s.at] \in Elements(target) /\ s.script \in 1..Len(scripts[target[s.at]])
    BY SlotTyped DEF Elements
  <2>2. GameOf(s) \in GamesAsked(f, scripts[target[s.at]][s.script])
    BY DEF Slots, Qualifies, GamesAsked, GameOf, ScriptOf
  <2>3. NodeAt(f, s) \in AskedOf(f, target[s.at])
    <3> DEFINE p == target[s.at]
               Asked(k) == {[phase |-> f, project |-> p, script |-> k, game |-> g] :
                              g \in GamesAsked(f, scripts[p][k])}
    <3>1. NodeAt(f, s) \in Asked(s.script)
      BY <2>2 DEF NodeAt
    <3>2. AskedOf(f, p) = UNION {Asked(k) : k \in 1..Len(scripts[p])}
      BY DEF AskedOf
    <3> HIDE DEF Asked, p
    <3>3. s.script \in 1..Len(scripts[p])
      BY <2>1 DEF p
    <3>4. NodeAt(f, s) \in AskedOf(f, p)
      BY <3>1, <3>2, <3>3
    <3> QED
      BY <3>4 DEF p
  <2> QED
    BY <2>1, <2>3 DEF AskedIn
<1>2. ASSUME NEW n \in AskedIn(f)
      PROVE  \E s \in Slots(f) : n = NodeAt(f, s)
  <2>1. PICK p \in Elements(target) : n \in AskedOf(f, p)
    BY <1>2 DEF AskedIn
  <2>2. PICK a \in 1..Len(target) : p = target[a]
    BY <2>1 DEF Elements
  <2>3. p \in ProjectIndex /\ scripts[p] \in Seq(ScriptEntry)
    BY <2>2 DEF RunTypeInv
  <2>4. PICK k \in 1..Len(scripts[p]) : \E g \in GamesAsked(f, scripts[p][k]) :
          n = [phase |-> f, project |-> p, script |-> k, game |-> g]
    BY <2>1 DEF AskedOf
  <2>5. PICK g \in GamesAsked(f, scripts[p][k]) :
          n = [phase |-> f, project |-> p, script |-> k, game |-> g]
    BY <2>4
  <2>6. k \in Nat \ {0}
    BY <2>3
  <2>7. f \in scripts[p][k].phases
    BY <2>5 DEF GamesAsked
  <2>8. CASE scripts[p][k].hasGame
    <3>1. g \in wanted \cap scripts[p][k].games /\ g \in Game
      BY <2>5, <2>7, <2>8 DEF GamesAsked, RunTypeInv
    <3>2. PICK m \in 1..Len(Games) : g = Games[m]
      BY <3>1 DEF Game, Elements
    <3> DEFINE s == [at |-> a, script |-> k, game |-> m]
    <3>3. m \in 1..(Len(Games) + 1) /\ m <= Len(Games)
      BY <3>2, GamesTyped
    <3>4. s \in Slot /\ s.at = a /\ s.script = k /\ s.game = m
      BY <2>6, <3>3 DEF Slot
    <3> HIDE DEF s
    <3>5. ScriptOf(s) = scripts[p][k] /\ GameOf(s) = g
      BY <2>2, <2>8, <3>2, <3>4 DEF ScriptOf, GameOf
    <3>6. s \in Slots(f)
      BY <2>2, <2>3, <2>4, <2>7, <2>8, <3>1, <3>2, <3>3, <3>4, <3>5 DEF Slots, Qualifies
    <3> QED
      BY <2>2, <2>5, <3>4, <3>5, <3>6 DEF NodeAt
  <2>9. CASE ~scripts[p][k].hasGame
    <3> DEFINE s == [at |-> a, script |-> k, game |-> 1]
    <3>3. 1 \in 1..(Len(Games) + 1)
      BY GamesTyped
    <3>4. s \in Slot /\ s.at = a /\ s.script = k /\ s.game = 1
      BY <2>6, <3>3 DEF Slot
    <3> HIDE DEF s
    <3>5. ScriptOf(s) = scripts[p][k] /\ GameOf(s) = NoGame /\ g = NoGame
      BY <2>2, <2>5, <2>7, <2>9, <3>4 DEF ScriptOf, GameOf, GamesAsked
    <3>6. s \in Slots(f)
      BY <2>2, <2>3, <2>4, <2>7, <2>9, <3>4, <3>5 DEF Slots, Qualifies
    <3> QED
      BY <2>2, <2>5, <3>4, <3>5, <3>6 DEF NodeAt
  <2> QED
    BY <2>8, <2>9
<1> QED
  BY <1>1, <1>2 DEF NodesOf

-----------------------------------------------------------------------------
Here == [at |-> position.project, script |-> position.script, game |-> position.game]

LEMMA SlotsKept ==
  ASSUME UNCHANGED <<input, phase>>
  PROVE  /\ \A f : Slots(f)' = Slots(f)
         /\ \A f, S : NodesOf(f, S)' = NodesOf(f, S)
         /\ \A f, s : NodeAt(f, s)' = NodeAt(f, s)
         /\ Earlier' = Earlier /\ (\A s : ScriptOf(s)' = ScriptOf(s))
BY DEF input, Slots, Slot, Qualifies, ScriptOf, NodesOf, NodeAt, GameOf, Earlier

\* The place of a pass in one of the target projects.
LEMMA PlaceTyped ==
  ASSUME RunTypeInv, stage # "simulate", InScript
  PROVE  /\ Here.at = position.project /\ Here.script = position.script
         /\ Here.game = position.game
         /\ Here.at \in 1..Len(target) /\ Here.script \in Nat \ {0}
         /\ target[Here.at] = Current /\ ScriptOf(Here) = CurrentScript
         /\ position.script <= Len(scripts[Current])
<1>1. /\ Here.at = position.project /\ Here.script = position.script
      /\ Here.game = position.game
  BY DEF Here
<1>2. List = target
  BY DEF List
<1> QED
  BY <1>1, <1>2, AtScript DEF Current, CurrentScript, ScriptOf

LEMMA PositionTyped ==
  ASSUME RunTypeInv
  PROVE  /\ position.project \in Nat \ {0} /\ position.script \in Nat \ {0}
         /\ position.game \in Nat \ {0}
         /\ position \in [project : Nat \ {0}, script : Nat \ {0}, game : Nat \ {0}]
BY DEF RunTypeInv, RunTypeOK

LEMMA PassedChanged ==
  ASSUME UNCHANGED <<input, phase>>, NEW S,
         \A s \in Slots(phase) : Behind(s)' <=> Behind(s) \/ s \in S
  PROVE  Passed' = Passed \cup (S \cap Slots(phase))
<1>1. Slots(phase)' = Slots(phase)
  BY SlotsKept
<1> QED
  BY <1>1 DEF Passed

\* To the next project: all of this one's scripts are behind.
LEMMA NextProjectPasses ==
  ASSUME RunTypeInv, stage # "simulate", NextProject
  PROVE  Passed' = Passed
<1>1. UNCHANGED <<input, phase>> /\ position.script > Len(scripts[Current])
      /\ position'.project = position.project + 1 /\ position'.script = 1
      /\ position'.game = 1 /\ List = target
  BY DEF NextProject, List
<1>2. ASSUME NEW s \in Slots(phase)
      PROVE  Behind(s)' <=> Behind(s)
  <2>1. /\ s.at \in Nat /\ s.script \in Nat \ {0} /\ s.game \in Nat \ {0}
        /\ s.script \in 1..Len(scripts[target[s.at]])
        /\ scripts[target[s.at]] \in Seq(ScriptEntry)
    BY SlotTyped, GamesTyped DEF RunTypeInv
  <2>2. s.at = position.project => s.script < position.script
    BY <1>1, <2>1, PositionTyped DEF Current
  <2> QED
    BY <1>1, <2>1, <2>2, PositionTyped DEF Behind
<1> QED
  BY <1>1, <1>2, SlotsKept DEF Passed

LEMMA GamesExhaustedPasses ==
  ASSUME RunTypeInv, stage # "simulate", GamesExhausted
  PROVE  Passed' = Passed
<1>1. UNCHANGED <<input, phase>> /\ InScript /\ CurrentScript.hasGame
      /\ position.game > Len(Games)
      /\ position' = [position EXCEPT !.script = @ + 1, !.game = 1]
  BY DEF GamesExhausted
<1>2. position'.project = position.project /\ position'.script = position.script + 1
      /\ position'.game = 1
  BY <1>1, PositionTyped
<1>3. ASSUME NEW s \in Slots(phase)
      PROVE  Behind(s)' <=> Behind(s)
  <2>1. s.at \in Nat /\ s.script \in Nat \ {0} /\ s.game \in Nat \ {0}
    BY SlotTyped, GamesTyped
  <2>2. s.at = position.project /\ s.script = position.script => s.game < position.game
    <3> SUFFICES ASSUME s.at = position.project, s.script = position.script
                 PROVE  s.game < position.game
      OBVIOUS
    <3>1. ScriptOf(s) = CurrentScript
      BY <1>1, PlaceTyped DEF ScriptOf
    <3>2. s.game <= Len(Games)
      BY <1>1, <3>1 DEF Slots, Qualifies
    <3> QED
      BY <1>1, <2>1, <3>2, PositionTyped, GamesTyped
  <2> QED
    BY <1>2, <2>1, <2>2, PositionTyped DEF Behind
<1> QED
  BY <1>1, <1>3, SlotsKept DEF Passed

\* One game of a script, visited or skipped.
LEMMA GamePasses ==
  ASSUME RunTypeInv, stage # "simulate", InScript, UNCHANGED <<input, phase>>,
         position' = [position EXCEPT !.game = @ + 1]
  PROVE  Passed' = Passed \cup ({Here} \cap Slots(phase))
<1>1. position'.project = position.project /\ position'.script = position.script
      /\ position'.game = position.game + 1
  BY PositionTyped
<1>2. ASSUME NEW s \in Slots(phase)
      PROVE  Behind(s)' <=> Behind(s) \/ s = Here
  <2>1. s.at \in Nat /\ s.script \in Nat \ {0} /\ s.game \in Nat \ {0}
        /\ s = [at |-> s.at, script |-> s.script, game |-> s.game]
    BY SlotTyped, GamesTyped
  <2>2. s = Here <=> /\ s.at = position.project /\ s.script = position.script
                     /\ s.game = position.game
    BY <2>1 DEF Here
  <2> QED
    BY <1>1, <2>1, <2>2, PositionTyped DEF Behind
<1> QED
  BY <1>2, PassedChanged

\* A script that names no game.
LEMMA PlainPasses ==
  ASSUME RunTypeInv, stage # "simulate", InScript, UNCHANGED <<input, phase>>,
         ~CurrentScript.hasGame, position.game = 1,
         position' = [position EXCEPT !.script = @ + 1]
  PROVE  Passed' = Passed \cup ({Here} \cap Slots(phase))
<1>1. position'.project = position.project /\ position'.script = position.script + 1
      /\ position'.game = position.game
  BY PositionTyped
<1>2. ASSUME NEW s \in Slots(phase)
      PROVE  Behind(s)' <=> Behind(s) \/ s = Here
  <2>1. s.at \in Nat /\ s.script \in Nat \ {0} /\ s.game \in Nat \ {0}
        /\ s = [at |-> s.at, script |-> s.script, game |-> s.game]
    BY SlotTyped, GamesTyped
  <2>2. s = Here <=> /\ s.at = position.project /\ s.script = position.script
                     /\ s.game = position.game
    BY <2>1 DEF Here
  <2>3. s.at = position.project /\ s.script = position.script => s.game = 1
    <3> SUFFICES ASSUME s.at = position.project, s.script = position.script
                 PROVE  s.game = 1
      OBVIOUS
    <3>1. ScriptOf(s) = CurrentScript
      BY PlaceTyped DEF ScriptOf
    <3> QED
      BY <3>1 DEF Slots, Qualifies
  <2> QED
    BY <1>1, <2>1, <2>2, <2>3, PositionTyped DEF Behind
<1> QED
  BY <1>2, PassedChanged

LEMMA NothingPassed == RunTypeInv /\ position = StartPosition => Passed = {}
<1> SUFFICES ASSUME RunTypeInv, position = StartPosition
             PROVE  Passed = {}
  OBVIOUS
<1>1. \A s \in Slots(phase) : s.at \in 1..Len(target) /\ s.script \in Nat \ {0}
                              /\ s.game \in Nat \ {0}
  BY SlotTyped, GamesTyped
<1>2. position.project = 1 /\ position.script = 1 /\ position.game = 1
  BY DEF StartPosition
<1> QED
  BY <1>1, <1>2 DEF Passed, Behind, RunTypeInv

LEMMA AllPassed ==
  ASSUME RunTypeInv, NEW pass, Ended(pass), pass # "simulate"
  PROVE  Passed = Slots(phase)
<1>1. position.project > Len(target) /\ Len(target) \in Nat /\ position.project \in Nat
  BY PositionTyped DEF Ended, List, RunTypeInv
<1>2. \A s \in Slots(phase) : s.at < position.project
  BY <1>1, SlotTyped
<1> QED
  BY <1>2 DEF Passed, Behind

-----------------------------------------------------------------------------
\* The condition of the script holds just for the slots.
LEMMA VisitIsSlot ==
  ASSUME RunTypeInv, InScript, stage # "simulate", NEW game, NEW games,
         \/ ~CurrentScript.hasGame /\ position.game = 1 /\ game = NoGame
         \/ /\ CurrentScript.hasGame /\ position.game <= Len(Games)
            /\ game = Games[position.game] /\ game \in wanted /\ games = {game}
  PROVE  /\ Holds(CurrentScript, games) <=> Here \in Slots(phase)
         /\ NodeOf(game) = NodeAt(phase, Here)
<1>1. /\ Here.at = position.project /\ Here.script = position.script
      /\ Here.game = position.game /\ position.script <= Len(scripts[Current])
      /\ Here.at \in 1..Len(target) /\ Here.script \in Nat \ {0}
      /\ target[Here.at] = Current /\ ScriptOf(Here) = CurrentScript
  BY PlaceTyped
<1>2. position.game \in 1..(Len(Games) + 1)
  BY PositionTyped, GamesTyped
<1>3. Here \in Slot
  BY <1>1, <1>2 DEF Here, Slot
<1>4. Holds(CurrentScript, games) <=> Qualifies(phase, Here)
  BY <1>1 DEF Holds, Qualifies
<1>5. GameOf(Here) = game
  BY <1>1 DEF GameOf
<1> QED
  BY <1>1, <1>3, <1>4, <1>5 DEF Slots, NodeOf, NodeAt

LEMMA SlotTypedNode ==
  ASSUME RunTypeInv, NEW f \in Phase, NEW s \in Slots(f)
  PROVE  NodeAt(f, s) \in Node
BY SlotTyped DEF NodeAt, Node

\* A step that adds nothing to any list.
LEMMA NothingVisited ==
  ASSUME RunInv, UNCHANGED <<input, phase, stage, built, phase1, solution>>,
         graphs'["member"] = graphs["member"], stage # "simulate" => Passed' = Passed
  PROVE  BuiltInv' /\ GraphInv' /\ HandOverInv'
<1> USE DEF RunInv
<1>1. /\ Earlier' = Earlier /\ Slots(phase)' = Slots(phase) /\ Slots(1)' = Slots(1)
      /\ \A f : Slots(f)' = Slots(f)
      /\ NodesOf(phase, Slots(phase))' = NodesOf(phase, Slots(phase))
      /\ stage # "simulate" => NodesOf(phase, Passed)' = NodesOf(phase, Passed)
  BY SlotsKept DEF NodesOf
<1>2. BuiltInv'
  BY <1>1 DEF BuiltInv
<1>3. GraphInv'
  BY <1>1 DEF GraphInv
<1>4. \A seq, f, S : HasFiles(seq, f, S)' <=> HasFiles(seq, f, S)
  BY SlotsKept DEF HasFiles
<1>5. HandOverInv'
  <2>1. stage = "translate" => HasFiles(solution, phase, Passed)'
    BY <1>4 DEF HandOverInv, HasFiles
  <2> QED
    BY <1>1, <1>4, <2>1 DEF HandOverInv, input
<1> QED
  BY <1>2, <1>3, <1>5

\* The place where a pass is has not been passed.
LEMMA HereIsNew ==
  ASSUME RunTypeInv, Here \in Slots(phase)
  PROVE  Here \notin Passed /\ NodeAt(phase, Here) \notin NodesOf(phase, Passed)
         /\ NodeAt(phase, Here) \notin Earlier
<1>1. Here \notin Passed
  BY PositionTyped DEF Here, Passed, Behind
<1>2. NodeAt(phase, Here) \notin NodesOf(phase, Passed)
  <2>1. \A s \in Passed : s \in Slots(phase) /\ s # Here
    BY <1>1 DEF Passed
  <2> QED
    BY <2>1, SlotOfNode DEF NodesOf
<1>3. NodeAt(phase, Here) \notin Earlier
  BY NodeFields DEF Earlier, NodesOf
<1> QED
  BY <1>1, <1>2, <1>3

LEMMA Visited ==
  ASSUME RunInv, UNCHANGED <<input, phase>>, Here \in Slots(phase), NEW n,
         n = NodeAt(phase, Here), Passed' = Passed \cup {Here},
         stage \in {"build", "graph", "translate"},
         VisitBuild(n) \/ VisitGraph(n) \/ VisitTranslate(n)
  PROVE  BuiltInv' /\ GraphInv' /\ HandOverInv'
<1> USE DEF RunInv
<1>1. /\ Earlier' = Earlier /\ \A f : Slots(f)' = Slots(f)
      /\ \A f, S : NodesOf(f, S)' = NodesOf(f, S)
      /\ \A seq, f, S : HasFiles(seq, f, S)' <=> HasFiles(seq, f, S)
  BY SlotsKept DEF HasFiles
<1>2. NodesOf(phase, Passed)' = NodesOf(phase, Passed) \cup {n}
      /\ NodesOf(phase, Slots(phase))' = NodesOf(phase, Slots(phase))
  BY <1>1 DEF NodesOf, NodeAt, ScriptOf, GameOf, input
<1>3. n \in Node
  BY SlotTypedNode DEF RunTypeInv, RunTypeOK
<1>4. n \notin NodesOf(phase, Passed) /\ n \notin Earlier
  BY HereIsNew
<1>5. CASE stage = "build"
  <2>1. built' = Append(built, n) /\ UNCHANGED <<stage, graphs, phase1, solution>>
    BY <1>5 DEF VisitBuild, VisitGraph, VisitTranslate
  <2>2. Elements(built') = Elements(built) \cup {n}
        /\ (Once(built) /\ n \notin Elements(built) => Once(built'))
    BY <1>3, <2>1, ElementsAppended DEF RunTypeInv, RunTypeOK
  <2>3. BuiltInv'
    BY <1>1, <1>2, <1>4, <1>5, <2>1, <2>2 DEF BuiltInv
  <2>4. GraphInv' /\ HandOverInv'
    BY <1>1, <1>5, <2>1 DEF GraphInv, HandOverInv, input
  <2> QED
    BY <2>3, <2>4
<1>6. CASE stage = "graph"
  <2>1. graphs' = [graphs EXCEPT !["member"] = Append(@, n)]
        /\ UNCHANGED <<stage, built, phase1, solution>>
    BY <1>6 DEF VisitBuild, VisitGraph, VisitTranslate
  <2>2. graphs["member"] \in Seq(Node) /\ graphs'["member"] = Append(graphs["member"], n)
    BY <2>1 DEF RunTypeInv, RunTypeOK, Graph
  <2>3. Elements(graphs'["member"]) = Elements(graphs["member"]) \cup {n}
    BY <1>3, <2>2, ElementsAppended
  <2>4. GraphInv'
    BY <1>1, <1>2, <1>6, <2>1, <2>3 DEF GraphInv
  <2>5. BuiltInv' /\ HandOverInv'
    BY <1>1, <1>2, <1>6, <2>1 DEF BuiltInv, HandOverInv, input
  <2> QED
    BY <2>4, <2>5
<1>7. CASE stage = "translate"
  <2> DEFINE member == graphs["member"]
  <2>1. VisitTranslate(n) /\ UNCHANGED <<graphs, built, phase1>>
    BY <1>7 DEF VisitBuild, VisitGraph, VisitTranslate
  <2>2. member \in Seq(Node) /\ Elements(member) = NodesOf(phase, Slots(phase))
    BY <1>7 DEF GraphInv, RunTypeInv, RunTypeOK, Graph
  <2>3. PICK j \in 1..Len(member) : member[j] = n
    <3>1. n \in Elements(member)
      BY <2>2 DEF NodesOf
    <3> QED
      BY <3>1 DEF Elements
  <2>4. SameFile(member[j], n)
    BY <2>3 DEF SameFile
  <2>5. PICK k \in 1..Len(member) :
          SameFile(member[k], n) /\ solution' = Append(solution, member[k]) /\ stage' = stage
    BY <2>1, <2>4 DEF VisitTranslate
  <2>6. member[k] \in Node /\ member[k].phase = phase
    <3>1. member[k] \in NodesOf(phase, Slots(phase))
      BY <2>2 DEF Elements
    <3> QED
      BY <2>2, <3>1, NodeFields DEF NodesOf
  <2>7. /\ solution \in Seq(Node) /\ Len(solution) \in Nat
        /\ Len(solution') = Len(solution) + 1
        /\ \A m \in 1..Len(solution) : solution'[m] = solution[m]
        /\ solution'[Len(solution) + 1] = member[k]
    BY <2>5, <2>6, AppendProperties DEF RunTypeInv, RunTypeOK
  <2>8. HasFiles(solution', phase, Passed')
    <3> SUFFICES ASSUME NEW s \in Passed'
                 PROVE  \E m \in 1..Len(solution') :
                          solution'[m].phase = phase /\ SameFile(solution'[m], NodeAt(phase, s))
      BY DEF HasFiles
    <3>1. CASE s \in Passed
      <4>1. PICK m \in 1..Len(solution) :
              solution[m].phase = phase /\ SameFile(solution[m], NodeAt(phase, s))
        BY <1>7, <3>1 DEF HandOverInv, HasFiles
      <4> QED
        BY <2>7, <4>1
    <3>2. CASE s = Here
      BY <2>5, <2>6, <2>7, <3>2
    <3> QED
      BY <3>1, <3>2
  <2>9. HandOverInv'
    <3>1. stage' = "translate" /\ phase' = phase /\ UNCHANGED <<mksln, twoPhase, phase1>>
      BY <1>7, <2>1, <2>5 DEF input
    <3>2. HasFiles(solution, phase, Passed)'
      BY <2>8, <3>1, SlotsKept DEF HasFiles
    <3> QED
      BY <1>1, <1>7, <3>1, <3>2 DEF HandOverInv
  <2>10. BuiltInv' /\ GraphInv'
    BY <1>1, <1>2, <1>7, <2>1, <2>5 DEF BuiltInv, GraphInv
  <2> QED
    BY <2>9, <2>10
<1> QED
  BY <1>5, <1>6, <1>7

-----------------------------------------------------------------------------
LEMMA IterateControl ==
  ASSUME RunTypeInv, ControlInv, Iterate, stage' # "error"
  PROVE  ControlInv'
<1>1. UNCHANGED <<input, phase, defined>> /\ stage' = stage /\ stage \in Passes
  BY DEF Iterate, NextProject, PlainScript, GamesExhausted, SkipGame, GameScript, InScript,
     InLoop, BuildTargetProject, VisitBuild, VisitGraph, VisitTranslate
<1>2. ASSUME InScript', ~CurrentScript.hasGame'
      PROVE  position'.game = 1
  <2>1. CASE NextProject
    BY <2>1 DEF NextProject
  <2>2. CASE GamesExhausted
    BY <2>2, PositionTyped DEF GamesExhausted
  <2>3. CASE PlainScript
    <3>1. position'.game = position.game
      BY <2>3, PositionTyped DEF PlainScript
    <3> QED
      BY <2>3, <3>1 DEF PlainScript, ControlInv
  <2>4. CASE SkipGame \/ GameScript
    <3>1. position'.project = position.project /\ position'.script = position.script
          /\ CurrentScript.hasGame
      BY <2>4, PositionTyped DEF SkipGame, GameScript
    <3>2. CurrentScript' = CurrentScript
      BY <1>1, <3>1 DEF CurrentScript, Current, List, input
    <3> QED
      BY <1>2, <3>1, <3>2
  <2> QED
    BY <2>1, <2>2, <2>3, <2>4 DEF Iterate
<1> QED
  BY <1>1, <1>2 DEF ControlInv, input, Passes

LEMMA IterateKeeps ==
  ASSUME RunInv, Iterate
  PROVE  ControlInv' /\ BuiltInv' /\ GraphInv' /\ HandOverInv'
<1> USE DEF RunInv
<1>1. UNCHANGED <<input, phase, defined>> /\ stage \in Passes
  BY DEF Iterate, NextProject, PlainScript, GamesExhausted, SkipGame, GameScript, InScript,
     InLoop
<1>2. BuiltInv' /\ GraphInv' /\ HandOverInv'
  <2>1. CASE stage = "simulate"
    <3>1. UNCHANGED <<stage, built, phase1, solution>> /\ graphs'["member"] = graphs["member"]
      BY <2>1 DEF Iterate, NextProject, PlainScript, GamesExhausted, SkipGame, GameScript,
         BuildTargetProject, VisitBuild, VisitGraph, VisitTranslate, results, RunTypeInv,
         RunTypeOK, Graph
    <3> QED
      BY <1>1, <2>1, <3>1, NothingVisited
  <2> SUFFICES ASSUME stage # "simulate"
               PROVE  BuiltInv' /\ GraphInv' /\ HandOverInv'
    BY <2>1
  <2>2. stage \in {"build", "graph", "translate"} /\ defined = wanted
    BY <1>1 DEF Passes, ControlInv
  <2>3. ASSUME UNCHANGED <<stage, results>>, Passed' = Passed
        PROVE  BuiltInv' /\ GraphInv' /\ HandOverInv'
    BY <1>1, <2>3, NothingVisited DEF results
  <2>4. ASSUME NEW game, NEW games, BuildTargetProject(game, games),
               Holds(CurrentScript, games) <=> Here \in Slots(phase),
               NodeOf(game) = NodeAt(phase, Here),
               Passed' = Passed \cup ({Here} \cap Slots(phase))
        PROVE  BuiltInv' /\ GraphInv' /\ HandOverInv'
    <3>1. CASE Holds(CurrentScript, games)
      <4>1. Passed' = Passed \cup {Here}
        BY <2>4, <3>1
      <4> DEFINE n == NodeOf(game)
      <4>2. VisitBuild(n) \/ VisitGraph(n) \/ VisitTranslate(n)
        BY <2>4, <3>1 DEF BuildTargetProject
      <4>3. n = NodeAt(phase, Here)
        BY <2>4
      <4> HIDE DEF n
      <4> QED
        BY <1>1, <2>2, <2>4, <3>1, <4>1, <4>2, <4>3, Visited
    <3>2. CASE ~Holds(CurrentScript, games)
      BY <2>3, <2>4, <3>2 DEF BuildTargetProject
    <3> QED
      BY <3>1, <3>2
  <2>5. CASE NextProject
    BY <2>3, <2>5, NextProjectPasses DEF NextProject
  <2>6. CASE GamesExhausted
    BY <2>3, <2>6, GamesExhaustedPasses DEF GamesExhausted
  <2>7. CASE PlainScript
    <3>1. InScript /\ ~CurrentScript.hasGame /\ position.game = 1
          /\ BuildTargetProject(NoGame, active \cap defined)
          /\ position' = [position EXCEPT !.script = @ + 1]
      BY <2>7 DEF PlainScript, ControlInv
    <3>2. Passed' = Passed \cup ({Here} \cap Slots(phase))
      BY <1>1, <3>1, PlainPasses
    <3>3. /\ Holds(CurrentScript, active \cap defined) <=> Here \in Slots(phase)
          /\ NodeOf(NoGame) = NodeAt(phase, Here)
      BY <3>1, VisitIsSlot
    <3> QED
      BY <2>4, <3>1, <3>2, <3>3
  <2>8. CASE SkipGame
    <3>1. Here \notin Slots(phase)
      BY <2>2, <2>8, PlaceTyped DEF SkipGame, Slots, Qualifies
    <3>2. Passed' = Passed
      BY <1>1, <2>8, <3>1, GamePasses DEF SkipGame
    <3> QED
      BY <2>3, <2>8, <3>2 DEF SkipGame
  <2>9. CASE GameScript
    <3> DEFINE game == Games[position.game]
               games == active' \cap defined
    <3>1. InScript /\ CurrentScript.hasGame /\ position.game <= Len(Games)
          /\ game \in wanted /\ games = {game} /\ BuildTargetProject(game, games)
          /\ position' = [position EXCEPT !.game = @ + 1]
      BY <2>2, <2>9 DEF GameScript, Activate
    <3>2. Passed' = Passed \cup ({Here} \cap Slots(phase))
      BY <1>1, <3>1, GamePasses
    <3>3. /\ Holds(CurrentScript, games) <=> Here \in Slots(phase)
          /\ NodeOf(game) = NodeAt(phase, Here)
      BY <3>1, VisitIsSlot
    <3> HIDE DEF game, games
    <3> QED
      BY <2>4, <3>1, <3>2, <3>3
  <2> QED
    BY <2>5, <2>6, <2>7, <2>8, <2>9 DEF Iterate
<1>3. ControlInv'
  BY <1>2, IterateControl DEF HandOverInv
<1> QED
  BY <1>2, <1>3

-----------------------------------------------------------------------------
LEMMA RunInitInv == RunInit => RunInv
<1> SUFFICES ASSUME RunInit PROVE RunInv
  OBVIOUS
<1>1. RunTypeInv
  BY RunInitTyped
<1>2. Earlier = {} /\ Elements(built) = {} /\ Once(built)
  BY DEF RunInit, Earlier, Elements, Once
<1>3. /\ stage = "start" /\ phase = 1 /\ defined = wanted /\ phase1 = << >>
      /\ solution = << >> /\ graphs["member"] = << >> /\ stage \notin Passes
  BY DEF RunInit, Passes, Graph
<1>4. ControlInv /\ BuiltInv
  BY <1>2, <1>3 DEF ControlInv, BuiltInv, InScript, InLoop
<1>5. GraphInv /\ HandOverInv
  BY <1>3 DEF GraphInv, HandOverInv
<1> QED
  BY <1>1, <1>4, <1>5 DEF RunInv

\* A pass has not begun: the lists stay.
LEMMA NothingYet ==
  ASSUME RunTypeInv, RunTypeInv', UNCHANGED <<input, phase>>, position' = StartPosition
  PROVE  NodesOf(phase, Passed)' = {} /\ Passed' = {}
         /\ (InScript' => position'.game = 1)
<1>1. (RunTypeInv /\ position = StartPosition => Passed = {})'
  BY NothingPassed, PTL
<1>2. Passed' = {}
  BY <1>1 DEF StartPosition
<1> QED
  BY <1>2 DEF NodesOf, StartPosition

LEMMA FilesJoined ==
  ASSUME NEW p \in Seq(Node), NEW q \in Seq(Node), NEW f, NEW S,
         HasFiles(p, f, S) \/ HasFiles(q, f, S)
  PROVE  HasFiles(p \o q, f, S)
<1>1. /\ Len(p) \in Nat /\ Len(q) \in Nat /\ Len(p \o q) = Len(p) + Len(q)
      /\ \A k \in 1..Len(p) : (p \o q)[k] = p[k]
      /\ \A k \in 1..Len(q) : (p \o q)[Len(p) + k] = q[k]
  BY ConcatProperties
<1> SUFFICES ASSUME NEW s \in S
             PROVE  \E k \in 1..Len(p \o q) :
                      (p \o q)[k].phase = f /\ SameFile((p \o q)[k], NodeAt(f, s))
  BY DEF HasFiles
<1>2. CASE HasFiles(p, f, S)
  <2>1. PICK k \in 1..Len(p) : p[k].phase = f /\ SameFile(p[k], NodeAt(f, s))
    BY <1>2 DEF HasFiles
  <2> QED
    BY <1>1, <2>1
<1>3. CASE HasFiles(q, f, S)
  <2>1. PICK k \in 1..Len(q) : q[k].phase = f /\ SameFile(q[k], NodeAt(f, s))
    BY <1>3 DEF HasFiles
  <2>2. Len(p) + k \in 1..Len(p \o q)
    BY <1>1
  <2> QED
    BY <1>1, <2>1, <2>2
<1> QED
  BY <1>2, <1>3

\* The passes that begin: nothing has been visited.
LEMMA PassBegins ==
  ASSUME RunInv, RunTypeInv', UNCHANGED <<input, phase, built, phase1, solution, graphs>>,
         position' = StartPosition,
         \/ stage = "start" /\ stage' = "simulate"
         \/ stage \in {"start", "simulate"} /\ stage' = "build" /\ defined' = wanted
         \/ Ended("build") /\ stage' = "graph" /\ defined' = wanted /\ mksln
         \/ Ended("graph") /\ stage' = "translate" /\ defined' = wanted
  PROVE  ControlInv' /\ BuiltInv' /\ GraphInv' /\ HandOverInv'
<1> USE DEF RunInv
<1>1. /\ NodesOf(phase, Passed)' = {} /\ Passed' = {} /\ (InScript' => position'.game = 1)
  BY NothingYet
<1>2. /\ Earlier' = Earlier /\ (\A f : Slots(f)' = Slots(f))
      /\ NodesOf(phase, Slots(phase))' = NodesOf(phase, Slots(phase))
      /\ \A seq, f, S : HasFiles(seq, f, S)' <=> HasFiles(seq, f, S)
  BY SlotsKept DEF NodesOf, HasFiles
<1>3. ASSUME NEW pass, Ended(pass), pass # "simulate"
      PROVE  NodesOf(phase, Passed) = NodesOf(phase, Slots(phase))
  BY <1>3, AllPassed
<1>4. ControlInv'
  BY <1>1 DEF ControlInv, input
<1>5. BuiltInv'
  BY <1>1, <1>2, <1>3 DEF BuiltInv, Ended
<1>6. GraphInv'
  <2>1. Elements(<< >>) = {}
    BY DEF Elements
  <2> QED
    BY <1>1, <1>2, <1>3, <2>1 DEF GraphInv, Ended
<1>7. HandOverInv'
  <2>1. stage' = "translate" => HasFiles(solution, phase, Passed)'
    BY <1>1 DEF HasFiles
  <2> QED
    BY <1>2, <2>1 DEF HandOverInv, Ended, input
<1> QED
  BY <1>4, <1>5, <1>6, <1>7

LEMMA EndTranslateKeeps ==
  ASSUME RunInv, RunTypeInv', EndTranslate
  PROVE  ControlInv' /\ BuiltInv' /\ GraphInv' /\ HandOverInv'
<1> USE DEF RunInv
<1>1. UNCHANGED <<input, phase, defined, graphs, built>> /\ stage = "translate" /\ mksln
      /\ phase \in Phase
  BY DEF EndTranslate, Ended, HandOverInv, RunTypeInv, RunTypeOK
<1>2. HasFiles(solution, phase, Slots(phase))
  BY <1>1, AllPassed DEF EndTranslate, HandOverInv
<1>3. /\ Earlier' = Earlier /\ (\A f : Slots(f)' = Slots(f))
      /\ NodesOf(phase, Slots(phase))' = NodesOf(phase, Slots(phase))
      /\ \A seq, f, S : HasFiles(seq, f, S)' <=> HasFiles(seq, f, S)
  BY <1>1, SlotsKept DEF NodesOf, HasFiles
<1>4. CASE twoPhase /\ phase = 1
  <2>1. phase1' = solution /\ solution' = << >> /\ stage' = "built"
    BY <1>4 DEF EndTranslate
  <2>2. HasFiles(phase1, 1, Slots(1))'
    BY <1>2, <1>3, <1>4, <2>1
  <2>3. HandOverInv'
    BY <1>1, <1>4, <2>1, <2>2 DEF HandOverInv, input
  <2>4. ControlInv' /\ BuiltInv' /\ GraphInv'
    BY <1>1, <1>3, <2>1 DEF ControlInv, BuiltInv, GraphInv, InScript, InLoop, Passes, input
  <2> QED
    BY <2>3, <2>4
<1>5. CASE ~(twoPhase /\ phase = 1)
  <2>1. solution' = solution \o phase1 /\ stage' = "done" /\ phase1' = phase1
    BY <1>5 DEF EndTranslate
  <2>2. solution \in Seq(Node) /\ phase1 \in Seq(Node)
    BY DEF RunTypeInv, RunTypeOK
  <2>3. \A f \in IF twoPhase THEN Phase ELSE {1} :
          HasFiles(solution, f, Slots(f)) \/ HasFiles(phase1, f, Slots(f))
    <3>1. CASE twoPhase
      <4>1. phase = 2
        BY <1>1, <1>5, <3>1 DEF Phase
      <4>2. HasFiles(phase1, 1, Slots(1)) /\ HasFiles(solution, 2, Slots(2))
        BY <1>1, <1>2, <3>1, <4>1 DEF HandOverInv
      <4>3. Phase = {1, 2}
        BY DEF Phase
      <4> QED
        BY <3>1, <4>2, <4>3
    <3>2. CASE ~twoPhase
      <4>1. phase = 1
        BY <1>1, <3>2 DEF ControlInv, Phase
      <4> QED
        BY <1>2, <3>2, <4>1
    <3> QED
      BY <3>1, <3>2
  <2>4. \A f \in IF twoPhase THEN Phase ELSE {1} : HasFiles(solution', f, Slots(f))
    BY <2>1, <2>2, <2>3, FilesJoined
  <2>5. HandOverInv'
    <3>1. \A f \in IF twoPhase' THEN Phase ELSE {1} : HasFiles(solution, f, Slots(f))'
      BY <1>1, <1>3, <2>4 DEF input
    <3> QED
      BY <1>1, <1>3, <2>1, <3>1 DEF HandOverInv, input
  <2>6. ControlInv'
    BY <1>1, <1>5, <2>1 DEF ControlInv, InScript, InLoop, Passes, input, Phase
  <2>7. BuiltInv' /\ GraphInv'
    BY <1>1, <1>3, <2>1 DEF BuiltInv, GraphInv
  <2> QED
    BY <2>5, <2>6, <2>7
<1> QED
  BY <1>4, <1>5

\* main makes a new CVPC for the second phase, and keeps the projects of the first.
LEMMA SecondPhaseKeeps ==
  ASSUME RunInv, SecondPhase
  PROVE  ControlInv' /\ BuiltInv' /\ GraphInv' /\ HandOverInv'
<1> USE DEF RunInv
<1>1. /\ UNCHANGED <<input, built, phase1, solution>> /\ stage = "built" /\ twoPhase
      /\ phase = 1 /\ phase' = 2 /\ stage' = "start" /\ defined' = wanted
      /\ graphs'["member"] = << >>
  BY DEF SecondPhase, Graph
<1>2. /\ \A f : Slots(f)' = Slots(f)
      /\ \A f, S : NodesOf(f, S)' = NodesOf(f, S)
      /\ \A seq, f, S : HasFiles(seq, f, S)' <=> HasFiles(seq, f, S)
  BY <1>1 DEF input, Slots, Slot, Qualifies, ScriptOf, NodesOf, NodeAt, GameOf, HasFiles
<1>3. Earlier = {} /\ Earlier' = NodesOf(1, Slots(1))
  BY <1>1, <1>2 DEF Earlier
<1>4. BuiltInv'
  BY <1>1, <1>3 DEF BuiltInv
<1>5. ControlInv' /\ GraphInv'
  BY <1>1 DEF ControlInv, GraphInv, InScript, InLoop, Passes, input
<1>6. HandOverInv'
  BY <1>1, <1>2 DEF HandOverInv, input
<1> QED
  BY <1>4, <1>5, <1>6

\* The end without a solution file, of the process or of the first phase.
LEMMA LeavesPasses ==
  ASSUME RunInv, UNCHANGED <<input, phase, defined, results>>,
         \/ Ended("build") /\ stage' = "built" /\ (mksln /\ twoPhase => phase = 2)
         \/ stage = "built" /\ (twoPhase => phase = 2) /\ stage' = "done"
  PROVE  ControlInv' /\ BuiltInv' /\ GraphInv' /\ HandOverInv'
<1> USE DEF RunInv
<1>1. /\ Earlier' = Earlier /\ (\A f : Slots(f)' = Slots(f))
      /\ NodesOf(phase, Slots(phase))' = NodesOf(phase, Slots(phase))
      /\ \A seq, f, S : HasFiles(seq, f, S)' <=> HasFiles(seq, f, S)
  BY SlotsKept DEF NodesOf, HasFiles
<1>2. stage = "build" => NodesOf(phase, Passed) = NodesOf(phase, Slots(phase))
  BY AllPassed DEF Ended
<1>3. BuiltInv' /\ GraphInv'
  BY <1>1, <1>2 DEF BuiltInv, GraphInv, Ended, results
<1>4. ControlInv'
  BY DEF ControlInv, InScript, InLoop, Passes, input
<1>5. HandOverInv'
  BY <1>1 DEF HandOverInv, ControlInv, Ended, results, input, RunTypeInv, RunTypeOK, Phase
<1> QED
  BY <1>3, <1>4, <1>5

LEMMA RunStepInv == RunInv /\ [RunNext]_runVars => RunInv'
<1> SUFFICES ASSUME RunInv, [RunNext]_runVars
             PROVE  RunInv'
  OBVIOUS
<1> USE DEF RunInv
<1>1. RunTypeInv'
  BY RunStepTyped
<1> SUFFICES ControlInv' /\ BuiltInv' /\ GraphInv' /\ HandOverInv'
  BY <1>1
<1>2. CASE UNCHANGED runVars
  <2>1. UNCHANGED <<input, phase, stage, position, defined, built, phase1, solution, graphs>>
    BY <1>2 DEF runVars, results
  <2>2. Passed' = Passed
    BY <2>1, SlotsKept DEF Passed, Behind
  <2>3. ControlInv'
    BY <2>1 DEF ControlInv, InScript, InLoop, CurrentScript, Current, List, input
  <2> QED
    BY <2>1, <2>2, <2>3, NothingVisited
<1>3. CASE StartSimulation \/ StartBuild
  BY <1>1, <1>3, PassBegins
     DEF StartSimulation, StartBuild, BeginPass, results, ControlInv
<1>4. CASE EndSimulation
  BY <1>1, <1>4, PassBegins DEF EndSimulation, BeginPass, Ended
<1>5. CASE EndBuild
  <2>1. CASE mksln /\ (qualified \/ (twoPhase /\ phase = 1))
    BY <1>1, <1>5, <2>1, PassBegins DEF EndBuild, BeginPass, Ended, results, ControlInv
  <2>2. CASE ~(mksln /\ (qualified \/ (twoPhase /\ phase = 1)))
    <3>1. mksln /\ twoPhase => phase = 2
      BY <2>2 DEF RunTypeInv, RunTypeOK, Phase
    <3> QED
      BY <1>5, <2>2, <3>1, LeavesPasses DEF EndBuild
  <2> QED
    BY <2>1, <2>2
<1>6. CASE EndGraph
  BY <1>1, <1>6, PassBegins DEF EndGraph, BeginPass, Ended, ControlInv
<1>7. CASE EndTranslate
  BY <1>1, <1>7, EndTranslateKeeps
<1>8. CASE SecondPhase
  BY <1>8, SecondPhaseKeeps
<1>9. CASE Exit
  BY <1>9, LeavesPasses DEF Exit
<1>10. CASE Iterate
  BY <1>10, IterateKeeps
<1> QED
  BY <1>2, <1>3, <1>4, <1>5, <1>6, <1>7, <1>8, <1>9, <1>10 DEF RunNext, RunStep, RunEnded

LEMMA RunAlways == RunSpec => []RunInv
BY RunInitInv, RunStepInv, PTL DEF RunSpec

(***************************************************************************)
(* IterateTargetProjects with the project generator as its visitor, after  *)
(* the simulation of /allgames and in both phases of /windows: what the    *)
(* generator was asked for is what the command line asks for, each project *)
(* and game once.                                                          *)
(***************************************************************************)
THEOREM GeneratedAsAsked == RunSpec => []BuiltAsAsked
<1>1. RunInv => BuiltAsAsked
  <2> SUFFICES ASSUME RunInv, stage \in {"graph", "translate", "built", "done"}
               PROVE  /\ Elements(built) = AskedIn(1) \cup (IF phase = 2 THEN AskedIn(2) ELSE {})
                      /\ Once(built)
    BY DEF BuiltAsAsked
  <2>1. AskedIn(1) = NodesOf(1, Slots(1)) /\ AskedIn(2) = NodesOf(2, Slots(2))
    BY SlotsAreAsked DEF RunInv, Phase
  <2>2. phase = 1 \/ phase = 2
    BY DEF RunInv, RunTypeInv, RunTypeOK, Phase
  <2> QED
    BY <2>1, <2>2 DEF RunInv, BuiltInv, Earlier
<1> QED
  BY <1>1, RunAlways, PTL

(***************************************************************************)
(* CGameFilterProjectIterator finds every project it looks for in the      *)
(* graph, which the pass before has filled under the same conditions, and  *)
(* the solution file has a project for every VPC file of either phase,     *)
(* those of phase 1 by way of m_pPhase1Projects.                           *)
(***************************************************************************)
THEOREM SolutionIsComplete == RunSpec => []HandOverComplete
<1>1. RunInv => HandOverComplete
  <2> SUFFICES ASSUME RunInv PROVE HandOverComplete
    OBVIOUS
  <2> USE DEF RunInv
  <2>1. EveryProjectFound
    BY DEF HandOverInv, EveryProjectFound
  <2>2. SolutionHasEveryFile
    <3> SUFFICES ASSUME stage = "done", solution # << >>,
                        NEW f \in IF twoPhase THEN Phase ELSE {1}, NEW n \in AskedIn(f)
                 PROVE  \E k \in 1..Len(solution) :
                          solution[k].phase = f /\ SameFile(solution[k], n)
      BY DEF SolutionHasEveryFile
    <3>1. f \in Phase /\ HasFiles(solution, f, Slots(f))
      BY DEF HandOverInv, Phase
    <3>2. PICK s \in Slots(f) : n = NodeAt(f, s)
      BY <3>1, SlotsAreAsked DEF NodesOf
    <3> QED
      BY <3>1, <3>2 DEF HasFiles
  <2> QED
    BY <2>1, <2>2 DEF HandOverComplete
<1> QED
  BY <1>1, RunAlways, PTL

=============================================================================
