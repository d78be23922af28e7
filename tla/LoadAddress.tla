---------------------------- MODULE LoadAddress ----------------------------
(***************************************************************************)
(* $LoadAddressMacroAuto and $LoadAddressMacroAuto_Padded: the list of     *)
(* projects and lengths from which every project of a game computes the    *)
(* address that its own image is linked at (Internal_LoadAddressMacroAuto  *)
(* of src/utils/vpc/projectscript.cpp).                                    *)
(*                                                                         *)
(* Each project reads the list in a run of its own and picks the entry     *)
(* with its name; the list and the arithmetic are the same for all, so one *)
(* reading here fills in the address of every project.  Addresses are      *)
(* unsigned words.                                                         *)
(***************************************************************************)
EXTENDS Integers, Sequences

CONSTANTS Image,      \* GetLoadAddressName of the projects
          Lists,      \* the lists that a script may hold
          Bases,      \* the base addresses
          Word,       \* the number of addresses, 2^32
          Align,      \* 64 * 1024
          LowFirst,   \* 0x82000000
          LowEnd,     \* 0x8BFFFFFF
          HighEnd     \* 0x9BFFFFFF

ListEntry == [name : Image, length : 0..(Word - 1), used : BOOLEAN]

ASSUME LoadAddressAssumption ==
  /\ Word \in Nat
  /\ Align \in Nat \ {0}
  /\ Bases \subseteq 0..(Word - 1)
  /\ Lists \subseteq Seq(ListEntry)
  /\ LowFirst \in Nat
  /\ LowEnd \in 0..(Word - 1)
  /\ HighEnd \in 0..(Word - 1)

Unset == [line |-> 0, entry |-> 0, address |-> 0]

VARIABLES
  bPad,      \* the padded keyword
  list,      \* entries: name, length, and whether the condition holds
  initial,   \* iInitialBaseAddress
  line,      \* entries read
  base,      \* baseAddress
  entries,   \* iEntryNum
  picked,    \* per image: the line of its name, iSetEntryNum, iSetBaseAddress
  macro,     \* per image: the address
  outcome,   \* "reading", "done", "error", or "crash" of a division by zero
  overflown  \* whether baseAddress has wrapped

addressVars == <<bPad, list, initial, line, base, entries, picked, macro, outcome, overflown>>

AddressInit ==
  /\ bPad \in BOOLEAN
  /\ list \in Lists
  /\ initial \in Bases
  /\ line = 0
  /\ base = initial
  /\ entries = 0
  /\ picked = [p \in Image |-> Unset]
  /\ macro = [p \in Image |-> 0]
  /\ outcome = "reading"
  /\ overflown = FALSE

-----------------------------------------------------------------------------
\* (x + Align - 1) & ~(Align - 1), before the result is cut to a word.
AlignValue(x) == (x + Align - 1) - ((x + Align - 1) % Align)

\* dllLength.
LengthOf(e) == IF bPad THEN e.length ELSE AlignValue(e.length) % Word

\* The address is taken before the condition of the entry is looked at.
Pick(e) ==
  picked' = [picked EXCEPT ![e.name] =
               [line |-> line + 1, entry |-> entries, address |-> base]]

Reading == outcome = "reading" /\ line < Len(list)

\* An entry whose condition is false neither counts nor takes space.
SkipEntry ==
  /\ Reading
  /\ ~list[line + 1].used
  /\ Pick(list[line + 1])
  /\ line' = line + 1
  /\ UNCHANGED <<bPad, list, initial, base, entries, macro, outcome, overflown>>

ReadEntry ==
  /\ Reading
  /\ list[line + 1].used
  /\ Pick(list[line + 1])
  /\ LET length == LengthOf(list[line + 1])
     IN /\ length # 0
        /\ base' = (base + length) % Word
        /\ overflown' = (overflown \/ base + length >= Word)
  /\ line' = line + 1
  /\ entries' = entries + 1
  /\ UNCHANGED <<bPad, list, initial, macro, outcome>>

\* "no longer supports 0 size dlls"
EmptyEntry ==
  /\ Reading
  /\ list[line + 1].used
  /\ LengthOf(list[line + 1]) = 0
  /\ outcome' = "error"
  /\ UNCHANGED <<bPad, list, initial, line, base, entries, picked, macro, overflown>>

EndAddress ==
  IF LowFirst <= initial /\ initial <= LowEnd THEN LowEnd ELSE HighEnd

\* iRemainingSpace / iEntryNum; as an int it is negative from Word / 2 on.
PadPerEntry == ((EndAddress - base) % Word) \div entries

\* Slip: the padding after the entry is counted, not the one before it.
PadsAfter(p) == PadPerEntry * (entries - picked[p].entry)

PadsBefore(p) == PadPerEntry * picked[p].entry

Listed(p) == picked[p].line # 0

Address(p) ==
  IF Listed(p) /\ bPad /\ PadPerEntry > 0 /\ 2 * PadPerEntry < Word
  THEN AlignValue(picked[p].address + PadsBefore(p)) % Word
  ELSE picked[p].address

\* Only entries whose condition is false have been met.
NothingToPad == bPad /\ entries = 0 /\ (\E p \in Image : Listed(p))

\* The end of the list: a project whose name was met divides by iEntryNum.
SetAddresses ==
  /\ outcome = "reading"
  /\ line = Len(list)
  /\ \/ NothingToPad /\ outcome' = "crash" /\ UNCHANGED macro
     \/ ~NothingToPad /\ outcome' = "done" /\ macro' = [p \in Image |-> Address(p)]
  /\ UNCHANGED <<bPad, list, initial, line, base, entries, picked, overflown>>

AddressesSet == outcome # "reading" /\ UNCHANGED addressVars

AddressNext == SkipEntry \/ ReadEntry \/ EmptyEntry \/ SetAddresses \/ AddressesSet

AddressSpec == AddressInit /\ [][AddressNext]_addressVars

-----------------------------------------------------------------------------
AddressTypeOK ==
  /\ bPad \in BOOLEAN
  /\ list \in Seq(ListEntry)
  /\ initial \in Bases
  /\ line \in 0..Len(list)
  /\ base \in 0..(Word - 1)
  /\ entries \in 0..line
  /\ picked \in [Image -> [line : 0..Len(list), entry : Nat, address : 0..(Word - 1)]]
  /\ macro \in [Image -> 0..(Word - 1)]
  /\ outcome \in {"reading", "done", "error", "crash"}
  /\ overflown \in BOOLEAN

\* The image has a length of its own in the list.
Takes(p) == Listed(p) /\ list[picked[p].line].used

\* The list fits below its limit, and what is left gives each entry enough to
\* be aligned upwards, or nothing.
Spacious ==
  bPad => base <= EndAddress /\ (PadPerEntry = 0 \/ PadPerEntry >= Align - 1)

(***************************************************************************)
(* "Finds unused space spreads it out evenly between each project": the    *)
(* images of a game can be loaded together.  Two projects never get areas  *)
(* that overlap, although each computes its own address in its own run and *)
(* the padded addresses are rounded up after the space was shared out, if  *)
(* the list leaves enough space.                                           *)
(***************************************************************************)
AreasDisjoint ==
  outcome = "done" /\ ~overflown /\ (entries # 0 => Spacious) =>
    \A p, q \in Image :
      Takes(p) /\ Takes(q) /\ picked[p].line < picked[q].line =>
        macro[p] + LengthOf(list[picked[p].line]) <= macro[q]

(***************************************************************************)
(* A padded area ends below the limit of the address space it was given.   *)
(***************************************************************************)
AreasBelowLimit ==
  outcome = "done" /\ bPad /\ ~overflown /\ (entries # 0 => Spacious) =>
    \A p \in Image : Takes(p) =>
      macro[p] + LengthOf(list[picked[p].line]) <= EndAddress

(***************************************************************************)
(* The areas of the images fit into the address space: apart from each     *)
(* other, and below the limit where they are padded.                       *)
(***************************************************************************)
AreasFit == AreasDisjoint /\ AreasBelowLimit
=============================================================================
