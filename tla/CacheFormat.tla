---------------------------- MODULE CacheFormat ----------------------------
(***************************************************************************)
(* The bytes of vpc.cache: what SaveCache writes and what the loop of      *)
(* LoadCache reads back, field by field (src/utils/vpc/dependencies.cpp).  *)
(*                                                                         *)
(* The file has no field names and no checksums, so reader and writer must *)
(* agree on the width of every field, and a file that ends early must not  *)
(* be taken for more than it holds.  SaveCache writes lengths and counts   *)
(* as intp, the width of a pointer; LoadCache reads them as int.           *)
(*                                                                         *)
(* Init chooses the table that was saved and how much of the file there    *)
(* is: all of it, or any part that a writer which died had written.        *)
(***************************************************************************)
EXTENDS Integers, Sequences, SequencesExt

CONSTANTS
  IntpWidth,   \* sizeof(intp)
  Names,       \* file names, as sequences of bytes
  Sizes,       \* sizes a file can have
  Times,       \* modification times
  MaxDeps      \* bound on the dependencies of a saved entry

ASSUME IntpWidthAssumption == IntpWidth \in {4, 8}

\* Names are C strings with at least one character; no number needs more than
\* two bytes.
ASSUME SavedDataAssumption ==
  /\ IsFiniteSet(Names)
  /\ \A name \in Names : name \in Seq(1..255) \ {<< >>} /\ Len(name) < 65536
  /\ Sizes \cup Times \cup {MaxDeps} \subseteq {n \in Nat : n < 65536}

IntWidth == 4
Int64Width == 8
Version == 3          \* VPC_CRC_CACHE_VERSION

VARIABLES
  saved,    \* the records SaveCache wrote, in order
  file,     \* the bytes there are
  pos,      \* position of the next byte
  field,    \* the field that is read next; "done", "failed" or "error"
  table,    \* m_AllFiles: entries by name
  current,  \* name of the entry that is read
  left      \* names of dependencies still to read

formatVars == <<saved, file, pos, field, table, current, left>>

-----------------------------------------------------------------------------
\* fwrite of a non-negative integer below 2^16, least significant byte first.
Bytes(n, width) ==
  [i \in 1..width |-> CASE i = 1 -> n % 256 [] i = 2 -> n \div 256 [] OTHER -> 0]

\* WriteString.
WriteString(name) == Bytes(Len(name), IntpWidth) \o name

WriteFileInfo(r) == Bytes(r.size, Int64Width) \o Bytes(r.time, Int64Width)

WriteRecord(r) ==
  <<1>> \o WriteString(r.name)
        \o WriteFileInfo(r)
        \o Bytes(Len(r.deps), IntpWidth)
        \o FlattenSeq([i \in 1..Len(r.deps) |-> WriteString(r.deps[i])])

\* SaveCache.
SaveCache(records) ==
  Bytes(Version, IntWidth)
    \o FlattenSeq([i \in 1..Len(records) |-> WriteRecord(records[i])])
    \o <<0>>

-----------------------------------------------------------------------------
\* fread of `width` bytes: are they all there?
Available(width) == pos + width - 1 <= Len(file)

Read(width) == SubSeq(file, pos, pos + width - 1)

\* An int, as far as it matters: a large one (or a negative one) is TooLarge.
TooLarge == 65536
ReadInt ==
  IF file[pos + 2] # 0 \/ file[pos + 3] # 0
  THEN TooLarge
  ELSE file[pos] + 256 * file[pos + 1]

EndOfFile == Len(file) + 1

\* A char array as a C string: up to its first zero byte.
CString(s) == SelectInSeq(s, LAMBDA b : b = 0)
ToCString(s) == IF CString(s) = 0 THEN s ELSE SubSeq(s, 1, CString(s) - 1)

\* Slip: a name that is cut off is returned as far as it goes.
ReadStringAnyway ==
  LET start == pos + IntWidth
      end == IF Available(IntWidth) /\ Available(IntWidth + ReadInt)
             THEN start + ReadInt - 1 ELSE Len(file)
  IN [name |-> SubSeq(file, start, end), next |-> end + 1]

(***************************************************************************)
(* ReadString: the name it returns, "" when the file is too short, and the *)
(* position after it.                                                      *)
(***************************************************************************)
ReadString ==
  LET length == ReadInt
      start == pos + IntWidth
  IN CASE ~Available(IntWidth) -> [name |-> << >>, next |-> EndOfFile]
       [] Available(IntWidth) /\ ~Available(IntWidth + length) ->
            [name |-> << >>, next |-> EndOfFile]
       [] OTHER ->
            [name |-> ToCString(SubSeq(file, start, start + length - 1)),
             next |-> start + length]

(***************************************************************************)
(* FindOrCreateDependency: a new entry has the size and time the file has  *)
(* on disk now (shown as FromDisk), and no dependencies.                   *)
(***************************************************************************)
FromDisk == << >>
NewEntry == [size |-> FromDisk, time |-> FromDisk, deps |-> << >>]

FindOrCreate(t, name) ==
  [n \in DOMAIN t \cup {name} |-> IF n \in DOMAIN t THEN t[n] ELSE NewEntry]

NextField(f, width) == field' = f /\ pos' = pos + width

\* LoadCache leaves its loop.
Stop(result) == field' = result /\ pos' = EndOfFile

-----------------------------------------------------------------------------
ReadVersion ==
  /\ field = "version"
  /\ IF Available(IntWidth) /\ ReadInt = Version
     THEN NextField("more", IntWidth)
     ELSE Stop("failed")
  /\ UNCHANGED <<saved, file, table, current, left>>

ReadMore ==
  /\ field = "more"
  /\ IF Available(1) /\ file[pos] # 0
     THEN NextField("name", 1)
     ELSE Stop("done")
  /\ UNCHANGED <<saved, file, table, current, left>>

\* "Cache loading dependency %s but it already exists!"
ReadName ==
  /\ field = "name"
  /\ current' = ReadString.name
  /\ table' = FindOrCreate(table, ReadString.name)
  /\ pos' = ReadString.next
  /\ field' = IF table'[current'].deps # << >> THEN "error" ELSE "size"
  /\ UNCHANGED <<saved, file, left>>

\* A short fread leaves the old value, or one with some bytes replaced.
Mangled == <<0>>
Short(old) == {old, Mangled}

ReadSize ==
  /\ field = "size"
  /\ IF Available(Int64Width)
     THEN /\ table' = [table EXCEPT ![current].size = Read(Int64Width)]
          /\ NextField("time", Int64Width)
     ELSE /\ \E n \in Short(table[current].size) :
               table' = [table EXCEPT ![current].size = n]
          /\ Stop("done")
  /\ UNCHANGED <<saved, file, current, left>>

ReadTime ==
  /\ field = "time"
  /\ IF Available(Int64Width)
     THEN /\ table' = [table EXCEPT ![current].time = Read(Int64Width)]
          /\ NextField("count", Int64Width)
     ELSE /\ \E n \in Short(table[current].time) :
               table' = [table EXCEPT ![current].time = n]
          /\ Stop("done")
  /\ UNCHANGED <<saved, file, current, left>>

\* SetSize of a count that cannot be allocated ends the program.
ReadCount ==
  /\ field = "count"
  /\ IF Available(IntWidth)
     THEN /\ left' = ReadInt
          /\ IF left' = TooLarge
             THEN Stop("error")
             ELSE NextField("deps", IntWidth)
     ELSE Stop("done") /\ left' = 0
  /\ UNCHANGED <<saved, file, table, current>>

ReadDependency ==
  /\ field = "deps"
  /\ left > 0
  /\ LET child == ReadString.name
     IN table' = [FindOrCreate(table, child) EXCEPT
                    ![current].deps = Append(@, child)]
  /\ pos' = ReadString.next
  /\ left' = left - 1
  /\ UNCHANGED <<saved, file, field, current>>

RecordRead ==
  /\ field = "deps"
  /\ left = 0
  /\ field' = "more"
  /\ UNCHANGED <<saved, file, pos, table, current, left>>

-----------------------------------------------------------------------------
SavedRecord ==
  [name : Names, size : Sizes, time : Times,
   deps : BoundedSeq(Names, MaxDeps)]

\* m_AllFiles is a dictionary: no name twice, and the names of dependencies
\* are entries too.
Saveable ==
  {s \in BoundedSeq(SavedRecord, Cardinality(Names)) :
     \A i, j \in DOMAIN s : i # j => s[i].name # s[j].name}

FormatInit ==
  /\ saved \in Saveable
  /\ file \in {SubSeq(SaveCache(saved), 1, n) : n \in 0..Len(SaveCache(saved))}
  /\ pos = 1
  /\ field = "version"
  /\ table = << >>
  /\ current = << >>
  /\ left = 0

FormatDone == field \in {"done", "failed", "error"} /\ UNCHANGED formatVars

FormatNext ==
  \/ ReadVersion \/ ReadMore \/ ReadName \/ ReadSize \/ ReadTime
  \/ ReadCount \/ ReadDependency \/ RecordRead
  \/ FormatDone

FormatSpec == FormatInit /\ [][FormatNext]_formatVars

-----------------------------------------------------------------------------
\* What an entry should be after a record was read.
EntryOf(r) == [size |-> Bytes(r.size, Int64Width),
               time |-> Bytes(r.time, Int64Width), deps |-> r.deps]

Loaded(r) == r.name \in DOMAIN table /\ table[r.name] = EntryOf(r)

NamesIn(records) ==
  {records[i].name : i \in DOMAIN records}
    \cup UNION {ToSet(records[i].deps) : i \in DOMAIN records}

Entry == [size : Seq(0..255), time : Seq(0..255), deps : Seq(Seq(0..255))]

FormatTypeOK ==
  /\ file \in Seq(0..255)
  /\ pos \in 1..EndOfFile
  /\ field \in {"version", "more", "name", "size", "time", "count", "deps",
             "done", "failed", "error"}
  /\ \A name \in DOMAIN table : name \in Seq(0..255) /\ table[name] \in Entry
  /\ current \in Seq(0..255)
  /\ left \in Nat

(***************************************************************************)
(* A complete file is read back as it was written: the same entries, with  *)
(* the same sizes, times and dependencies in the same order.  "Next time   *)
(* it will have a cache file and be fast" (BuildProjectDependencies).      *)
(***************************************************************************)
RoundTrip ==
  file = SaveCache(saved) /\ field \in {"done", "failed", "error"} =>
    /\ field = "done"
    /\ DOMAIN table = NamesIn(saved)
    /\ \A i \in DOMAIN saved : Loaded(saved[i])

(***************************************************************************)
(* A file that ends early is read as far as it goes.  Some number of       *)
(* records is there as written; the next one may be there in part, with no *)
(* other dependencies than its first ones (and nameless ones after them);  *)
(* every other entry is a name without dependencies of its own.            *)
(***************************************************************************)
TornInOneRecord ==
  field = "done" =>
    \E n \in 0..Len(saved) :
      /\ \A i \in 1..n : Loaded(saved[i])
      /\ \A name \in DOMAIN table :
           \/ \E i \in 1..n : saved[i].name = name
           \/ table[name] = NewEntry /\ name \in NamesIn(saved)
           \/ /\ n < Len(saved)
              /\ name = saved[n + 1].name
              /\ \A k \in DOMAIN table[name].deps :
                   table[name].deps[k] \in {saved[n + 1].deps[k], << >>}
           \/ name = << >>

(***************************************************************************)
(* The file is read as far as it was written: all of it when it is         *)
(* complete, and otherwise all but the record in which it ends.            *)
(***************************************************************************)
ReadAsWritten == RoundTrip /\ TornInOneRecord

=============================================================================
