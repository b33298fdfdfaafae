------------------------------ MODULE BlkScan -------------------------------
(***************************************************************************)
(* The block-file scanner: what a scan of an obfuscated file finds         *)
(* (scan.rs, obfuscation.rs), how files are joined into one under the same *)
(* key (bin/concat.rs), and what chain the records make (summarise).       *)
(*                                                                         *)
(* A unit of a file is a number of a few bits: a record is a unit of magic *)
(* (4 bytes), one of size (4 bytes), and then size units, of which the     *)
(* first is the header (80 bytes). A header is the number of its block,    *)
(* whose parent is given.                                                  *)
(***************************************************************************)
EXTENDS Integers, SequencesExt

CONSTANTS
  MAGIC,      \* MAINNET_MAGIC, not zero
  KeyLength,  \* 8
  CHUNK,      \* the size of a copy
  Parent,     \* the parent of every block there is
  GENESIS

PREFIX == 2       \* magic and size
MINIMUM == 3      \* and a header

\* Bit by bit.
Xor(a, b) ==
  LET xor[x \in Nat] ==
        [y \in Nat |-> IF x = 0 THEN y ELSE ((x + y) % 2) + 2 * xor[x \div 2][y \div 2]]
  IN  xor[a][b]

\* XOR with the key at the position in the file. A key of zeros is no key.
Apply(key, buffer, file_offset) ==
  IF \A i \in DOMAIN key : key[i] = 0
  THEN buffer
  ELSE [i \in DOMAIN buffer |-> Xor(buffer[i], key[((file_offset + i - 1) % KeyLength) + 1])]

-----------------------------------------------------------------------------
(* scan_file.                                                              *)

\* Units of a file as they were before they were obfuscated.
Plain(file, key, offset, count) ==
  Apply(key, SubSeq(file, offset + 1, offset + count), offset)

Stop(offset, reason) == [records |-> <<>>, stopped_at |-> offset, reason |-> reason]

\* A record before what is found behind it.
Found(record, rest) ==
  [records |-> <<record>> \o rest.records, stopped_at |-> rest.stopped_at, reason |-> rest.reason]

RecordAt(offset, size, hash) ==
  [offset |-> offset, size |-> size, hash |-> hash, previous |-> Parent[hash]]

\* The records from an offset on, and where and why they stop. A size is trusted.
ScanFile(file, key) ==
  LET from[offset \in Nat] ==
        IF offset + MINIMUM > Len(file)
        THEN Stop(offset, "EndOfFile")
        ELSE IF Plain(file, key, offset, PREFIX)[1] = 0
        THEN Stop(offset, "Padding")
        ELSE IF Plain(file, key, offset, PREFIX)[1] # MAGIC
        THEN Stop(offset, "Corrupt")
        ELSE Found(RecordAt(offset, Plain(file, key, offset, PREFIX)[2],
                            Plain(file, key, offset + PREFIX, 1)[1]),
                   from[offset + PREFIX + Plain(file, key, offset, PREFIX)[2]])
  IN  from[0]

-----------------------------------------------------------------------------
(* blk-concat.                                                             *)

\* Bug: what is decoded where it stood is encoded where it stood.
RekeyInPlace(key, chunk, copied, written) == Apply(key, Apply(key, chunk, copied), copied)

Rekey(key, chunk, copied, written) == Apply(key, Apply(key, chunk, copied), written)

Want(copied, payload) == IF CHUNK < payload - copied THEN CHUNK ELSE payload - copied

\* Of one file, what comes before its stopping offset, a chunk at a time.
CopyFile(key, file, payload, output) ==
  LET after[copied \in 0 .. payload] ==
        IF copied = payload
        THEN <<>>
        ELSE Rekey(key, SubSeq(file, copied + 1, copied + Want(copied, payload)),
                   copied, Len(output) + copied)
               \o after[copied + Want(copied, payload)]
  IN  output \o after[0]

\* Every file's offset lies in it, or read_exact fails in the middle of the output.
Joins(files, key) ==
  \A i \in DOMAIN files : ScanFile(files[i], key).stopped_at <= Len(files[i])

Join(files, key) ==
  LET output[n \in 0 .. Len(files)] ==
        IF n = 0
        THEN <<>>
        ELSE CopyFile(key, files[n], ScanFile(files[n], key).stopped_at, output[n - 1])
  IN  output[Len(files)]

-----------------------------------------------------------------------------
(* summarise.                                                              *)

Present(records) == {records[i].hash : i \in DOMAIN records}

\* The child of a block is the first record found that names it.
Child(records, hash) ==
  LET i == SelectInSeq(records, LAMBDA record : record.previous = hash)
  IN  IF i = 0 THEN {} ELSE {records[i].hash}

OrphanRoots(records) ==
  Len(SelectSeq(records, LAMBDA record :
        record.hash # GENESIS /\ record.previous \notin Present(records)))

\* Bug: a child is only looked for behind its parent.
WalkInFileOrder(records) ==
  FoldLeft(LAMBDA path, record :
             IF record.previous = Last(path) THEN Append(path, record.hash) ELSE path,
           <<GENESIS>>, records)

Walk(records) ==
  LET from[hash \in DOMAIN Parent] ==
        IF Child(records, hash) = {}
        THEN <<hash>>
        ELSE <<hash>> \o from[CHOOSE child \in Child(records, hash) : TRUE]
  IN  from[GENESIS]

\* Heights count from the genesis block; without it there is no chain.
Summarise(records) ==
  [blocks |-> Cardinality(Present(records)),
   has_genesis |-> GENESIS \in Present(records),
   connected |-> IF GENESIS \in Present(records) THEN Len(Walk(records)) ELSE 0,
   tip_hash |-> IF GENESIS \in Present(records) THEN {Last(Walk(records))} ELSE {},
   orphan_roots |-> OrphanRoots(records)]

-----------------------------------------------------------------------------
Shifted(records, by) == [i \in DOMAIN records |-> [records[i] EXCEPT !.offset = @ + by]]

\* Where each file begins when they are behind one another.
Starts(files, key) ==
  LET start[n \in 1 .. Len(files)] ==
        IF n = 1 THEN 0 ELSE start[n - 1] + ScanFile(files[n - 1], key).stopped_at
  IN  start

\* The records of several files, at the offsets they have then.
Joined(files, key) ==
  LET joined[n \in 0 .. Len(files)] ==
        IF n = 0
        THEN <<>>
        ELSE joined[n - 1] \o Shifted(ScanFile(files[n], key).records, Starts(files, key)[n])
  IN  joined[Len(files)]

\* Every record a scan finds holds a header at least.
HoldHeaders(files, key) ==
  \A i \in DOMAIN files : LET records == ScanFile(files[i], key).records
                          IN  \A j \in DOMAIN records : records[j].size >= 1

\* A join that succeeds loses no record that a scan of the single files found, whatever
\* key the positions have, and leaves padding and garbage behind; it succeeds unless a
\* file's last record is cut short, whose trusted size points past its end
\* (concat.rs:9-22, scan.rs:120-121).
JoinKeepsRecords(files, key) ==
  Joins(files, key) /\ HoldHeaders(files, key) =>
    LET scan == ScanFile(Join(files, key), key)
    IN  /\ scan.records = Joined(files, key)
        /\ scan.reason = "EndOfFile"
        /\ scan.stopped_at = Len(Join(files, key))

\* Blocks whose chain of parents, among the records, leads to the genesis block.
Descendants(records) ==
  LET reached[hash \in DOMAIN Parent] ==
        hash \in Present(records) /\ (hash = GENESIS \/ reached[Parent[hash]])
  IN  {hash \in Present(records) : reached[hash]}

\* "{} blocks are reachable from genesis; {} are not" (main.rs:103-106): true in any
\* order of the records and with any of them twice, as long as no two blocks have one
\* parent; with a stale block the walk is one path, and ends at a block without a child.
SummaryIsReachability(records) ==
  LET summary == Summarise(records)
      blocks == Present(records)
      forked == \E a, b \in blocks : a # b /\ Parent[a] = Parent[b]
  IN  /\ summary.connected <= Cardinality(Descendants(records))
      /\ ~forked => summary.connected = Cardinality(Descendants(records))
      /\ \A tip \in summary.tip_hash : \A block \in blocks : Parent[block] # tip
=============================================================================
