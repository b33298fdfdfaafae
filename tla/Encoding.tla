------------------------------ MODULE Encoding ------------------------------
(***************************************************************************)
(* Bytes that describe themselves: CompactSize integers (varint.rs), the   *)
(* bounds-checked cursor (reader.rs) and the two serializations of a       *)
(* transaction (transaction.rs).                                           *)
(*                                                                         *)
(* A byte has Byte values, of which the three highest announce a longer    *)
(* integer, so that every form of one is reached with small numbers. A     *)
(* reader is the sequence of the bytes it has left. Fixed-width fields are *)
(* one byte each; the outpoint is one field.                               *)
(***************************************************************************)
EXTENDS Integers, SequencesExt

CONSTANT Byte  \* 256; more than three

Bytes == 0 .. Byte - 1

Power(n) ==
  LET power[k \in Nat] == IF k = 0 THEN 1 ELSE Byte * power[k - 1]
  IN  power[n]

LittleEndian(n, width) ==
  LET rest[i \in Nat] == IF i = 0 THEN n ELSE rest[i - 1] \div Byte
  IN  [i \in 1 .. width |-> rest[i - 1] % Byte]

FromLittleEndian(bytes) ==
  LET last[i \in 0 .. Len(bytes)] ==
        IF i = 0 THEN 0 ELSE bytes[Len(bytes) - i + 1] + Byte * last[i - 1]
  IN  last[Len(bytes)]

-----------------------------------------------------------------------------
(* CompactSize: 0xFD, 0xFE and 0xFF announce 2, 4 and 8 bytes.             *)

Width(prefix) ==
  CASE prefix = Byte - 3 -> 2 [] prefix = Byte - 2 -> 4 [] prefix = Byte - 1 -> 8

\* The first value that needs a prefix.
Least(prefix) ==
  CASE prefix = Byte - 3 -> Byte - 3
    [] prefix = Byte - 2 -> Power(2)
    [] prefix = Byte - 1 -> Power(4)

PrefixOf(value) ==
  CHOOSE prefix \in Byte - 3 .. Byte - 1 : Least(prefix) <= value /\ value < Power(Width(prefix))

Encode(value) ==
  IF value < Byte - 3
  THEN <<value>>
  ELSE <<PrefixOf(value)>> \o LittleEndian(value, Width(PrefixOf(value)))

EncodedLen(value) == IF value < Byte - 3 THEN 1 ELSE 1 + Width(PrefixOf(value))

-----------------------------------------------------------------------------
(* The reader: a value and the bytes after it, or an error.                *)

Read(value, rest) == [error |-> "", value |-> value, rest |-> rest]
ReadError(error) == [error |-> error]

\* The `?` operator: what is read next, if there was no error.
AndThen(read, next) == IF read.error = "" THEN next ELSE read

ReadBytes(count, bytes) ==
  IF count > Len(bytes)
  THEN ReadError("UnexpectedEnd")
  ELSE Read(SubSeq(bytes, 1, count), SubSeq(bytes, count + 1, Len(bytes)))

ReadField(bytes) ==
  LET read == ReadBytes(1, bytes)
  IN  AndThen(read, Read(read.value[1], read.rest))

\* A value that a shorter form can hold is refused.
ReadWide(prefix, bytes) ==
  LET wide == ReadBytes(Width(prefix), bytes)
  IN  AndThen(wide,
        IF FromLittleEndian(wide.value) < Least(prefix)
        THEN ReadError("NonCanonical")
        ELSE Read(FromLittleEndian(wide.value), wide.rest))

ReadVarint(bytes) ==
  LET first == ReadField(bytes)
  IN  AndThen(first,
        IF first.value < Byte - 3 THEN first ELSE ReadWide(first.value, first.rest))

ReadVarBytes(bytes) ==
  LET count == ReadVarint(bytes)
  IN  AndThen(count, ReadBytes(count.value, count.rest))

\* A loop that reads count items, up to the first error.
ReadMany(ReadItem(_), count, bytes) ==
  LET after[n \in 0 .. count] ==
        IF n = 0
        THEN Read(<<>>, bytes)
        ELSE LET items == after[n - 1]
                 item == ReadItem(items.rest)
             IN  AndThen(items, AndThen(item, Read(Append(items.value, item.value), item.rest)))
  IN  after[count]

ReadCounted(ReadItem(_), bytes) ==
  LET count == ReadVarint(bytes)
  IN  AndThen(count, ReadMany(ReadItem, count.value, count.rest))

-----------------------------------------------------------------------------
(* A transaction: its fields of a fixed width are numbers.                 *)

TxIn == [previous_output : Nat, script_sig : Seq(Nat), sequence : Nat, witness : Seq(Seq(Nat))]
TxOut == [value : Nat, script_pubkey : Seq(Nat)]
Transaction == [version : Nat, inputs : Seq(TxIn), outputs : Seq(TxOut), lock_time : Nat]

\* A length fits the longest integer, as a usize does.
IsCountable(items) == Len(items) < Power(8)

IsTransaction(tx) ==
  /\ tx \in Transaction
  /\ tx.inputs # <<>> /\ IsCountable(tx.inputs) /\ IsCountable(tx.outputs)
  /\ \A i \in DOMAIN tx.inputs :
       /\ IsCountable(tx.inputs[i].script_sig) /\ IsCountable(tx.inputs[i].witness)
       /\ \A j \in DOMAIN tx.inputs[i].witness : IsCountable(tx.inputs[i].witness[j])
  /\ \A i \in DOMAIN tx.outputs : IsCountable(tx.outputs[i].script_pubkey)

VarBytes(bytes) == Encode(Len(bytes)) \o bytes
Concat(Op(_), items) ==
  LET first[n \in 0 .. Len(items)] == IF n = 0 THEN <<>> ELSE first[n - 1] \o Op(items[n])
  IN  first[Len(items)]
Counted(Op(_), items) == Encode(Len(items)) \o Concat(Op, items)

WriteInput(input) == <<input.previous_output>> \o VarBytes(input.script_sig) \o <<input.sequence>>
WriteOutput(output) == <<output.value>> \o VarBytes(output.script_pubkey)
WriteWitness(input) == Counted(VarBytes, input.witness)

HasWitness(tx) == \E i \in DOMAIN tx.inputs : tx.inputs[i].witness # <<>>

SerializeLegacy(tx) ==
  <<tx.version>> \o Counted(WriteInput, tx.inputs) \o Counted(WriteOutput, tx.outputs)
    \o <<tx.lock_time>>

\* Bug: only an input that has a witness gets a stack.
SerializeSparse(tx) ==
  IF ~HasWitness(tx)
  THEN SerializeLegacy(tx)
  ELSE <<tx.version, 0, 1>> \o Counted(WriteInput, tx.inputs)
         \o Counted(WriteOutput, tx.outputs)
         \o Concat(WriteWitness, SelectSeq(tx.inputs, LAMBDA input : input.witness # <<>>))
         \o <<tx.lock_time>>

\* The marker, an input count of zero, and the flag; a stack for each input.
Serialize(tx) ==
  IF ~HasWitness(tx)
  THEN SerializeLegacy(tx)
  ELSE <<tx.version, 0, 1>> \o Counted(WriteInput, tx.inputs)
         \o Counted(WriteOutput, tx.outputs) \o Concat(WriteWitness, tx.inputs)
         \o <<tx.lock_time>>

-----------------------------------------------------------------------------
(* Reading a transaction: each part, and what is left to do after it.       *)

InputEnd(previous_output, script_sig, bytes) ==
  LET sequence == ReadField(bytes)
  IN  AndThen(sequence,
        Read([previous_output |-> previous_output, script_sig |-> script_sig,
              sequence |-> sequence.value, witness |-> <<>>], sequence.rest))

InputAfter(previous_output, bytes) ==
  LET script_sig == ReadVarBytes(bytes)
  IN  AndThen(script_sig, InputEnd(previous_output, script_sig.value, script_sig.rest))

ReadInput(bytes) ==
  LET previous_output == ReadField(bytes)
  IN  AndThen(previous_output, InputAfter(previous_output.value, previous_output.rest))

OutputEnd(value, bytes) ==
  LET script_pubkey == ReadVarBytes(bytes)
  IN  AndThen(script_pubkey,
        Read([value |-> value, script_pubkey |-> script_pubkey.value], script_pubkey.rest))

ReadOutput(bytes) ==
  LET value == ReadField(bytes)
  IN  AndThen(value, OutputEnd(value.value, value.rest))

ReadWitness(bytes) == ReadCounted(ReadVarBytes, bytes)

TransactionOf(version, inputs, outputs, stacks, lock_time) ==
  [version |-> version,
   inputs |-> [i \in DOMAIN inputs |-> [inputs[i] EXCEPT !.witness = stacks[i]]],
   outputs |-> outputs, lock_time |-> lock_time]

LockTimeEnd(version, inputs, outputs, stacks, bytes) ==
  LET lock_time == ReadField(bytes)
  IN  AndThen(lock_time,
        Read(TransactionOf(version, inputs, outputs, stacks, lock_time.value), lock_time.rest))

StacksOf(marker, inputs, bytes) ==
  IF marker = 0
  THEN ReadMany(ReadWitness, Len(inputs), bytes)
  ELSE Read([i \in DOMAIN inputs |-> <<>>], bytes)

StacksEnd(version, marker, inputs, outputs, bytes) ==
  LET stacks == StacksOf(marker, inputs, bytes)
  IN  AndThen(stacks, LockTimeEnd(version, inputs, outputs, stacks.value, stacks.rest))

OutputsEnd(version, marker, inputs, bytes) ==
  LET outputs == ReadCounted(ReadOutput, bytes)
  IN  AndThen(outputs, StacksEnd(version, marker, inputs, outputs.value, outputs.rest))

InputsEnd(version, marker, count, bytes) ==
  LET inputs == ReadMany(ReadInput, count, bytes)
  IN  AndThen(inputs, OutputsEnd(version, marker, inputs.value, inputs.rest))

CountEnd(version, bytes) ==
  LET count == ReadVarint(bytes)
  IN  AndThen(count, InputsEnd(version, 0, count.value, count.rest))

FlagEnd(version, bytes) ==
  LET flag == ReadBytes(1, bytes)
  IN  AndThen(flag, CountEnd(version, flag.rest))

\* The integer after the version is the marker; a count of zero, it is followed by a
\* flag, that is not looked at, and the count.
MarkerEnd(version, bytes) ==
  LET first == ReadVarint(bytes)
  IN  AndThen(first,
        IF first.value = 0
        THEN FlagEnd(version, first.rest)
        ELSE InputsEnd(version, first.value, first.value, first.rest))

\* What follows the lock time is left unread.
Deserialize(bytes) ==
  LET version == ReadField(bytes)
  IN  AndThen(version, MarkerEnd(version.value, version.rest))

-----------------------------------------------------------------------------
\* Whatever a reader accepts is the one encoding of its value, of the announced
\* length; a longer form of a small value would make "our idea of a valid block"
\* differ "from the network's" (varint.rs:56-60).
VarintIsCanonical(bytes) ==
  LET read == ReadVarint(bytes)
  IN  read.error = "" =>
        /\ bytes = Encode(read.value) \o read.rest
        /\ Len(bytes) = EncodedLen(read.value) + Len(read.rest)

\* A transaction with an input is read back from either format, whatever follows, and
\* not from less: the marker is never taken for a count of inputs, nor a count for the
\* marker (transaction.rs:122-125, 179-185).
TransactionSurvives(tx) ==
  LET bytes == Serialize(tx)
      stripped == [tx EXCEPT !.inputs = [i \in DOMAIN @ |-> [@[i] EXCEPT !.witness = <<>>]]]
  IN  /\ \A rest \in {<<>>, <<0>>} : Deserialize(bytes \o rest) = Read(tx, rest)
      /\ \A n \in 0 .. Len(bytes) - 1 :
           Deserialize(SubSeq(bytes, 1, n)).error = "UnexpectedEnd"
      /\ Deserialize(SerializeLegacy(tx)) = Read(stripped, <<>>)
=============================================================================
