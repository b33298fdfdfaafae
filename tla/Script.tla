------------------------------- MODULE Script -------------------------------
(***************************************************************************)
(* The two scripts a coinbase needs: a minimal push, and the height that   *)
(* BIP 34 wants at the front of the scriptSig (script.rs). Bytes have      *)
(* their real 256 values.                                                  *)
(***************************************************************************)
EXTENDS Integers, SequencesExt

OP_PUSHDATA1 == 76
OP_PUSHDATA2 == 77
OP_0 == 0
OP_1 == 81

MAX_SCRIPT_ELEMENT == 520

\* The bytes before the data; above the limit push_data panics.
PushOpcode(length) ==
  CASE length <= 75 -> <<length>>
    [] length \in 76 .. 255 -> <<OP_PUSHDATA1, length>>
    [] length \in 256 .. MAX_SCRIPT_ELEMENT -> <<OP_PUSHDATA2, length % 256, length \div 256>>

PushData(data) == PushOpcode(Len(data)) \o data

\* Little-endian, without leading zeros.
Magnitude(value) ==
  LET digits[n \in Nat] == IF n = 0 THEN <<>> ELSE <<n % 256>> \o digits[n \div 256]
  IN  digits[value]

\* The top bit of the last byte is the sign.
EncodeScriptNumber(value) ==
  IF value # 0 /\ Last(Magnitude(value)) >= 128
  THEN Magnitude(value) \o <<0>>
  ELSE Magnitude(value)

EncodeBlockHeight(height) ==
  CASE height = 0 -> <<OP_0>>
    [] height \in 1 .. 16 -> <<OP_1 + height - 1>>
    [] OTHER -> PushData(EncodeScriptNumber(height))

-----------------------------------------------------------------------------
(* The script interpreter's side, as consensus has it: what the first      *)
(* operation of a script pushes.                                           *)

Pushed(script) ==
  LET opcode == script[1]
      body == CASE opcode <= 75 -> [first |-> 2, length |-> opcode]
                [] opcode = OP_PUSHDATA1 -> [first |-> 3, length |-> script[2]]
                [] opcode = OP_PUSHDATA2 -> [first |-> 4, length |-> script[2] + 256 * script[3]]
  IN  SubSeq(script, body.first, body.first + body.length - 1)

\* Little-endian; the top bit of the last byte is the sign.
Number(data) ==
  LET length == Len(data)
      magnitude[i \in 0 .. length - 1] ==
        IF i = 0 THEN data[length] % 128 ELSE data[length - i] + 256 * magnitude[i - 1]
  IN  CASE length = 0 -> 0
        [] length > 0 /\ data[length] >= 128 -> -magnitude[length - 1]
        [] length > 0 /\ data[length] < 128 -> magnitude[length - 1]

\* What the first operation leaves on the stack, as a number.
Evaluated(script) ==
  IF script[1] \in OP_1 .. OP_1 + 15 THEN script[1] - OP_1 + 1 ELSE Number(Pushed(script))

\* The shortest push of any data gives the data back, whatever comes after it: the
\* three forms meet at 75 and 255 bytes (script.rs:14-18).
PushIsRead(data) == \A next \in {<<>>, <<1>>} : Pushed(PushData(data) \o next) = data

\* A scriptSig that begins with a height's encoding evaluates to that height, a small
\* one, one whose top bit is set or any other, and goes on after it with anything: two
\* heights never share a coinbase (script.rs:47-64).
HeightIsRead(height) == Evaluated(EncodeBlockHeight(height) \o <<128>>) = height
=============================================================================
