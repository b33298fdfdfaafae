----------------------------- MODULE HeaderHash -----------------------------
(***************************************************************************)
(* The double SHA-256 of a header (the crate sha256d): in general, with    *)
(* its padding, and as the nonce search computes it, with the first block  *)
(* compressed once and the rest patched in place.                          *)
(*                                                                         *)
(* The compression function is a free constructor: two results are equal   *)
(* only when state and block are. Everything around it has its real size.  *)
(***************************************************************************)
EXTENDS Integers, SequencesExt

HEADER_SIZE == 80
NONCE_OFFSET == 76
BLOCK == 64
NONCE_IN_TAIL == NONCE_OFFSET - BLOCK

H0 == "H0"

\* The portable and the hardware version absorb a block into a state.
Compress(state, block) == <<state, block>>

\* The eight words of a state, each big-endian, are 32 bytes.
Digest(state) == [i \in 1 .. 32 |-> <<i, state>>]

Zeros(n) == [i \in 1 .. n |-> 0]

\* The length in bits, which fits into two of the eight bytes here.
BitLength(bytes) == Zeros(6) \o <<(bytes * 8) \div 256, (bytes * 8) % 256>>

PaddedLen(length) == ((length + 9 + BLOCK - 1) \div BLOCK) * BLOCK

\* One bit, zeros up to 56 bytes into the last block, and the length.
Pad(message) ==
  message \o <<128>> \o Zeros((56 - (Len(message) + 1)) % BLOCK) \o BitLength(Len(message))

Sha256(message) ==
  LET padded == Pad(message)
      state[n \in 0 .. Len(padded) \div BLOCK] ==
        IF n = 0 THEN H0
        ELSE Compress(state[n - 1], SubSeq(padded, (n - 1) * BLOCK + 1, n * BLOCK))
  IN  Digest(state[Len(padded) \div BLOCK])

Sha256d(message) == Sha256(Sha256(message))

-----------------------------------------------------------------------------
(* HeaderHasher.                                                           *)

New(header) ==
  [midstate |-> Compress(H0, SubSeq(header, 1, BLOCK)),
   tail |-> SubSeq(header, BLOCK + 1, HEADER_SIZE) \o <<128>> \o Zeros(39)
              \o BitLength(HEADER_SIZE)]

SecondHash(first) ==
  Digest(Compress(H0, Digest(first) \o <<128>> \o Zeros(23) \o BitLength(32)))

\* The four bytes of the nonce, put into a copy of the tail.
WithBytes(bytes, offset, new) ==
  [i \in DOMAIN bytes |-> IF i - offset \in DOMAIN new THEN new[i - offset] ELSE bytes[i]]

HashNonce(hasher, nonce) ==
  SecondHash(Compress(hasher.midstate, WithBytes(hasher.tail, NONCE_IN_TAIL, nonce)))

-----------------------------------------------------------------------------
\* The midstate and the prepared tail are only a shortcut: for every header and nonce
\* the search hashes what the network will (midstate.rs:20-33), so that a solution is
\* one.
MidstateIsShortcut(header, nonce) ==
  HashNonce(New(header), nonce) = Sha256d(WithBytes(header, NONCE_OFFSET, nonce))

\* A padded message is whole blocks, as many as padded_len says (padding.rs:51-58).
PaddingIsWhole(length) == Len(Pad(Zeros(length))) = PaddedLen(length)
=============================================================================
