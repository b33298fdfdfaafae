------------------------------ MODULE WorkUnit ------------------------------
(***************************************************************************)
(* One unit of work, there and back: the pool turns a block template into  *)
(* a job (job_builder.rs, coinbase.rs, witness.rs), notifies it (job.rs,   *)
(* byte_order.rs), a miner splices its extranonce in and hashes a header,  *)
(* and the pool rebuilds that header from the share and the block from the *)
(* header (validate.rs, block.rs).                                         *)
(*                                                                         *)
(* Both ends compute the header in ways of their own: the miner from two   *)
(* halves of a coinbase and a merkle branch, the pool from the transaction *)
(* and the whole tree. A string of bytes is a sequence of numbers, fixed   *)
(* fields of the serialization shortened to one.                           *)
(***************************************************************************)
EXTENDS Merkle, FiniteSets

CONSTANTS
  Templates,         \* the templates the node can answer with
  Extranonce1s,      \* extranonce1 of the connections, distinct, of one size
  Extranonce2s,      \* what a miner may put after it, of any size
  EXTRANONCE2_SIZE,  \* the size the pool announces
  SENTINEL,          \* as long as an extranonce
  TAG,
  MAX_SCRIPT_SIG,
  U32,               \* 2 ^ 32
  Times,             \* header times a miner settles on
  MaxJobs,           \* bound: jobs the pool builds
  None               \* Option::None

ASSUME WorkUnitAssumption ==
  /\ EXTRANONCE2_SIZE \in Nat \ {0}
  /\ Extranonce1s \subseteq Seq(Nat) /\ Extranonce2s \subseteq Seq(Nat)
  /\ SENTINEL \in Seq(Nat) /\ TAG \in Seq(Nat)
  /\ \A e \in Extranonce1s : Len(e) + EXTRANONCE2_SIZE = Len(SENTINEL)
  /\ MaxJobs \in Nat
  /\ U32 \in Nat /\ U32 % 2 = 0

\* A version is an i32, and a hash is made of whole words.
ASSUME TemplatesAssumption ==
  \A template \in Templates :
    /\ template.prev_hash \in Seq(Nat) /\ Len(template.prev_hash) % 2 = 0
    /\ template.version \in -(U32 \div 2) .. U32 \div 2 - 1
    /\ template.transactions \in Seq(Nat)
    /\ template.payout_script \in Seq(Nat)
    /\ template.height \in Nat /\ template.coinbase_value \in Nat

VARIABLES
  jobs,    \* the ActiveJobs the pool built, oldest first; its place is a job's id
  phase,   \* "idle", a share "inFlight", or it was "checked"
  share,   \* what a miner submitted, with its connection's extranonce1
  mined,   \* the header that miner hashed
  verdict  \* what the pool made of it

vars == <<jobs, phase, share, mined, verdict>>

-----------------------------------------------------------------------------
(* The coinbase.                                                           *)

PushData(data) == <<Len(data)>> \o data

\* The height's encoding is one of several fixed shapes; it is one field here.
ScriptSig(height, extranonce) ==
  <<height>> \o (IF extranonce = <<>> THEN <<>> ELSE PushData(extranonce)) \o PushData(TAG)

\* Version, the null outpoint, the payout and the commitment, lock time; the
\* witness is no part of it.
SerializeLegacy(coinbase) ==
  <<2, 1>> \o PushData(coinbase.script_sig) \o <<255, 2, coinbase.value>>
    \o PushData(coinbase.payout_script) \o PushData(coinbase.commitment) \o <<0>>

Txid(coinbase) == Sha256d(SerializeLegacy(coinbase))

\* CoinbaseBuilder::build refuses a scriptSig over the limit; a height and a tag
\* are never under the lower one.
CoinbaseFits(active, extranonce) ==
  Len(ScriptSig(active.height, extranonce)) <= MAX_SCRIPT_SIG

Coinbase(active, extranonce) ==
  [script_sig |-> ScriptSig(active.height, extranonce), value |-> active.coinbase_value,
   payout_script |-> active.payout_script, commitment |-> active.witness_commitment]

-----------------------------------------------------------------------------
(* build.                                                                  *)

TxidOf(tx) == Sha256d(<<tx>>)
WtxidOf(tx) == Sha256d(<<tx, 0>>)

Mapped(Op(_), s) == [i \in 1 .. Len(s) |-> Op(s[i])]

\* Bug: the coinbase has no leaf in the witness tree.
WitnessRootWithoutPlaceholder(wtxids) ==
  IF wtxids = <<>> THEN ZERO ELSE MerkleRoot(wtxids)

WitnessMerkleRoot(wtxids) == MerkleRoot(<<ZERO>> \o wtxids)

\* The reserved value is 32 zero bytes.
CommitmentScript(wtxids) == <<106, 36, 170>> \o Sha256d(WitnessMerkleRoot(wtxids) \o <<0>>)

\* Where the sentinel stands in the serialized coinbase: offsets of windows.
Matches(serialised) ==
  {offset \in 0 .. Len(serialised) - Len(SENTINEL) :
     SubSeq(serialised, offset + 1, offset + Len(SENTINEL)) = SENTINEL}

\* The job before its coinbase is split.
Unsplit(template) ==
  [height |-> template.height, coinbase_value |-> template.coinbase_value,
   payout_script |-> template.payout_script,
   witness_commitment |-> CommitmentScript(Mapped(WtxidOf, template.transactions)),
   transactions |-> template.transactions,
   txids |-> Mapped(TxidOf, template.transactions)]

Serialised(template) == SerializeLegacy(Coinbase(Unsplit(template), SENTINEL))

\* Bug: a coinbase that holds the sentinel several times is split at the last.
BuildsAnyway(template) ==
  /\ template.commitment_agrees
  /\ CoinbaseFits(Unsplit(template), SENTINEL)

\* What build refuses: a commitment the node disagrees with, a coinbase that is
\* too long, a sentinel that is not there exactly once.
Builds(template) ==
  /\ template.commitment_agrees
  /\ CoinbaseFits(Unsplit(template), SENTINEL)
  /\ Cardinality(Matches(Serialised(template))) = 1

\* Any placeholder does for the coinbase's own leaf.
JobOf(template) ==
  LET serialised == Serialised(template)
      \* the last one, should there be several
      offset == CHOOSE o \in Matches(serialised) : \A m \in Matches(serialised) : m <= o
  IN  [prev_hash |-> template.prev_hash,
       coinbase_prefix |-> SubSeq(serialised, 1, offset),
       coinbase_suffix |-> SubSeq(serialised, offset + Len(SENTINEL) + 1, Len(serialised)),
       merkle_branch |-> CoinbaseBranch(<<ZERO>> \o Unsplit(template).txids),
       version |-> template.version, bits |-> template.bits, time |-> template.time]

Build(template) == [job |-> JobOf(template), active |-> Unsplit(template)]

-----------------------------------------------------------------------------
(* The wire.                                                               *)

\* Words of two bytes instead of four, each reversed; its own inverse.
SwapWords(bytes) ==
  [i \in 1 .. Len(bytes) |-> IF i % 2 = 1 THEN bytes[i + 1] ELSE bytes[i - 1]]

Unsigned(n) == n % U32
Signed(n) == IF n < U32 \div 2 THEN n ELSE n - U32

\* mining.notify. The halves and the branch go out as they are, in hex.
ToNotifyParams(job) ==
  [job EXCEPT !.prev_hash = SwapWords(@), !.version = Unsigned(@)]

FromNotifyParams(params) ==
  [params EXCEPT !.prev_hash = SwapWords(@), !.version = Signed(@)]

\* Bug: the miner's half goes in front of the pool's.
SpliceSwapped(job, extranonce1, extranonce2) ==
  job.coinbase_prefix \o extranonce2 \o extranonce1 \o job.coinbase_suffix

Splice(job, extranonce1, extranonce2) ==
  job.coinbase_prefix \o extranonce1 \o extranonce2 \o job.coinbase_suffix

\* The nonce is the last field on both sides, echoed by the share, and left out.
JobHeader(job, extranonce1, extranonce2, time) ==
  [version |-> job.version, prev_block |-> job.prev_hash,
   merkle_root |-> RootFromCoinbaseBranch(
                     Sha256d(Splice(job, extranonce1, extranonce2)), job.merkle_branch),
   time |-> time, bits |-> job.bits]

-----------------------------------------------------------------------------
(* check. Whether the hash meets the target only decides whether the block *)
(* is submitted, so the verdict holds the block either way.                *)

\* BlockBuilder: the header, the coinbase with its witness, the node's
\* transactions as they came.
Block(header, coinbase, transactions) ==
  [error |-> "", header |-> header, coinbase |-> coinbase, transactions |-> transactions]

CheckShare(s) ==
  LET job == jobs[s.job_id].job
      active == jobs[s.job_id].active
      extranonce == s.extranonce1 \o s.extranonce2
      coinbase == Coinbase(active, extranonce)
  IN  CASE ~CoinbaseFits(active, extranonce) -> [error |-> "Rebuild"]
        [] CoinbaseFits(active, extranonce)
             /\ Splice(job, s.extranonce1, s.extranonce2) # SerializeLegacy(coinbase)
             -> [error |-> "CoinbaseMismatch"]
        [] OTHER ->
             Block([version |-> job.version, prev_block |-> job.prev_hash,
                    merkle_root |-> MerkleRoot(<<Txid(coinbase)>> \o active.txids),
                    time |-> s.time, bits |-> job.bits],
                   coinbase, active.transactions)

-----------------------------------------------------------------------------
Init ==
  /\ jobs = <<>>
  /\ phase = "idle"
  /\ share = None
  /\ mined = None
  /\ verdict = None

\* The poller builds a job and notifies it. A template that is refused changes
\* nothing here. Earlier jobs stay valid, for shares on their way.
Announce ==
  /\ Len(jobs) < MaxJobs
  /\ \E template \in Templates :
       /\ Builds(template)
       /\ jobs' = Append(jobs, Build(template))
  /\ UNCHANGED <<phase, share, mined, verdict>>

\* A miner hashes a header for a job it was notified of, and submits. mac-miner
\* keeps to the announced extranonce2 size and the job's time; others may not.
Submit ==
  /\ phase # "inFlight"
  /\ \E id \in 1 .. Len(jobs), e1 \in Extranonce1s, e2 \in Extranonce2s, time \in Times :
       /\ share' = [job_id |-> id, extranonce1 |-> e1, extranonce2 |-> e2, time |-> time]
       /\ mined' = JobHeader(FromNotifyParams(ToNotifyParams(jobs[id].job)), e1, e2, time)
  /\ phase' = "inFlight"
  /\ verdict' = None
  /\ UNCHANGED jobs

Check ==
  /\ phase = "inFlight"
  /\ verdict' = CheckShare(share)
  /\ phase' = "checked"
  /\ UNCHANGED <<jobs, share, mined>>

Next == Announce \/ Submit \/ Check

Spec == Init /\ [][Next]_vars

-----------------------------------------------------------------------------
Hashed == phase = "checked" /\ verdict.error = ""

\* "It rebuilds the exact header the miner claims to have hashed"
\* (validate.rs:3-5): the tree over the rebuilt coinbase and the branch over the
\* spliced one, the two byte orders and the two encodings of a version agree, for
\* the newest job and for retired ones.
HeaderAgrees == Hashed => verdict.header = mined

\* The split is right for every extranonce, not only for the sentinel it was found
\* with: the pool hashes a share if, and only if, its extranonce2 has the size that
\* was announced, whatever its bytes (job_builder.rs:8-16, validate.rs:90-96).
AnnouncedSizeDecides ==
  phase = "checked" => (Hashed <=> Len(share.extranonce2) = EXTRANONCE2_SIZE)

\* A block that is submitted commits to the transactions it carries, by both of
\* its trees, as consensus defines them (block.rs:56-65, witness.rs:12-30).
BlockIsWhole ==
  Hashed =>
    LET txids == Mapped(TxidOf, verdict.transactions)
        wtxids == Mapped(WtxidOf, verdict.transactions)
    IN  /\ verdict.header.merkle_root = ReferenceRoot(<<Txid(verdict.coinbase)>> \o txids)
        /\ verdict.coinbase.commitment =
             <<106, 36, 170>> \o Sha256d(ReferenceRoot(<<ZERO>> \o wtxids) \o <<0>>)
=============================================================================
