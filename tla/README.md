# TLA+ models of the op-succinct proof gateway

This directory holds TLA+ models of the witness-generation core, the
span-proof gateway (both variants) and the aggregation and status endpoints
of this repository. It has the TLC configurations that
model-check them on small instances and the TLAPS proofs of their main
invariants. `PROJECT.json` lists the components, runs, mutants, findings,
hazards and theorems. It also maps every modelled definition to the source
lines it translates.

## 1. The system

The gateway (C9) is an HTTP server with three endpoints. `src/zkvm-host/bin/server.rs`
is the out-of-process variant and `src/proposer/succinct/bin/server.rs` the
in-process one.

`/request_span_proof` generates a witness for a block range and then submits
it to the prover network:

- The zkvm-host variant spawns `native_host_runner` as a child process, under
  a 40-second timeout.
- The proposer variant calls `run_native_host`, with a 60-second budget.
- Both end up in the host orchestrator (C7), `OPSuccinctHost::run`
  (`src/utils/host/src/lib.rs:132-146`).

The orchestrator creates the hint and preimage channels (C1) and starts the
kona preimage server task (C4 hint handler and C5 preimage server, over the
key-value store C2). It then awaits the replay client (C6), and aborts the
server task when the client returns.

The replay client derives and executes L2 blocks. Every L2 datum it needs goes
through the caching provider `MultiblockOracleL2ChainProvider` (C3,
`src/utils/client/src/l2_chain_provider.rs`). C3 writes a hint frame, waits
for the acknowledgement, writes a get frame and waits for the value:

- a read of block *n* by number fetches the starting output and the safe-head
  header, checks *n* against the safe head, then walks back parent by parent;
- a block read also walks the transactions trie, through
  `trie_node_preimage`, which gets without a hint of its own;
- after each executed block, `update_cache` stores the header, block, system
  config and block info.

The host side is kona code outside this repository. Routing a hint only
remembers it. A get that misses the store fetches what the last hint names
and looks again, for as long as the key is missing. An upstream error ends
the server task.

## 2. Modules

| module | models | source |
|---|---|---|
| `PreimageOracle` | C1, C2, C4, C5: channel slots, the store as a set of keys, the last routed hint, the server task's state | kona host, **from the spec** (4.1-4.5, 7) |
| `L2ChainProvider` | C3: the four caches as `cache[n] ⊆ Tables`, and the client task's control point `pc` at every await of the provider code | `l2_chain_provider.rs` |
| `WitnessGen` | C7 composing C1-C6: the orchestrator's `run`, and the client driver (pipeline reads, block execution, `update_cache`) | `host/src/lib.rs:117-146`; the driver from spec 4.6 |
| `MCWitnessGen` | small constants for TLC | |
| `WitnessGenProofs` | inductive invariant and TLAPS proofs for `WitnessGen` | |
| `SpanGateway` | C9 span endpoint of zkvm-host: concurrent handlers, the children, the shared data directory | `zkvm-host/bin/server.rs:50-121, 221-236` |
| `MCSpanGateway` | two requests, two spans | |
| `SpanGatewayProofs` | inductive invariant and TLAPS proofs for `SpanGateway` | |
| `ProofGateway` | C9 aggregation and status endpoints and C8 `get_agg_proof_stdin`, over the proof network | `proposer/succinct/bin/server.rs:34-222`, `zkvm-host/bin/server.rs:123-219`, `host/src/lib.rs:87-113`; fetcher and network **from the spec** |
| `MCProofGateway` | one aggregation and one status request, one span job | |
| `ProofGatewayProofs` | inductive invariant and TLAPS proof for `ProofGateway` | |
| `WitnessRun` | abstract specification of one witness-generation run | spec 4.6-4.7 |
| `WitnessRunRefinement` | TLAPS proof that `WitnessGen` implements `WitnessRun` | |

**Abstraction.**

- Keys are records (type, block number, index); hints are (tag, block number).
  A header is identified by its block number, and its parent is number − 1.
- Every await of the client (a hint write, the ack, a get write, the value) is
  one step. The cache lookups before the first await are one step, because
  only the client task touches the caches.
- In `SpanGateway`, a child process is reduced to its exit status and to the
  snapshot it writes into the span's data directory. The snapshot records
  which request's child wrote it.

**Correspondence, `L2ChainProvider`.**

| action | source |
|---|---|
| `ReadStart` | the cache checks of the four read functions |
| `SendHint`, `HintAcked`, `SendGet` | the hint write, ack and get of each oracle call |
| `OutputReceived`, `SafeHeaderReceived` (with the range check) | `header_by_number` up to line 113 |
| `ParentReceived` / `WalkFrom` | the loop at lines 116-118 |
| `TxNodeReceived` | the `OrderedListWalker` hydration |
| `AcctReceived`, `CodeReceived` | `hint_account_proof` + trie get, and `bytecode_by_hash` |
| `UpdateCache` | `update_cache` |
| `UpdateCacheFails` | `update_cache` when `?` fails after the first two or three inserts |
| `ChannelClosed` | the I/O error an await gets once the host end is gone |

**Correspondence, `WitnessGen`.**

| action | source |
|---|---|
| `StartRun` | lines 133-139 |
| `StartFails` | a `?` there |
| `RunReturnsOk` | lines 141-145 |
| `RunReturnsErr` | the `?` on line 141, which skips the abort |

**Correspondence, `SpanGateway`.** Each handler step is one await or `?` of
`request_span_proof`:

- `GetHostCliArgs`
- `SpawnNativeHost`: the `data_dir` unwrap and the `cargo_metadata` expect,
  which panic (`"panic"`), then `create_dir_all` and `spawn`
- `WaitReturns`, which discards the exit status, and `TimeoutFires`, the 40 s
  timeout
- `GetProofStdin`
- `RequestProof`

The proposer's endpoint (`proposer/succinct/bin/server.rs:70-100`) has the
same steps, with `run_native_host(&host_cli, 60 s).await?` in place of the
spawn and the timed wait. `run_native_host` is not in this repository. What
that endpoint does differently lies entirely inside it: whether a failed run
returns `Err`, and whether expiry stops the run. The TODO at lines 90-91 leaves
the first open. A model of it would only restate an assumption, so that
variant is not modelled.

**Correspondence, `ProofGateway`.** A sub-proof envelope is reduced to what
the handler's decoding steps tell apart: base64, bincode and ABI decoding
succeed or not, the proof variant, and the boot info (prestate, poststate, L1
head). A `head` string is reduced to its `0x` prefix, hex-ness, 32-byte length
and the L1 block it names.

| action | source |
|---|---|
| `ReceiveAgg` | everything before the first await: the Json extractor and `deserialize_base64_vec` (a 4xx), the bincode and ABI unwraps (panic), `strip_prefix(..).expect` (panic), `hex::decode(..)?` (500), `try_into().unwrap()` (panic) |
| `FetchHeaders` | `get_header_preimages(..).await?`, then `setup` and `get_agg_proof_stdin`, which panics on a non-Compressed proof |
| `RequestAggProof` | `request_proof(AGG_ELF, stdin, Plonk).await?` |
| `ReceiveStatus` | `env::var("SP1_PRIVATE_KEY")?` and the start of the poll |
| `StatusTimeout`, `StatusAnswered` | the 10 s `tokio::time::timeout` around `get_proof_status`, and the answer with the bytes by variant |
| `JobSettles` | the proof network, from the spec |

## 3. Runs

| run | cfg | checks | shows |
|---|---|---|---|
| wg_safety | `MCWitnessGen_safety.cfg` | TypeOK, GetServable, ReadSound, RunEnds | with upstream and conversion faults and read-ahead, every get is servable, reads return the right trusted header, every run ends |
| wg_liveness | `MCWitnessGen_live.cfg` | RunSucceeds | with no faults, every started run returns Ok |
| wg_lifecycle | `MCWitnessGen_lifecycle.cfg` | ServerStoppedAfterRun (violation) | `run` returns a client error without aborting the server task (lib.rs:141) |
| sg_live | `MCSpanGateway_live.cfg` | RunWaitBounded | once `get_host_cli_args` has returned, the 40 s timeout gets every handler past its child (to the prover, or to an answer) even when the child hangs |
| sg_orphan | `MCSpanGateway_orphan.cfg` | NoOrphanChild (violation) | the timeout returns while the child keeps running (server.rs:93) |
| sg_failed_input | `MCSpanGateway_input.cfg` | ProofOnlyAfterSuccess (violation) | a failed child's request still requests a proof from a leftover snapshot (server.rs:104, 83) |
| pg_safety | `MCProofGateway_safety.cfg` | StatusReturns | the 10 s timeout ends every status poll, however long the proof network takes |
| pg_chain_closure | `MCProofGateway_AggInputClosed.cfg` | AggInputClosed (violation) | a job is submitted whose sub-proof's L1 head lies past the checkpoint head, so the header chain does not cover it (no P4 check, server.rs:127) |
| pg_malformed | `MCProofGateway_AggAnswersMalformedInput.cfg` | AggAnswersMalformedInput (violation) | malformed input panics the handler instead of a BadRequest (lib.rs:97, server.rs:108-124) |

`wg_safety` also checks `ImplementsWitnessRun`, the abstract run of
`WitnessRun` under the identity mapping of `head`, `lastRead` and `run`.

**Bounds.**

`Safe = 2`, `Claimed = 4` and `TxNodes = 2` are the smallest values at which:

- a read walks back two parents;
- the transactions walk both steps and finishes;
- reads below the safe head, between the safe head and the executed head, and
  past both all happen.

`MaxReads = 2` lets a read interleave with block execution before and after an
`update_cache`. `ReadAhead = 1` lets the pipeline ask for the block the
executor has not reached, which is the case the range check exists for. In the
liveness run `ReadAhead = 0`: a read past the safe head is answered with an
error by design ("Block number past L2 head"), so it is excluded there.

Two requests over two spans cover:

- two requests sharing a data directory;
- two requests not sharing one;
- one child orphaned while another runs.

For `ProofGateway`, the handlers of different requests share nothing but the
proof network, so one aggregation request, one status request and one span job
are enough. The status request may poll either job. Five envelopes are used:
two good Compressed ones that chain, a Plonk one, one that does not decode,
and one that is not base64. Five heads are used: good heads at L1 blocks 1 and
2, and one of each malformed kind. Payloads hold up to two sub-proofs, so the
chain and coverage questions arise. This gives 5,120 states.

Every action and every disjunct of all next-state relations is fired by the
passing runs (TLC coverage).

**Fairness.**

- Tokio polls every ready task. The orchestrator, the client task and the
  server task are therefore weakly fair (`WitnessGen.Fairness`).
- In `SpanGateway` a handler is weakly fair only where the code guarantees
  progress (`SpanGateway.Fairness`). That covers the synchronous code between
  awaits (the spawn after `get_host_cli_args`, and `get_proof_stdin` after
  the wait) and the 40 s timer.
- The awaits on the fetcher and the prover (`zkvm-host/bin/server.rs:76-78,
  116-118`) have no timeout, so they get no fairness.
- The child process gets no fairness, because a child can hang. That case is
  what `RunWaitBounded` is about.
- No fairness is assumed for a request arriving.
- In `ProofGateway` only the status timer is fair. The header fetcher and
  the proof network may take any time, because the code puts no timeout
  around them.

**Mutants.** Each property of a passing run is broken by a plausible bug in
the code it is about (`PROJECT.json` "mutants"):

- the transactions walk running one node past the trie;
- `block_by_number` hinting the header instead of the transactions;
- no range check;
- a walk that does not step to the parent;
- the account proof hinted at the executed block instead of its parent;
- no timeout around the child's wait;
- `run` returning Ok whatever the client returned;
- no status timeout.

## 4. Proofs (TLAPS)

**`WitnessGenProofs`.**

- `TypeCorrect`: `Spec => []TypeOK`.
- `GetServableInvariant`: `Spec => []GetServable`.
- `ReadSoundInvariant`: `Spec => []ReadSound`.

All three hold for every safe head, claimed block, trie size, cold store and read
bound allowed by the named `ASSUME`s. None of these invariants is inductive.
The first two follow from `IInv`, which adds:

- `RunPhase`: before `run` starts, the client has not begun and no server
  runs.
- `ChannelsCoupled`: the client uses one channel at a time, and only from its
  own control points. An acknowledged hint is the last hint routed, and a
  pending hint is the one its control point writes.
- `HintPrecedesGet`: at a get point, the last routed hint is the one written
  at the hint point before it.
- `ControlRanges`: the executor works on `head + 1 ≤ Claimed`, so the account
  hint never names block −1 and `update_cache` keeps the head in range. A read
  is on one of the four tables.

`GetServable` follows from these because the key a get point reads is provided
by its own hint (lemma `KeyProvidedByGetHint`). `InitIInv` and `NextIInv`
(one case per action, one step per conjunct) establish `IInv`.

`ReadSound` needs, on top of `IInv`, the walk invariant `WalkInv`:

- a cache row exists only for an executed block, except the partial row a
  failed `update_cache` leaves at `head + 1`;
- the safe-head fetch holds `Safe`;
- a parent fetch never goes below the number asked for, which is at or below
  the safe head;
- the transactions being fetched are those of the header asked for, at or
  below the head.

`NextWalkInv` preserves `WalkInv /\ ReadSound` under `IInv`. The theorems
follow by PTL.

**`SpanGatewayProofs`.**

- `SpanTypeCorrect`: `Spec => []TypeOK` for any sets of requests and spans.

Its strengthening `SpanFixed` says:

- a request's span is set when it arrives and is a real span from then on;
- a handler that has not spawned has no child.

`ChildSucceeds` writes into the directory of `span[r]`, and this is what keeps
that write in range.

**`ProofGatewayProofs`.** `ProofGatewayTypeCorrect` proves
`Spec => []TypeOK` from the named assumption `EnvelopeAssumption` (a
sub-proof holds one of the two variants, and boot infos and heads name L1
blocks). The strengthening adds `PayloadHeld` (a busy aggregation handler
holds a decoded payload) and `IdHeld` (a busy status handler holds a job id);
lemma `AggStdinType` gives the type of the stdin `get_agg_proof_stdin` builds.

**`WitnessRunRefinement`.** `ImplementsWitnessRunTheorem` proves
`Spec => AbstractRun!Spec`: `WitnessGen` implements `WitnessRun`. Initial
states map to the initial state. Each step is one of:

- `Start`: `StartRun` or `StartFails`;
- `Execute`: `BlockCached`, because the executed block is `head + 1 ≤ Claimed`;
- `Answer`: a read that completes, because `ReadSound` holds in the next state;
- `Finish`: `RunReturnsOk`;
- `Fail`: `RunReturnsErr`;
- a stutter.

On top of `RInv`, this needs `RunActive`. The client works only while `run`
is running, and it is done only at `Claimed`.

**What stays with TLC.**

- Liveness (`RunEnds`, `RunSucceeds`, `RunWaitBounded`, `StatusReturns`) needs fairness and
  ENABLED, which this prover does not handle.
- `NoOrphanChild` and `ProofOnlyAfterSuccess` are false for the zkvm-host
  span endpoint (sg_orphan, sg_failed_input), so there is nothing to prove.

## 5. Not modelled, and why

- **The span input `get_proof_stdin`** (the serialised kv-store snapshot) is
  abstracted to reading the snapshot (`SpanGateway.GetProofStdin`).
- **The proposer's span endpoint.** Its behaviour beyond the zkvm-host
  handler is that of `run_native_host`, which is not in this repository (see
  section 3).
- **The fetcher and the proof network** are not in this repository. The
  parts the gateways depend on are modelled from the spec.
- **`proposer/succinct/src/lib.rs`** only declares and re-exports modules that
  are not in this repository.
- **L1 derivation, the EVM and preimage contents** (hash checks, RLP). These
  are data and computation, not control. A panic on a short output preimage
  (`l2_chain_provider.rs:105`) is left to unit tests.
- **No timeout on the aggregation awaits** (`server.rs:127, 133`), nor on the
  span endpoint's awaits on the fetcher and the prover
  (`zkvm-host/bin/server.rs:77, 117`). Nothing bounds them, so no liveness
  property can claim that those requests return.

## 6. Plan for later work

1. An abstract provider specification (a read returns the header of its
   number, or fails), with `L2ChainProvider` shown to refine it.
2. The read-side atomicity of `update_cache` (spec I2), with a reader
   interleaving a failed update in a multi-run model.
