----------------------------- MODULE WitnessGen -----------------------------
(***************************************************************************)
(* One witness-generation run (C7 composing C1-C6): the host orchestrator *)
(* OPSuccinctHost::run (utils/host/src/lib.rs:132-146) starts the server  *)
(* task, runs the replay client to completion and aborts the server.      *)
(*                                                                         *)
(* The replay client's driver (run_witnessgen_client, not in this         *)
(* repository) is modelled from spec 4.6: the derivation pipeline reads   *)
(* L2 blocks by number through the provider, at most MaxReads times and   *)
(* never more than ReadAhead blocks past the executed head; the executor  *)
(* executes the blocks after the safe head one by one up to Claimed,      *)
(* calling update_cache after each; then the client returns its oracle.  *)
(***************************************************************************)
EXTENDS L2ChainProvider

CONSTANTS
  MaxReads,   \* bound on the number-keyed reads of the pipeline
  ReadAhead   \* how far past the executed head the pipeline may read

ASSUME MaxReadsAssumption == MaxReads \in Nat
ASSUME ReadAheadAssumption == ReadAhead \in Nat

VARIABLES
  head,   \* number of the last block executed (the safe head at first)
  reads,  \* number-keyed reads issued so far
  run     \* the orchestrator: "init", "running", "ok" or "err"

driverVars == <<head, reads, run>>
vars == <<oracleVars, providerVars, driverVars>>

TypeOK ==
  /\ OracleTypeOK
  /\ ProviderTypeOK
  /\ head \in Safe .. Claimed
  /\ reads \in 0 .. MaxReads
  /\ run \in {"init", "running", "ok", "err"}

Init ==
  /\ OracleInit
  /\ ProviderInit
  /\ head = Safe
  /\ reads = 0
  /\ run = "init"

(***************************************************************************)
(* Orchestrator                                                            *)
(***************************************************************************)

(* Create the two channels and spawn the server task on their host ends. *)
StartRun ==
  /\ run = "init"
  /\ srv' = "running"
  /\ run' = "running"
  /\ pc' = "idle"
  /\ UNCHANGED <<kv, lastHint, hintReq, hintAck, getReq, getResp, snapshot>>
  /\ UNCHANGED <<cache, req, cur, want, tx, lastRead, head, reads>>

(* Channel creation or start_server fails: run returns the error. *)
StartFails ==
  /\ run = "init"
  /\ run' = "err"
  /\ UNCHANGED <<oracleVars, providerVars, head, reads>>

(* Mutant of RunReturnsOk: the client's error is swallowed and run     *)
(* returns Ok whatever the client returned.                              *)
RunReturnsOkOnFailure ==
  /\ run = "running"
  /\ pc \in {"done", "failed"}
  /\ srv' = IF srv = "running" THEN "aborted" ELSE srv
  /\ run' = "ok"
  /\ UNCHANGED <<kv, lastHint, hintReq, hintAck, getReq, getResp, snapshot>>
  /\ UNCHANGED <<providerVars, head, reads>>

(* The client returned its oracle: abort the server task, return Ok. *)
RunReturnsOk ==
  /\ run = "running"
  /\ pc = "done"
  /\ srv' = IF srv = "running" THEN "aborted" ELSE srv
  /\ run' = "ok"
  /\ UNCHANGED <<kv, lastHint, hintReq, hintAck, getReq, getResp, snapshot>>
  /\ UNCHANGED <<providerVars, head, reads>>

(* The client returned an error: `?` returns it at once. *)
RunReturnsErr ==
  /\ run = "running"
  /\ pc = "failed"
  /\ run' = "err"
  /\ UNCHANGED <<oracleVars, providerVars, head, reads>>

(* The run has returned; nothing is left to do. *)
Returned ==
  /\ run \in {"ok", "err"}
  /\ UNCHANGED vars

(***************************************************************************)
(* Client driver: derivation pipeline and block executor                   *)
(***************************************************************************)

(* The pipeline reads table tbl of block n through the provider. *)
PipelineRead ==
  /\ run = "running"
  /\ reads < MaxReads
  /\ \E tbl \in Tables, n \in 0 .. head + ReadAhead :
        /\ n \in Blocks
        /\ ReadStart(tbl, n)
  /\ reads' = reads + 1
  /\ UNCHANGED <<head, run>>

(* The executor starts on the block after the head. *)
ExecuteBlock ==
  /\ run = "running"
  /\ pc = "idle"
  /\ head < Claimed
  /\ req' = [tbl |-> "exec", n |-> head + 1]
  /\ pc' = "acct_hint"
  /\ UNCHANGED <<cache, cur, want, tx, lastRead>>
  /\ UNCHANGED <<oracleVars, driverVars>>

(* The executed block is cached and becomes the head. *)
BlockCached ==
  /\ UpdateCache
  /\ head' = req.n
  /\ UNCHANGED <<reads, run>>

(* The claimed block is executed and its output root checked: the client *)
(* returns the in-memory oracle.                                          *)
ClientFinish ==
  /\ run = "running"
  /\ pc = "idle"
  /\ head = Claimed
  /\ pc' = "done"
  /\ UNCHANGED <<cache, req, cur, want, tx, lastRead>>
  /\ UNCHANGED <<oracleVars, driverVars>>

ClientStep ==
  \/ PipelineRead \/ ExecuteBlock \/ BlockCached \/ ClientFinish
  \/ UpdateCacheFails /\ UNCHANGED driverVars
  \/ ProviderStep /\ UNCHANGED driverVars

OrchestratorStep == StartRun \/ StartFails \/ RunReturnsOk \/ RunReturnsErr

Next ==
  \/ OrchestratorStep
  \/ ClientStep
  \/ ServerStep /\ UNCHANGED <<providerVars, driverVars>>
  \/ Returned

(* Tokio polls every ready task, so each of the three makes progress. *)
Fairness ==
  /\ WF_vars(OrchestratorStep)
  /\ WF_vars(ClientStep)
  /\ WF_vars(ServerStep /\ UNCHANGED <<providerVars, driverVars>>)

Spec == Init /\ [][Next]_vars /\ Fairness

-----------------------------------------------------------------------------
(***************************************************************************)
(* Properties                                                              *)
(***************************************************************************)

(* No hang in the preimage server: whenever a get of the client waits at *)
(* the server, its key is in the store or is fetched by the last hint.   *)
(* The provider relies on this when trie_node_preimage reads without a   *)
(* hint of its own (l2_chain_provider.rs:208-218) and whenever a get     *)
(* follows a hint; a key neither stored nor hinted makes the server      *)
(* refetch the last hint forever.                                         *)
GetServable ==
  GetPending => getReq \in kv \cup Provides(lastHint)

(* A number-keyed read that returns Ok returns the header of the number  *)
(* asked for, and of a block that is either at or below the safe head   *)
(* (walked back by hash) or already executed and cached: the walk of    *)
(* header_by_number stops at the right header and the range check keeps *)
(* it from answering past the safe head (l2_chain_provider.rs:84-121).   *)
ReadSound ==
  lastRead # NoRead => lastRead.got = lastRead.n /\ lastRead.n <= head

(* Every run ends: the client's hints, gets and the server's answers     *)
(* never wait on each other forever, and the orchestrator returns.       *)
RunEnds == <>(run \in {"ok", "err"})

(* Without upstream or conversion faults and with the pipeline reading   *)
(* no block that is not yet executed, every run whose server started     *)
(* returns Ok: no get of the client is left waiting on a key the server  *)
(* cannot fetch.                                                         *)
RunSucceeds == (run = "running") ~> (run = "ok")

(* Once run has returned, the server task it spawned is not running     *)
(* (spec 4.7 and 7: the auxiliary task is aborted on every exit path).   *)
ServerStoppedAfterRun ==
  run \in {"ok", "err"} => srv # "running"

(* The abstract run, under the identity mapping of head, lastRead, run. *)
AbstractRun == INSTANCE WitnessRun

(* OPSuccinctHost::run with the provider implements the abstract run:    *)
(* reads answer with the header asked for at or below the head, blocks   *)
(* are executed one at a time up to the claimed block, and run returns   *)
(* Ok (lib.rs:141-145) only after the client executed the claimed block. *)
ImplementsWitnessRun == AbstractRun!Spec

=============================================================================
