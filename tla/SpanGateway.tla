----------------------------- MODULE SpanGateway ----------------------------
(***************************************************************************)
(* The span-proof endpoint of the out-of-process gateway (C9),            *)
(* request_span_proof in zkvm-host/bin/server.rs:67-121.  axum runs each   *)
(* request in a task of its own, so several handlers interleave at their  *)
(* awaits.  A handler gets the host arguments of its span, creates the    *)
(* span's data directory, spawns native_host_runner as a child process,   *)
(* waits for it under a 40-second timeout, reads the proof input from the *)
(* data directory (get_proof_stdin) and submits it to the prover network. *)
(*                                                                         *)
(* The data directory is a function of the span (the fetcher names it by  *)
(* the block range), so two requests for one span share it.  The child's *)
(* only effect the model keeps is the oracle snapshot it writes to that   *)
(* directory when it succeeds; which request's child wrote it is the      *)
(* snapshot's value.                                                       *)
(*                                                                         *)
(* The proposer's variant of the handler (proposer/succinct/bin/server.rs: *)
(* 70-100) has the same control flow, with run_native_host in place of   *)
(* the spawn and the wait; run_native_host is not in this repository, so *)
(* that variant is not modelled.                                           *)
(***************************************************************************)
EXTENDS Naturals

CONSTANTS
  Reqs,         \* the HTTP requests that arrive
  Spans,        \* the block ranges they may ask for
  None,         \* no request / no snapshot
  RemoteFaults  \* may the fetcher, the file system, cargo or the prover fail?

ASSUME NoneAssumption == None \notin Reqs
ASSUME RemoteFaultsAssumption == RemoteFaults \in BOOLEAN

(* Handler control points, one per await or return of request_span_proof. *)
(* "panic": the handler task panicked and the connection is dropped.     *)
HandlerPcs ==
  {"idle", "cli", "spawn", "wait", "stdin", "prove", "ok", "err", "panic"}

(* The native_host_runner process: not spawned, running, or exited. *)
ChildStates == {"none", "running", "exit_ok", "exit_fail"}

VARIABLES
  hpc,       \* hpc[r]: where the handler of request r is
  span,      \* span[r]: the block range request r asked for
  child,     \* child[r]: the native_host_runner process r spawned
  snapshot   \* snapshot[s]: whose child wrote the snapshot in s's data dir

vars == <<hpc, span, child, snapshot>>

TypeOK ==
  /\ hpc \in [Reqs -> HandlerPcs]
  /\ span \in [Reqs -> Spans \cup {None}]
  /\ child \in [Reqs -> ChildStates]
  /\ snapshot \in [Spans -> Reqs \cup {None}]

(* No request yet; no data directory holds a snapshot. *)
Init ==
  /\ hpc = [r \in Reqs |-> "idle"]
  /\ span = [r \in Reqs |-> None]
  /\ child = [r \in Reqs |-> "none"]
  /\ snapshot = [s \in Spans |-> None]

Returned(r) == hpc[r] \in {"ok", "err"}

(* An error of any `?` ends the handler with a 500 response. *)
Fail(r) ==
  /\ hpc' = [hpc EXCEPT ![r] = "err"]

(***************************************************************************)
(* The handler of one request                                              *)
(***************************************************************************)

(* A POST /request_span_proof {start, end} arrives. *)
Receive(r) ==
  /\ hpc[r] = "idle"
  /\ \E s \in Spans : span' = [span EXCEPT ![r] = s]
  /\ hpc' = [hpc EXCEPT ![r] = "cli"]
  /\ UNCHANGED <<child, snapshot>>

(* get_host_cli_args(start, end) is awaited: RPC calls of the fetcher. *)
GetHostCliArgs(r) ==
  /\ hpc[r] = "cli"
  /\ \/ hpc' = [hpc EXCEPT ![r] = "spawn"]
     \/ RemoteFaults /\ Fail(r)
  /\ UNCHANGED <<span, child, snapshot>>

(* The synchronous run up to the timed wait: host_cli.data_dir.unwrap()  *)
(* and cargo_metadata ... .expect(..) panic when the fetcher gave no data *)
(* directory or cargo fails; create_dir_all(data_dir) keeps whatever the *)
(* directory holds; then the child is spawned and the handler awaits     *)
(* wait() under the timeout.  create_dir_all and spawn may fail (I/O).    *)
SpawnNativeHost(r) ==
  /\ hpc[r] = "spawn"
  /\ \/ /\ hpc' = [hpc EXCEPT ![r] = "wait"]
        /\ child' = [child EXCEPT ![r] = "running"]
     \/ RemoteFaults /\ Fail(r) /\ UNCHANGED child
     \/ RemoteFaults /\ hpc' = [hpc EXCEPT ![r] = "panic"] /\ UNCHANGED child
  /\ UNCHANGED <<span, snapshot>>

(* wait() returns the child's exit status: Ok(status) => status? keeps  *)
(* the ExitStatus and drops it, so a failed child goes on like a good one.*)
WaitReturns(r) ==
  /\ hpc[r] = "wait"
  /\ child[r] \in {"exit_ok", "exit_fail"}
  /\ hpc' = [hpc EXCEPT ![r] = "stdin"]
  /\ UNCHANGED <<span, child, snapshot>>

(* Mutant of TimeoutFires: wait() awaited with no timeout around it. *)
TimeoutFiresNever(r) ==
  /\ FALSE
  /\ Fail(r)
  /\ UNCHANGED <<span, child, snapshot>>

(* The 40-second timeout elapses first: the wait() future is dropped and *)
(* the handler returns the timeout error; the child is not killed.       *)
TimeoutFires(r) ==
  /\ hpc[r] = "wait"
  /\ child[r] = "running"
  /\ Fail(r)
  /\ UNCHANGED <<span, child, snapshot>>

(* get_proof_stdin(&host_cli) reads the snapshot in the span's data     *)
(* directory; with none there it fails.                                  *)
GetProofStdin(r) ==
  /\ hpc[r] = "stdin"
  /\ \/ snapshot[span[r]] # None /\ hpc' = [hpc EXCEPT ![r] = "prove"]
     \/ snapshot[span[r]] = None /\ Fail(r)
  /\ UNCHANGED <<span, child, snapshot>>

(* request_proof(MULTI_BLOCK_ELF, stdin, Compressed) is awaited. *)
RequestProof(r) ==
  /\ hpc[r] = "prove"
  /\ \/ hpc' = [hpc EXCEPT ![r] = "ok"]
     \/ RemoteFaults /\ Fail(r)
  /\ UNCHANGED <<span, child, snapshot>>

(* The handler's wait on its child, under the 40-second timeout. *)
AwaitRun(r) == WaitReturns(r) \/ TimeoutFires(r)

Handler(r) ==
  \/ Receive(r) \/ GetHostCliArgs(r) \/ SpawnNativeHost(r)
  \/ AwaitRun(r) \/ GetProofStdin(r) \/ RequestProof(r)

(***************************************************************************)
(* The child process (native_host_runner), outside the gateway's control. *)
(***************************************************************************)

(* Witness generation succeeds: the child writes its snapshot into the  *)
(* span's data directory and exits 0.                                    *)
ChildSucceeds(r) ==
  /\ child[r] = "running"
  /\ child' = [child EXCEPT ![r] = "exit_ok"]
  /\ snapshot' = [snapshot EXCEPT ![span[r]] = r]
  /\ UNCHANGED <<hpc, span>>

(* Witness generation fails (an RPC error, a block past the safe head): *)
(* the child exits with a nonzero status and writes no snapshot.         *)
ChildFails(r) ==
  /\ child[r] = "running"
  /\ child' = [child EXCEPT ![r] = "exit_fail"]
  /\ UNCHANGED <<hpc, span, snapshot>>

Child(r) == ChildSucceeds(r) \/ ChildFails(r)

(* Every request has returned or panicked; a child may still run or     *)
(* hang.                                                                  *)
Done ==
  /\ \A r \in Reqs : hpc[r] \in {"ok", "err", "panic"}
  /\ UNCHANGED vars

Next ==
  \/ \E r \in Reqs : Handler(r) \/ Child(r)
  \/ Done

(* Tokio polls a handler whose future is ready: the code between two    *)
(* awaits (the spawn after get_host_cli_args, get_proof_stdin after the  *)
(* wait) runs at once, and the 40-second timer fires when it is due.     *)
(* The fetcher's and the prover's awaits have no bound, and a child may  *)
(* hang forever: none of those steps is fair.                            *)
Fairness ==
  \A r \in Reqs :
    WF_vars(SpawnNativeHost(r) \/ AwaitRun(r) \/ GetProofStdin(r))

Spec == Init /\ [][Next]_vars /\ Fairness

-----------------------------------------------------------------------------
(***************************************************************************)
(* Properties                                                              *)
(***************************************************************************)

(* Once get_host_cli_args has returned, the handler reaches the prover  *)
(* or answers, however long its child runs: the 40-second timeout around *)
(* wait() (server.rs:93-101) bounds the only await in between.  (The      *)
(* awaits on the fetcher and the prover have no bound, server.rs:76-78,  *)
(* 116-118, so nothing more is promised.)                                 *)
RunWaitBounded ==
  \A r \in Reqs :
    hpc[r] \in {"spawn", "wait", "stdin"} ~>
      hpc[r] \in {"prove", "ok", "err", "panic"}

(* Spec 5 and P6: when the gateway gives up on a run, the run stops; no *)
(* witness-generation process outlives the request that started it.     *)
NoOrphanChild ==
  \A r \in Reqs : Returned(r) => child[r] # "running"

(* Spec 4.9 and the TODO at proposer/succinct/bin/server.rs:90-91: a    *)
(* proof is requested only after this request's own witness generation  *)
(* succeeded.                                                            *)
ProofOnlyAfterSuccess ==
  \A r \in Reqs : hpc[r] \in {"prove", "ok"} => child[r] = "exit_ok"
=============================================================================
