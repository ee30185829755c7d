---------------------------- MODULE ProofGateway ----------------------------
(***************************************************************************)
(* The aggregation and status endpoints of the gateway (C9) and the       *)
(* aggregate proof-input assembler (C8), over the remote proof network.   *)
(* Both server binaries (proposer/succinct/bin/server.rs and              *)
(* zkvm-host/bin/server.rs) carry the same request_agg_proof and          *)
(* get_proof_status; axum runs every request in a task of its own.        *)
(*                                                                         *)
(* A sub-proof envelope is abstracted to what the handler's decoding      *)
(* steps tell apart: whether its base64, its bincode and the ABI decoding *)
(* of its public-values prefix succeed, which proof variant it holds and  *)
(* the boot info it commits to.  A boot info is (prestate, poststate, L1  *)
(* head); L1 headers are block numbers.  A `head` string is abstracted to *)
(* its "0x" prefix, whether it is hex, whether it decodes to 32 bytes,    *)
(* and the L1 block it names.                                             *)
(***************************************************************************)
EXTENDS Naturals, Sequences

CONSTANTS
  AggReqs,       \* POST /request_agg_proof requests; each is its own proof id
  StatusReqs,    \* GET /status/:proof_id requests
  SpanIds,       \* proof ids of span jobs submitted earlier (Compressed)
  SubProofs,     \* the sub-proof envelopes a request may carry
  Heads,         \* the `head` strings a request may carry
  MaxSubproofs,  \* the longest subproofs list a request carries
  L1Blocks,      \* the L1 block numbers
  None,
  RemoteFaults   \* may the fetcher, the prover network or the env fail?

ASSUME AggAssumption == AggReqs \cap SpanIds = {} /\ None \notin AggReqs \cup SpanIds
ASSUME BoundAssumption == MaxSubproofs \in Nat \ {0} /\ L1Blocks \subseteq Nat
ASSUME FaultsAssumption == RemoteFaults \in BOOLEAN

Ids == AggReqs \cup SpanIds

(* The SP1Proof variants a proof network job produces. *)
Modes == {"compressed", "plonk"}

(* The envelopes a request may carry and the payloads built from them. *)
Payloads ==
  [subs : UNION {[1 .. k -> SubProofs] : k \in 1 .. MaxSubproofs}, head : Heads]

(* A sub-proof holds one of the two variants the network produces, and *)
(* the boot infos' L1 heads and every checkpoint head name L1 blocks.   *)
ASSUME EnvelopeAssumption ==
  /\ \A sp \in SubProofs : sp.proof \in Modes /\ sp.boot.l1 \in L1Blocks
  /\ \A h \in Heads : h.n \in L1Blocks

(* Where an aggregation handler is: before its first await, awaiting the *)
(* header fetch, awaiting request_proof, or returned.  "panic" is a      *)
(* handler task that panicked: the connection is dropped, no response.   *)
(* "rejected" is the Json extractor refusing the body (a 4xx).           *)
AggPcs == {"idle", "fetch", "prove", "ok", "err", "panic", "rejected"}

(* Where a status handler is, and what the network tells about a job. *)
StatusPcs == {"idle", "poll", "ok", "err"}
JobStates == {"unknown", "requested", "fulfilled", "unfulfillable"}

(* The proof bytes of a status response: none, the whole bincode of the *)
(* SP1ProofWithPublicValues, or only the on-chain proof bytes.           *)
ProofBytes == {"empty", "full", "onchain"}

VARIABLES
  apc,      \* apc[a]: where the handler of aggregation request a is
  req,      \* req[a]: the payload of request a
  stdin,    \* stdin[a]: the aggregation stdin request a built
  net,      \* net[id]: the proof network's state of job id
  spc,      \* spc[q]: where the handler of status request q is
  polled,   \* polled[q]: the proof id status request q asks about
  resp      \* resp[q]: the (status, proof bytes) q answered with

vars == <<apc, req, stdin, net, spc, polled, resp>>

Boots == {sp.boot : sp \in SubProofs}

(* The ProofMode a job was requested with: the span endpoint asks for  *)
(* Compressed, the aggregation endpoint for Plonk.                      *)
Mode(id) == IF id \in SpanIds THEN "compressed" ELSE "plonk"

TypeOK ==
  /\ apc \in [AggReqs -> AggPcs]
  /\ req \in [AggReqs -> Payloads \cup {None}]
  /\ stdin \in [AggReqs -> [proofs : Seq(Modes), boots : Seq(Boots),
                            head : L1Blocks, headers : SUBSET L1Blocks]
                           \cup {None}]
  /\ net \in [Ids -> JobStates]
  /\ spc \in [StatusReqs -> StatusPcs]
  /\ polled \in [StatusReqs -> Ids \cup {None}]
  /\ resp \in [StatusReqs -> [status : JobStates, bytes : ProofBytes] \cup {None}]

(* The span jobs are on the network; no aggregation job is yet. *)
Init ==
  /\ apc = [a \in AggReqs |-> "idle"]
  /\ req = [a \in AggReqs |-> None]
  /\ stdin = [a \in AggReqs |-> None]
  /\ net = [id \in Ids |-> IF id \in SpanIds THEN "requested" ELSE "unknown"]
  /\ spc = [q \in StatusReqs |-> "idle"]
  /\ polled = [q \in StatusReqs |-> None]
  /\ resp = [q \in StatusReqs |-> None]


(***************************************************************************)
(* What the synchronous prefix of request_agg_proof decides about a       *)
(* payload, in the order the code meets it.                                *)
(***************************************************************************)

(* deserialize_base64_vec: every string of `subproofs` is base64. *)
Base64Decodes(p) == \A i \in DOMAIN p.subs : p.subs[i].b64

(* bincode::deserialize(sp).unwrap() and RawBootInfo::abi_decode(..)     *)
(* .unwrap() succeed for every sub-proof.                                 *)
EnvelopesDecode(p) == \A i \in DOMAIN p.subs : p.subs[i].bin /\ p.subs[i].abi

(* The boot infos read from the public-values prefixes, in order. *)
BootInfos(p) == [i \in DOMAIN p.subs |-> p.subs[i].boot]

(* The L1 header chain the fetcher returns: from the earliest L1 head    *)
(* among the boot infos up to the checkpoint head.                        *)
HeaderChain(p) ==
  LET l1s == {p.subs[i].boot.l1 : i \in DOMAIN p.subs}
      lo == CHOOSE m \in l1s : \A k \in l1s : m <= k
  IN {n \in L1Blocks : lo <= n /\ n <= p.head.n}

(* get_agg_proof_stdin: one (proof, range vkey) pair per sub-proof, then *)
(* the boot infos and the checkpoint head, then the header chain.         *)
AggStdin(p, headers) ==
  [proofs |-> [i \in DOMAIN p.subs |-> p.subs[i].proof],
   boots |-> BootInfos(p), head |-> p.head.n, headers |-> headers]

(* The `let SP1Proof::Compressed(..) = proof else { panic!() }` check. *)
AllCompressed(p) == \A i \in DOMAIN p.subs : p.subs[i].proof = "compressed"

SetApc(a, where) == apc' = [apc EXCEPT ![a] = where]

(***************************************************************************)
(* The handler of one aggregation request                                  *)
(***************************************************************************)

(* A POST /request_agg_proof arrives and runs up to its first await:    *)
(* decode the envelopes, read the boot infos, parse `head`.  A non-base64 *)
(* string is refused by the Json extractor; an envelope or public values *)
(* that do not decode, a head without "0x" or of the wrong length panic;  *)
(* a head that is not hex is a 500.                                       *)
ReceiveAgg(a) ==
  /\ apc[a] = "idle"
  /\ \E p \in Payloads :
       /\ req' = [req EXCEPT ![a] = p]
       /\ \/ ~Base64Decodes(p) /\ SetApc(a, "rejected")
          \/ Base64Decodes(p) /\ ~EnvelopesDecode(p) /\ SetApc(a, "panic")
          \/ /\ Base64Decodes(p) /\ EnvelopesDecode(p)
             /\ \/ ~p.head.prefix /\ SetApc(a, "panic")
                \/ p.head.prefix /\ ~p.head.hex /\ SetApc(a, "err")
                \/ p.head.prefix /\ p.head.hex /\ ~p.head.len32 /\ SetApc(a, "panic")
                \/ p.head.prefix /\ p.head.hex /\ p.head.len32 /\ SetApc(a, "fetch")
  /\ UNCHANGED <<stdin, net, spc, polled, resp>>

(* The header fetch returns (or fails upstream); prover.setup and        *)
(* get_agg_proof_stdin run without an await; the stdin builder panics on  *)
(* a sub-proof that is not Compressed.                                    *)
FetchHeaders(a) ==
  /\ apc[a] = "fetch"
  /\ \/ /\ AllCompressed(req[a])
        /\ stdin' = [stdin EXCEPT ![a] = AggStdin(req[a], HeaderChain(req[a]))]
        /\ SetApc(a, "prove")
     \/ ~AllCompressed(req[a]) /\ SetApc(a, "panic") /\ UNCHANGED stdin
     \/ RemoteFaults /\ SetApc(a, "err") /\ UNCHANGED stdin
  /\ UNCHANGED <<req, net, spc, polled, resp>>

(* prover.request_proof(AGG_ELF, stdin, Plonk) is awaited: the network  *)
(* takes the job under the request's proof id, or the call fails.        *)
RequestAggProof(a) ==
  /\ apc[a] = "prove"
  /\ \/ net' = [net EXCEPT ![a] = "requested"] /\ SetApc(a, "ok")
     \/ RemoteFaults /\ SetApc(a, "err") /\ UNCHANGED net
  /\ UNCHANGED <<req, stdin, spc, polled, resp>>

AggHandler(a) == ReceiveAgg(a) \/ FetchHeaders(a) \/ RequestAggProof(a)

(***************************************************************************)
(* The handler of one status request                                       *)
(***************************************************************************)

(* A GET /status/:proof_id arrives; env::var("SP1_PRIVATE_KEY")? may   *)
(* fail; otherwise get_proof_status is awaited under a 10 s timeout.    *)
ReceiveStatus(q) ==
  /\ spc[q] = "idle"
  /\ \E id \in Ids : polled' = [polled EXCEPT ![q] = id]
  /\ \/ spc' = [spc EXCEPT ![q] = "poll"]
     \/ RemoteFaults /\ spc' = [spc EXCEPT ![q] = "err"]
  /\ UNCHANGED <<apc, req, stdin, net, resp>>

(* Mutant of StatusTimeout: the poll awaited with no timeout around it. *)
StatusTimeoutNever(q) ==
  /\ FALSE
  /\ spc' = [spc EXCEPT ![q] = "err"]
  /\ UNCHANGED <<apc, req, stdin, net, polled, resp>>

(* The 10-second timeout elapses first: "Proof status request timed out". *)
StatusTimeout(q) ==
  /\ spc[q] = "poll"
  /\ spc' = [spc EXCEPT ![q] = "err"]
  /\ UNCHANGED <<apc, req, stdin, net, polled, resp>>

(* The proof bytes of the answer: a fulfilled Compressed proof is       *)
(* re-serialized whole with bincode, a fulfilled Plonk proof gives only  *)
(* its on-chain bytes, anything else no bytes.                           *)
StatusBytes(id) ==
  IF net[id] = "fulfilled"
    THEN IF Mode(id) = "compressed" THEN "full" ELSE "onchain"
    ELSE "empty"

(* The network answers in time: an unknown id or a network error is a  *)
(* 500 ("Failed to get proof status"); otherwise the status and bytes.  *)
StatusAnswered(q) ==
  /\ spc[q] = "poll"
  /\ \/ /\ net[polled[q]] # "unknown"
        /\ resp' = [resp EXCEPT ![q] = [status |-> net[polled[q]],
                                        bytes |-> StatusBytes(polled[q])]]
        /\ spc' = [spc EXCEPT ![q] = "ok"]
     \/ /\ net[polled[q]] = "unknown" \/ RemoteFaults
        /\ spc' = [spc EXCEPT ![q] = "err"]
        /\ UNCHANGED resp
  /\ UNCHANGED <<apc, req, stdin, net, polled>>

StatusHandler(q) == ReceiveStatus(q) \/ StatusTimeout(q) \/ StatusAnswered(q)

(***************************************************************************)
(* The proof network, outside the gateway                                  *)
(***************************************************************************)

(* A requested job is proved, or its execution fails on the cluster. *)
JobSettles(id) ==
  /\ net[id] = "requested"
  /\ net' \in {[net EXCEPT ![id] = st] : st \in {"fulfilled", "unfulfillable"}}
  /\ UNCHANGED <<apc, req, stdin, spc, polled, resp>>

Returned ==
  /\ \A a \in AggReqs : apc[a] \notin {"idle", "fetch", "prove"}
  /\ \A q \in StatusReqs : spc[q] \in {"ok", "err"}

(* Every request has returned and no job is pending. *)
Done ==
  /\ Returned
  /\ \A id \in Ids : net[id] # "requested"
  /\ UNCHANGED vars

Next ==
  \/ \E a \in AggReqs : AggHandler(a)
  \/ \E q \in StatusReqs : StatusHandler(q)
  \/ \E id \in Ids : JobSettles(id)
  \/ Done

(* Tokio polls every ready task and the status timer fires when due; the *)
(* network and the fetcher may take any time, so nothing else is fair.   *)
Fairness == \A q \in StatusReqs : WF_vars(StatusTimeout(q))

Spec == Init /\ [][Next]_vars /\ Fairness

-----------------------------------------------------------------------------
(***************************************************************************)
(* Properties                                                              *)
(***************************************************************************)

(* Spec 5: a status request always gets its answer, however long the    *)
(* proof network takes: the 10 s timeout around get_proof_status         *)
(* (server.rs:149-153) ends every poll.                                  *)
StatusReturns ==
  \A q \in StatusReqs : spc[q] = "poll" ~> spc[q] \in {"ok", "err"}

(* Spec P4 and scenario 4: for any aggregation job submitted, adjacent   *)
(* boot infos chain (poststate = next prestate) and every sub-proof's L1 *)
(* head lies in the header chain.                                         *)
AggInputClosed ==
  \A a \in AggReqs :
    net[a] # "unknown" =>
      /\ \A i \in DOMAIN stdin[a].boots :
           i + 1 \in DOMAIN stdin[a].boots =>
             stdin[a].boots[i].post = stdin[a].boots[i + 1].pre
      /\ \A i \in DOMAIN stdin[a].boots : stdin[a].boots[i].l1 \in stdin[a].headers

(* Spec 7, 9(b) and scenario 5: malformed input (a non-compressed        *)
(* sub-proof, a malformed head) is answered with an error, never by a    *)
(* panicking handler that drops the connection.                          *)
AggAnswersMalformedInput ==
  \A a \in AggReqs : apc[a] # "panic"

=============================================================================
