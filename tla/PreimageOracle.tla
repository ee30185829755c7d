--------------------------- MODULE PreimageOracle ---------------------------
(***************************************************************************)
(* The host side of one witness-generation run: the preimage channel pair  *)
(* (C1), the key-value store (C2), the hint handler (C4) and the preimage  *)
(* server (C5).  The host code is the kona host that the repository        *)
(* drives through `start_server` (utils/host/src/lib.rs:136-139); it is    *)
(* not part of this repository, so every action here is modelled from the *)
(* spec (sections 4.1, 4.2, 4.4, 4.5 and 7).                               *)
(*                                                                         *)
(* Keys and hints are abstracted to their type and the L2 block number     *)
(* they are about.  A hint is advisory: routing it only remembers it as    *)
(* the last hint; a `get` of a key missing from the store makes the server *)
(* fetch everything the last hint names and look again, for as long as the *)
(* key is missing.                                                         *)
(***************************************************************************)
EXTENDS Naturals

CONSTANTS
  Safe,           \* number of the L2 safe head the agreed prestate commits to
  Claimed,        \* claimed L2 block number of the run (last block executed)
  TxNodes,        \* nodes of one block's transactions trie
  ColdStore,      \* keys already on disk from earlier runs
  UpstreamFaults  \* may an RPC fetch of the hint handler fail?

ASSUME SafeAssumption == Safe \in Nat
ASSUME ClaimedAssumption == Claimed \in Nat /\ Safe < Claimed
ASSUME TxNodesAssumption == TxNodes \in Nat \ {0}
ASSUME UpstreamFaultsAssumption == UpstreamFaults \in BOOLEAN

Blocks == 0 .. Claimed

(* Preimage keys: the starting output, L2 headers, transactions-trie nodes *)
(* of a block, state-trie nodes of the account proofs at a block, and     *)
(* contract code (all Keccak256 keys in the code).                        *)
Key(t, n, j) == [t |-> t, n |-> n, j |-> j]
OutputKey == Key("output", 0, 0)
Keys ==
  {k \in [t : {"output", "header", "acct", "code", "txnode"},
          n : Blocks, j : 0 .. TxNodes] :
     /\ k.t = "output" => k.n = 0
     /\ (k.t = "txnode") = (k.j # 0)}

(* Hints, by the tag the client writes (kona HintType) and a block number. *)
Hint(t, n) == [t |-> t, n |-> n]
Hints ==
  {h \in [t : {"starting-l2-output", "l2-block-header", "l2-transactions",
              "l2-account-proof", "l2-code"}, n : Blocks] :
     h.t = "starting-l2-output" => h.n = 0}

NoHint == Hint("none", 0)
NoKey == Key("none", 0, 0)

(* The key type the hint handler stores for each hint tag (spec 4.4). *)
Stores(tag) ==
  CASE tag = "starting-l2-output" -> "output"
    [] tag = "l2-block-header"    -> "header"
    [] tag = "l2-transactions"    -> "txnode"
    [] tag = "l2-account-proof"   -> "acct"
    [] tag = "l2-code"            -> "code"

(* The keys the hint handler writes to the store when it fetches hint h. *)
Provides(h) ==
  IF h = NoHint THEN {} ELSE {k \in Keys : k.t = Stores(h.t) /\ k.n = h.n}

ASSUME ColdStoreAssumption == ColdStore \subseteq Keys

VARIABLES
  kv,        \* keys present in the shared key-value store (hot + cold)
  lastHint,  \* the last hint routed by the hint handler
  hintReq,   \* hint frame written by the client, not yet acknowledged
  hintAck,   \* the host's acknowledgement of hintReq is in the channel
  getReq,    \* key of the `get` frame written by the client
  getResp,   \* the value for getReq is in the channel
  srv,       \* the server task: "idle", "running", "failed" or "aborted"
  snapshot   \* keys the client has read: the in-memory oracle it returns

oracleVars == <<kv, lastHint, hintReq, hintAck, getReq, getResp, srv, snapshot>>

OracleTypeOK ==
  /\ kv \subseteq Keys
  /\ lastHint \in Hints \cup {NoHint}
  /\ hintReq \in Hints \cup {NoHint}
  /\ hintAck \in BOOLEAN
  /\ getReq \in Keys \cup {NoKey}
  /\ getResp \in BOOLEAN
  /\ srv \in {"idle", "running", "failed", "aborted"}
  /\ snapshot \subseteq Keys

OracleInit ==
  /\ kv = ColdStore
  /\ lastHint = NoHint
  /\ hintReq = NoHint
  /\ hintAck = FALSE
  /\ getReq = NoKey
  /\ getResp = FALSE
  /\ srv = "idle"
  /\ snapshot = {}

(* A get frame is waiting for the server. *)
GetPending == getReq # NoKey /\ ~getResp

(***************************************************************************)
(* Server task: the hint router and the oracle server loops.              *)
(***************************************************************************)

(* The hint router reads a hint frame, remembers it and acknowledges it. *)
RouteHint ==
  /\ srv = "running"
  /\ hintReq # NoHint /\ ~hintAck
  /\ lastHint' = hintReq
  /\ hintAck' = TRUE
  /\ UNCHANGED <<kv, hintReq, getReq, getResp, srv, snapshot>>

(* The oracle server answers a get whose key is in the store. *)
ServeGet ==
  /\ srv = "running"
  /\ GetPending
  /\ getReq \in kv
  /\ getResp' = TRUE
  /\ UNCHANGED <<kv, lastHint, hintReq, hintAck, getReq, srv, snapshot>>

(* A get misses: the server fetches the last hint's data and stores it.  *)
(* It repeats this for as long as the key stays missing.  (With no hint  *)
(* routed yet the server answers "preimage not found"; the provider      *)
(* never gets before it hints, so that path is left out.)                *)
FetchLastHint ==
  /\ srv = "running"
  /\ GetPending
  /\ getReq \notin kv
  /\ lastHint # NoHint
  /\ kv' = kv \cup Provides(lastHint)
  /\ UNCHANGED <<lastHint, hintReq, hintAck, getReq, getResp, srv, snapshot>>

(* An upstream RPC call of the fetch fails; the error ends the server.   *)
UpstreamFail ==
  /\ UpstreamFaults
  /\ srv = "running"
  /\ GetPending
  /\ getReq \notin kv
  /\ lastHint # NoHint
  /\ srv' = "failed"
  /\ UNCHANGED <<kv, lastHint, hintReq, hintAck, getReq, getResp, snapshot>>

ServerStep == RouteHint \/ ServeGet \/ FetchLastHint \/ UpstreamFail

(***************************************************************************)
(* Client ends of the channels (kona HintWriter / OracleReader), used by  *)
(* the client-side modules.                                               *)
(***************************************************************************)

(* Write a hint frame; the writer then blocks on the acknowledgement. *)
WriteHint(h) ==
  /\ hintReq = NoHint /\ ~hintAck
  /\ hintReq' = h
  /\ UNCHANGED <<kv, lastHint, hintAck, getReq, getResp, srv, snapshot>>

(* Read the acknowledgement of the hint frame. *)
ReadAck ==
  /\ hintAck
  /\ hintReq' = NoHint
  /\ hintAck' = FALSE
  /\ UNCHANGED <<kv, lastHint, getReq, getResp, srv, snapshot>>

(* Write a get frame; the reader then blocks on the value. *)
WriteGet(k) ==
  /\ getReq = NoKey /\ ~getResp
  /\ getReq' = k
  /\ UNCHANGED <<kv, lastHint, hintReq, hintAck, getResp, srv, snapshot>>

(* Read the value of the get frame. *)
ReadValue ==
  /\ getResp
  /\ getReq' = NoKey
  /\ getResp' = FALSE
  /\ snapshot' = snapshot \cup {getReq}
  /\ UNCHANGED <<kv, lastHint, hintReq, hintAck, srv>>

(* The client is blocked on one of the two channels. *)
ClientBlocked == hintReq # NoHint \/ getReq # NoKey

=============================================================================
