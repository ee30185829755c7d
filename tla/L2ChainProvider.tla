--------------------------- MODULE L2ChainProvider --------------------------
(***************************************************************************)
(* The caching, oracle-backed L2 chain provider (C3) of the replay client, *)
(* utils/client/src/l2_chain_provider.rs: its four per-number caches, its *)
(* number-keyed reads with the walk back from the safe head, the trie     *)
(* provider and hinter calls the block executor makes through it, and     *)
(* `update_cache`.                                                         *)
(*                                                                         *)
(* The provider runs inside the client task, which is sequential: `pc` is *)
(* where the task is in the provider's code.  Every oracle call is a      *)
(* hint or a get over the channels of PreimageOracle, and the task blocks *)
(* on each until the host answers; each await is a step of its own.  The  *)
(* synchronous cache lookups at the head of each read are one step, since *)
(* no other task touches the caches.                                      *)
(*                                                                         *)
(* Headers are identified by their block number; the output preimage of  *)
(* the agreed prestate names the safe head, and a header names its parent *)
(* (number - 1).                                                           *)
(***************************************************************************)
EXTENDS PreimageOracle

CONSTANT
  ConversionFaults  \* may `to_system_config` / `from_block_and_genesis` fail?

ASSUME ConversionFaultsAssumption == ConversionFaults \in BOOLEAN

(* The four per-number caches, as the tables a cache row may hold. *)
Tables == {"header", "block", "info", "sysconf"}

(* The client task's control points in the provider's code. *)
HintPcs == {"out_hint", "safe_hint", "parent_hint", "tx_hint", "acct_hint", "code_hint"}
GetPcs  == {"out_get", "safe_get", "parent_get", "tx_get", "acct_get", "code_get"}
Pcs == HintPcs \cup GetPcs \cup {"init", "idle", "update", "done", "failed"}

NoRead == [tbl |-> "none", n |-> 0, got |-> 0]

VARIABLES
  cache,     \* cache[n]: the tables holding a row for block number n
  pc,        \* control point of the client task
  req,       \* the read in progress (table, number) or the block executed
  cur,       \* number of the header the current read holds
  want,      \* number of the header header_by_hash is fetching
  tx,        \* index of the transactions-trie node being fetched
  lastRead   \* the last read that returned Ok: table, number, header got

providerVars == <<cache, pc, req, cur, want, tx, lastRead>>

ProviderTypeOK ==
  /\ cache \in [Blocks -> SUBSET Tables]
  /\ pc \in Pcs
  /\ req \in [tbl : Tables \cup {"exec", "none"}, n : Blocks]
  /\ cur \in Blocks
  /\ want \in Blocks
  /\ tx \in 1 .. TxNodes
  /\ lastRead \in [tbl : Tables, n : Blocks, got : Blocks] \cup {NoRead}

(* MultiblockOracleL2ChainProvider::new: four empty caches. *)
ProviderInit ==
  /\ cache = [n \in Blocks |-> {}]
  /\ pc = "init"
  /\ req = [tbl |-> "none", n |-> 0]
  /\ cur = 0
  /\ want = 0
  /\ tx = 1
  /\ lastRead = NoRead

(* Mutants of HintAt: block_by_number hinting the header instead of the  *)
(* transactions, and the account proof hinted at the block itself rather *)
(* than at its parent.                                                   *)
HintAtTxAsHeader ==
  CASE pc = "out_hint"                    -> Hint("starting-l2-output", 0)
    [] pc \in {"safe_hint", "parent_hint"} -> Hint("l2-block-header", want)
    [] pc = "tx_hint"                     -> Hint("l2-block-header", cur)
    [] pc = "acct_hint"                   -> Hint("l2-account-proof", req.n - 1)
    [] pc = "code_hint"                   -> Hint("l2-code", req.n)

HintAtAcctOffByOne ==
  CASE pc = "out_hint"                    -> Hint("starting-l2-output", 0)
    [] pc \in {"safe_hint", "parent_hint"} -> Hint("l2-block-header", want)
    [] pc = "tx_hint"                     -> Hint("l2-transactions", cur)
    [] pc = "acct_hint"                   -> Hint("l2-account-proof", req.n)
    [] pc = "code_hint"                   -> Hint("l2-code", req.n)

(* The hint written at each hint point, and the key read at each get point. *)
HintAt ==
  CASE pc = "out_hint"                    -> Hint("starting-l2-output", 0)
    [] pc \in {"safe_hint", "parent_hint"} -> Hint("l2-block-header", want)
    [] pc = "tx_hint"                     -> Hint("l2-transactions", cur)
    [] pc = "acct_hint"                   -> Hint("l2-account-proof", req.n - 1)
    [] pc = "code_hint"                   -> Hint("l2-code", req.n)

KeyAt ==
  CASE pc = "out_get"                     -> OutputKey
    [] pc \in {"safe_get", "parent_get"}  -> Key("header", want, 0)
    [] pc = "tx_get"                      -> Key("txnode", cur, tx)
    [] pc = "acct_get"                    -> Key("acct", req.n - 1, 0)
    [] pc = "code_get"                    -> Key("code", req.n, 0)

(* The get point that follows each hint point. *)
GetAfter(p) ==
  CASE p = "out_hint"    -> "out_get"
    [] p = "safe_hint"   -> "safe_get"
    [] p = "parent_hint" -> "parent_get"
    [] p = "tx_hint"     -> "tx_get"
    [] p = "acct_hint"   -> "acct_get"
    [] p = "code_hint"   -> "code_get"

(* A read returns Ok with the header of number h. *)
Complete(h) ==
  /\ lastRead' = [tbl |-> req.tbl, n |-> req.n, got |-> h]
  /\ pc' = "idle"

(* The cache answers a read of table tbl at n: its own table, or for the *)
(* block info and the system config, the block they are computed from.  *)
CacheHit(tbl, n) ==
  \/ tbl \in cache[n]
  \/ tbl \in {"info", "sysconf"} /\ "block" \in cache[n]

(***************************************************************************)
(* header_by_number, block_by_number, l2_block_info_by_number and         *)
(* system_config_by_number: the cache lookups made before any await.      *)
(* A hit returns at once; a block read whose header is cached goes on to *)
(* the transactions; any other miss starts the walk from the safe head.  *)
(***************************************************************************)
ReadStart(tbl, n) ==
  /\ pc = "idle"
  /\ req' = [tbl |-> tbl, n |-> n]
  /\ \/ /\ CacheHit(tbl, n)
        /\ lastRead' = [tbl |-> tbl, n |-> n, got |-> n]
        /\ UNCHANGED <<pc, cur, tx>>
     \/ /\ ~CacheHit(tbl, n)
        /\ LET hdrCached == tbl # "header" /\ "header" \in cache[n]
           IN /\ cur' = IF hdrCached THEN n ELSE cur
              /\ tx' = 1
              /\ pc' = IF hdrCached THEN "tx_hint" ELSE "out_hint"
        /\ UNCHANGED lastRead
  /\ UNCHANGED <<cache, want>>
  /\ UNCHANGED oracleVars

(* Any hint of the provider: write it and block on the acknowledgement. *)
SendHint ==
  /\ pc \in HintPcs
  /\ WriteHint(HintAt)
  /\ UNCHANGED providerVars

HintAcked ==
  /\ pc \in HintPcs
  /\ ReadAck
  /\ pc' = GetAfter(pc)
  /\ UNCHANGED <<cache, req, cur, want, tx, lastRead>>

(* Any get of the provider: write it and block on the value. *)
SendGet ==
  /\ pc \in GetPcs
  /\ WriteGet(KeyAt)
  /\ UNCHANGED providerVars

(* The output preimage arrives; bytes 96..128 name the safe head, which  *)
(* header_by_hash fetches next.                                           *)
OutputReceived ==
  /\ pc = "out_get"
  /\ ReadValue
  /\ want' = Safe
  /\ pc' = "safe_hint"
  /\ UNCHANGED <<cache, req, cur, tx, lastRead>>

(* The header of number h is resolved: a header read returns it, a block *)
(* read goes on to fetch the transactions of that header.                *)
HeaderResolved(h) ==
  \/ req.tbl = "header" /\ Complete(h) /\ UNCHANGED tx
  \/ req.tbl # "header" /\ pc' = "tx_hint" /\ tx' = 1 /\ UNCHANGED lastRead

(* Mutant of WalkFrom: the walk refetches the header it holds instead of *)
(* its parent.                                                            *)
WalkFromNoStep(h) ==
  \/ h > req.n /\ want' = h /\ pc' = "parent_hint" /\ UNCHANGED <<tx, lastRead>>
  \/ h <= req.n /\ HeaderResolved(h) /\ UNCHANGED want

(* The walk `while header.number > block_number`: fetch the parent, or   *)
(* stop at the header held.                                               *)
WalkFrom(h) ==
  \/ h > req.n /\ want' = h - 1 /\ pc' = "parent_hint" /\ UNCHANGED <<tx, lastRead>>
  \/ h <= req.n /\ HeaderResolved(h) /\ UNCHANGED want

(* Mutant of SafeHeaderReceived: no "past L2 head" range check. *)
SafeHeaderReceivedNoRangeCheck ==
  /\ pc = "safe_get"
  /\ ReadValue
  /\ cur' = want
  /\ WalkFrom(want)
  /\ UNCHANGED <<cache, req>>

(* The safe head arrives: a number past it fails "Block number past L2  *)
(* head", any other starts the walk.                                    *)
SafeHeaderReceived ==
  /\ pc = "safe_get"
  /\ ReadValue
  /\ cur' = want
  /\ \/ req.n > want /\ pc' = "failed" /\ UNCHANGED <<want, tx, lastRead>>
     \/ req.n <= want /\ WalkFrom(want)
  /\ UNCHANGED <<cache, req>>

(* A parent header arrives during the walk. *)
ParentReceived ==
  /\ pc = "parent_get"
  /\ ReadValue
  /\ cur' = want
  /\ WalkFrom(want)
  /\ UNCHANGED <<cache, req>>

(* Mutant of TxNodeReceived: the node index runs one past the trie. *)
TxNodeReceivedOffByOne ==
  /\ pc = "tx_get"
  /\ ReadValue
  /\ \/ tx <= TxNodes /\ tx' = tx + 1 /\ UNCHANGED <<pc, lastRead>>
     \/ tx = TxNodes /\ Complete(cur) /\ UNCHANGED tx
  /\ UNCHANGED <<cache, req, cur, want>>

(* A node of the transactions trie arrives (OrderedListWalker hydrating  *)
(* the trie through trie_node_preimage); after the last one the block is *)
(* assembled and a block, block-info or system-config read returns.     *)
TxNodeReceived ==
  /\ pc = "tx_get"
  /\ ReadValue
  /\ \/ tx < TxNodes /\ tx' = tx + 1 /\ UNCHANGED <<pc, lastRead>>
     \/ tx = TxNodes /\ Complete(cur) /\ UNCHANGED tx
  /\ UNCHANGED <<cache, req, cur, want>>

(* The executor's account-proof node and code reads through the provider *)
(* (hint_account_proof + trie_node_preimage, then bytecode_by_hash).     *)
AcctReceived ==
  /\ pc = "acct_get"
  /\ ReadValue
  /\ pc' = "code_hint"
  /\ UNCHANGED <<cache, req, cur, want, tx, lastRead>>

CodeReceived ==
  /\ pc = "code_get"
  /\ ReadValue
  /\ pc' = "update"
  /\ UNCHANGED <<cache, req, cur, want, tx, lastRead>>

(* update_cache after the executed block req.n inserts the header, the  *)
(* block, the system config and the block info, in this order.          *)
UpdateCache ==
  /\ pc = "update"
  /\ cache' = [cache EXCEPT ![req.n] = Tables]
  /\ pc' = "idle"
  /\ UNCHANGED <<req, cur, want, tx, lastRead>>
  /\ UNCHANGED oracleVars

(* to_system_config or from_block_and_genesis fails: update_cache returns *)
(* the error after the inserts made before the failing conversion.       *)
UpdateCacheFails ==
  /\ pc = "update"
  /\ ConversionFaults
  /\ \E done \in {{"header", "block"}, {"header", "block", "sysconf"}} :
        cache' = [cache EXCEPT ![req.n] = @ \cup done]
  /\ pc' = "failed"
  /\ UNCHANGED <<req, cur, want, tx, lastRead>>
  /\ UNCHANGED oracleVars

(* The host end is gone while the task is blocked on a channel: the     *)
(* oracle call returns an I/O error, which every caller propagates.     *)
ChannelClosed ==
  /\ pc \in HintPcs \cup GetPcs
  /\ ClientBlocked
  /\ srv \in {"failed", "aborted"}
  /\ pc' = "failed"
  /\ UNCHANGED <<cache, req, cur, want, tx, lastRead>>
  /\ UNCHANGED oracleVars

(* Every step of the provider code except the read entry and update_cache. *)
ProviderStep ==
  \/ SendHint \/ HintAcked \/ SendGet
  \/ OutputReceived \/ SafeHeaderReceived \/ ParentReceived
  \/ TxNodeReceived \/ AcctReceived \/ CodeReceived
  \/ ChannelClosed

=============================================================================
