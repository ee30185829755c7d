--------------------------- MODULE WitnessGenProofs -------------------------
(***************************************************************************)
(* Proofs about WitnessGen for every value of the constants.              *)
(*                                                                         *)
(* TypeOK alone is not inductive: update_cache moves the head to req.n    *)
(* and the account hint names block req.n - 1, so the executor's control  *)
(* points need req.n = head + 1.  GetServable is not inductive either: it *)
(* holds because every get point is reached just after its own hint was  *)
(* routed and acknowledged, and no other hint is routed while the client *)
(* sits at a get point.  IInv states both facts about the channels.      *)
(***************************************************************************)
EXTENDS WitnessGen, TLAPS

(* The hint routed before each get point: the one written at the hint   *)
(* point that precedes it.                                              *)
GetHint ==
  CASE pc = "out_get"                     -> Hint("starting-l2-output", 0)
    [] pc \in {"safe_get", "parent_get"}  -> Hint("l2-block-header", want)
    [] pc = "tx_get"                      -> Hint("l2-transactions", cur)
    [] pc = "acct_get"                    -> Hint("l2-account-proof", req.n - 1)
    [] pc = "code_get"                    -> Hint("l2-code", req.n)

ExecPcs == {"acct_hint", "acct_get", "code_hint", "code_get", "update"}
ReadPcs == {"out_hint", "out_get", "safe_hint", "safe_get",
            "parent_hint", "parent_get", "tx_hint", "tx_get"}

(* The client uses one channel at a time, and only from its own points. *)
ChannelsCoupled ==
  /\ hintReq # NoHint => getReq = NoKey /\ ~getResp
  /\ hintAck => hintReq # NoHint /\ lastHint = hintReq
  /\ getResp => getReq # NoKey
  /\ pc \in HintPcs => getReq = NoKey /\ ~getResp
  /\ pc \in GetPcs => hintReq = NoHint /\ ~hintAck
  /\ pc \notin HintPcs \cup GetPcs \cup {"failed"} =>
        hintReq = NoHint /\ getReq = NoKey /\ ~hintAck /\ ~getResp
  /\ pc \in HintPcs /\ hintReq # NoHint => hintReq = HintAt

(* A get point is reached with its own hint as the last one routed. *)
HintPrecedesGet ==
  pc \in GetPcs => lastHint = GetHint

(* The executor works on the block after the head; a read on a table. *)
ControlRanges ==
  /\ pc \in ExecPcs => req.tbl = "exec" /\ req.n = head + 1 /\ head < Claimed
  /\ pc \in ReadPcs => req.tbl \in Tables

(* Before the run starts, the client has not begun and no server runs. *)
RunPhase ==
  run = "init" => pc = "init" /\ srv = "idle"

IInv ==
  /\ TypeOK
  /\ RunPhase
  /\ ChannelsCoupled
  /\ HintPrecedesGet
  /\ ControlRanges
  /\ GetServable

(* The header walk of a number-keyed read.  A cache row exists only for  *)
(* an executed block, except the partial row a failed update_cache       *)
(* leaves at head + 1.  The safe-head fetch holds the safe head.  A      *)
(* parent fetch never goes below the number asked for, which is at or    *)
(* below the safe head.  The transactions of a read are those of the     *)
(* header asked for, at or below the head.                               *)
WalkInv ==
  /\ \A n \in Blocks :
        cache[n] # {} => n <= head \/ (pc = "failed" /\ n = head + 1)
  /\ pc \in {"safe_hint", "safe_get"} => want = Safe
  /\ pc \in {"parent_hint", "parent_get"} => req.n <= want /\ req.n <= Safe
  /\ pc \in {"tx_hint", "tx_get"} => cur = req.n /\ req.n <= head

RInv == IInv /\ WalkInv /\ ReadSound

-----------------------------------------------------------------------------
USE SafeAssumption, ClaimedAssumption, TxNodesAssumption,
    UpstreamFaultsAssumption, ColdStoreAssumption, ConversionFaultsAssumption,
    MaxReadsAssumption, ReadAheadAssumption

(* A key of type Stores(tag) at block n is provided by hint (tag, n). *)
LEMMA ProvidesMember ==
  ASSUME NEW t, NEW tag, NEW n, NEW j,
         Key(t, n, j) \in Keys, Stores(tag) = t, tag # "none"
  PROVE  Key(t, n, j) \in Provides(Hint(tag, n))
BY DEF Provides, Key, Hint, NoHint

(* Every key a get point reads is one its own hint fetches. *)
LEMMA KeyProvidedByGetHint ==
  ASSUME TypeOK, ControlRanges, pc \in GetPcs
  PROVE  KeyAt \in Provides(GetHint)
<1>1. CASE pc = "out_get"
  <2>1. KeyAt = Key("output", 0, 0) /\ GetHint = Hint("starting-l2-output", 0)
    BY <1>1 DEF KeyAt, GetHint, OutputKey
  <2>2. Key("output", 0, 0) \in Keys
    BY <1>1 DEF TypeOK, ProviderTypeOK, Keys, Key, Blocks
  <2>3. Stores("starting-l2-output") = "output"
    BY DEF Stores
  <2>4. QED
    BY <2>1, <2>2, <2>3, ProvidesMember
<1>2. CASE pc \in {"safe_get", "parent_get"}
  <2>1. KeyAt = Key("header", want, 0) /\ GetHint = Hint("l2-block-header", want)
    BY <1>2 DEF KeyAt, GetHint
  <2>2. Key("header", want, 0) \in Keys
    BY <1>2 DEF TypeOK, ProviderTypeOK, Keys, Key, Blocks
  <2>3. Stores("l2-block-header") = "header"
    BY DEF Stores
  <2>4. QED
    BY <2>1, <2>2, <2>3, ProvidesMember
<1>3. CASE pc = "tx_get"
  <2>1. KeyAt = Key("txnode", cur, tx) /\ GetHint = Hint("l2-transactions", cur)
    BY <1>3 DEF KeyAt, GetHint
  <2>2. Key("txnode", cur, tx) \in Keys
    BY <1>3 DEF TypeOK, ProviderTypeOK, Keys, Key, Blocks
  <2>3. Stores("l2-transactions") = "txnode"
    BY DEF Stores
  <2>4. QED
    BY <2>1, <2>2, <2>3, ProvidesMember
<1>4. CASE pc = "acct_get"
  <2>1. KeyAt = Key("acct", req.n - 1, 0) /\ GetHint = Hint("l2-account-proof", req.n - 1)
    BY <1>4 DEF KeyAt, GetHint
  <2>2. Key("acct", req.n - 1, 0) \in Keys
    BY <1>4 DEF TypeOK, ProviderTypeOK, Keys, Key, Blocks, ControlRanges, ExecPcs
  <2>3. Stores("l2-account-proof") = "acct"
    BY DEF Stores
  <2>4. QED
    BY <2>1, <2>2, <2>3, ProvidesMember
<1>5. CASE pc = "code_get"
  <2>1. KeyAt = Key("code", req.n, 0) /\ GetHint = Hint("l2-code", req.n)
    BY <1>5 DEF KeyAt, GetHint
  <2>2. Key("code", req.n, 0) \in Keys
    BY <1>5 DEF TypeOK, ProviderTypeOK, Keys, Key, Blocks, ControlRanges, ExecPcs
  <2>3. Stores("l2-code") = "code"
    BY DEF Stores
  <2>4. QED
    BY <2>1, <2>2, <2>3, ProvidesMember
<1>6. QED
  BY <1>1, <1>2, <1>3, <1>4, <1>5 DEF GetPcs

(* Every hint point writes a hint the host knows. *)
LEMMA HintAtType ==
  ASSUME TypeOK, ControlRanges, pc \in HintPcs
  PROVE  HintAt \in Hints
<1> USE DEF TypeOK, ProviderTypeOK, Hints, Hint, Blocks
<1>1. CASE pc \in {"out_hint", "safe_hint", "parent_hint", "tx_hint"}
  BY <1>1 DEF HintAt
<1>2. CASE pc = "acct_hint"
  BY <1>2 DEF HintAt, ControlRanges, ExecPcs
<1>3. CASE pc = "code_hint"
  BY <1>3 DEF HintAt, ControlRanges, ExecPcs
<1>4. QED
  BY <1>1, <1>2, <1>3 DEF HintPcs

LEMMA InitIInv == Init => IInv
<1> SUFFICES ASSUME Init PROVE IInv
  OBVIOUS
<1>1. OracleTypeOK
  BY ColdStoreAssumption, Zenon DEF Init, OracleInit, OracleTypeOK, Hints, NoHint,
     NoKey, Hint, Key
<1>2. ProviderTypeOK
  BY DEF Init, ProviderInit, ProviderTypeOK, NoRead, Pcs, Blocks, Tables
<1>3. TypeOK
  BY <1>1, <1>2 DEF Init, TypeOK
<1>4. RunPhase /\ ChannelsCoupled
  BY DEF Init, OracleInit, ProviderInit, RunPhase, ChannelsCoupled, HintPcs,
     GetPcs
<1>5. HintPrecedesGet /\ ControlRanges
  BY DEF Init, ProviderInit, HintPrecedesGet, ControlRanges, GetPcs,
     ExecPcs, ReadPcs
<1>6. GetServable
  BY DEF Init, OracleInit, GetServable, GetPending
<1>7. QED
  BY <1>3, <1>4, <1>5, <1>6 DEF IInv

LEMMA NextIInv == IInv /\ [Next]_vars => IInv'
<1> SUFFICES ASSUME IInv, [Next]_vars PROVE IInv'
  OBVIOUS
<1> USE DEF IInv, HintPcs, GetPcs, Pcs, ExecPcs, ReadPcs, NoHint, NoKey, NoRead,
           Hint, Key, Blocks, Tables
<1>1. CASE StartRun
  <2> USE <1>1 DEF StartRun
  <2>1. TypeOK'
    <3>1. OracleTypeOK'
      BY DEF TypeOK, OracleTypeOK
    <3>2. ProviderTypeOK'
      BY DEF TypeOK, ProviderTypeOK
    <3>3. QED
      BY <3>1, <3>2 DEF TypeOK
  <2>2. RunPhase'
    BY DEF RunPhase
  <2>3. ChannelsCoupled'
    BY DEF ChannelsCoupled, RunPhase
  <2>4. HintPrecedesGet'
    BY DEF HintPrecedesGet, GetHint
  <2>5. ControlRanges'
    BY DEF ControlRanges
  <2>6. GetServable'
    BY DEF GetServable, GetPending
  <2>7. QED
    BY <2>1, <2>2, <2>3, <2>4, <2>5, <2>6
<1>2. CASE StartFails
  <2> USE <1>2 DEF StartFails, oracleVars, providerVars
  <2>1. TypeOK'
    <3>1. OracleTypeOK'
      BY DEF TypeOK, OracleTypeOK
    <3>2. ProviderTypeOK'
      BY DEF TypeOK, ProviderTypeOK
    <3>3. QED
      BY <3>1, <3>2 DEF TypeOK
  <2>2. RunPhase'
    BY DEF RunPhase
  <2>3. ChannelsCoupled'
    BY DEF ChannelsCoupled, HintAt
  <2>4. HintPrecedesGet'
    BY DEF HintPrecedesGet, GetHint
  <2>5. ControlRanges'
    BY DEF ControlRanges
  <2>6. GetServable'
    BY DEF GetServable, GetPending
  <2>7. QED
    BY <2>1, <2>2, <2>3, <2>4, <2>5, <2>6
<1>3. CASE RunReturnsOk
  <2> USE <1>3 DEF RunReturnsOk, providerVars
  <2>1. TypeOK'
    <3>1. OracleTypeOK'
      BY DEF TypeOK, OracleTypeOK
    <3>2. ProviderTypeOK'
      BY DEF TypeOK, ProviderTypeOK
    <3>3. QED
      BY <3>1, <3>2 DEF TypeOK
  <2>2. RunPhase'
    BY DEF RunPhase
  <2>3. ChannelsCoupled'
    BY DEF ChannelsCoupled, HintAt
  <2>4. HintPrecedesGet'
    BY DEF HintPrecedesGet, GetHint
  <2>5. ControlRanges'
    BY DEF ControlRanges
  <2>6. GetServable'
    BY DEF GetServable, GetPending
  <2>7. QED
    BY <2>1, <2>2, <2>3, <2>4, <2>5, <2>6
<1>4. CASE RunReturnsErr
  <2> USE <1>4 DEF RunReturnsErr, oracleVars, providerVars
  <2>1. TypeOK'
    <3>1. OracleTypeOK'
      BY DEF TypeOK, OracleTypeOK
    <3>2. ProviderTypeOK'
      BY DEF TypeOK, ProviderTypeOK
    <3>3. QED
      BY <3>1, <3>2 DEF TypeOK
  <2>2. RunPhase'
    BY DEF RunPhase
  <2>3. ChannelsCoupled'
    BY DEF ChannelsCoupled, HintAt
  <2>4. HintPrecedesGet'
    BY DEF HintPrecedesGet, GetHint
  <2>5. ControlRanges'
    BY DEF ControlRanges
  <2>6. GetServable'
    BY DEF GetServable, GetPending
  <2>7. QED
    BY <2>1, <2>2, <2>3, <2>4, <2>5, <2>6
<1>5. CASE Returned
  <2> USE <1>5 DEF Returned, vars, oracleVars, providerVars, driverVars
  <2>1. TypeOK'
    <3>1. OracleTypeOK'
      BY DEF TypeOK, OracleTypeOK
    <3>2. ProviderTypeOK'
      BY DEF TypeOK, ProviderTypeOK
    <3>3. QED
      BY <3>1, <3>2 DEF TypeOK
  <2>2. RunPhase'
    BY DEF RunPhase
  <2>3. ChannelsCoupled'
    BY DEF ChannelsCoupled, HintAt
  <2>4. HintPrecedesGet'
    BY DEF HintPrecedesGet, GetHint
  <2>5. ControlRanges'
    BY DEF ControlRanges
  <2>6. GetServable'
    BY DEF GetServable, GetPending
  <2>7. QED
    BY <2>1, <2>2, <2>3, <2>4, <2>5, <2>6
<1>6. CASE PipelineRead
  <2> USE <1>6 DEF PipelineRead, ReadStart, oracleVars
  <2>1. TypeOK'
    <3>1. OracleTypeOK'
      BY DEF TypeOK, OracleTypeOK
    <3>2. ProviderTypeOK'
      BY DEF TypeOK, ProviderTypeOK
    <3>3. QED
      BY <3>1, <3>2 DEF TypeOK
  <2>2. RunPhase'
    BY DEF RunPhase
  <2>3. ChannelsCoupled'
    BY DEF ChannelsCoupled, HintAt
  <2>4. HintPrecedesGet'
    BY DEF HintPrecedesGet, GetHint
  <2>5. ControlRanges'
    BY DEF ControlRanges
  <2>6. GetServable'
    BY DEF GetServable, GetPending
  <2>7. QED
    BY <2>1, <2>2, <2>3, <2>4, <2>5, <2>6
<1>7. CASE ExecuteBlock
  <2> USE <1>7 DEF ExecuteBlock, oracleVars, driverVars
  <2>1. TypeOK'
    <3>1. OracleTypeOK'
      BY DEF TypeOK, OracleTypeOK
    <3>2. ProviderTypeOK'
      BY DEF TypeOK, ProviderTypeOK
    <3>3. QED
      BY <3>1, <3>2 DEF TypeOK
  <2>2. RunPhase'
    BY DEF RunPhase
  <2>3. ChannelsCoupled'
    BY DEF ChannelsCoupled, HintAt
  <2>4. HintPrecedesGet'
    BY DEF HintPrecedesGet, GetHint
  <2>5. ControlRanges'
    BY DEF ControlRanges
  <2>6. GetServable'
    BY DEF GetServable, GetPending
  <2>7. QED
    BY <2>1, <2>2, <2>3, <2>4, <2>5, <2>6
<1>8. CASE BlockCached
  <2> USE <1>8 DEF BlockCached, UpdateCache, oracleVars
  <2>1. TypeOK'
    <3>1. OracleTypeOK'
      BY DEF TypeOK, OracleTypeOK
    <3>2. ProviderTypeOK'
      BY DEF TypeOK, ProviderTypeOK
    <3>3. QED
      BY <3>1, <3>2 DEF TypeOK, ControlRanges
  <2>2. RunPhase'
    BY DEF RunPhase
  <2>3. ChannelsCoupled'
    BY DEF ChannelsCoupled, HintAt
  <2>4. HintPrecedesGet'
    BY DEF HintPrecedesGet, GetHint
  <2>5. ControlRanges'
    BY DEF ControlRanges
  <2>6. GetServable'
    BY DEF GetServable, GetPending
  <2>7. QED
    BY <2>1, <2>2, <2>3, <2>4, <2>5, <2>6
<1>9. CASE ClientFinish
  <2> USE <1>9 DEF ClientFinish, oracleVars, driverVars
  <2>1. TypeOK'
    <3>1. OracleTypeOK'
      BY DEF TypeOK, OracleTypeOK
    <3>2. ProviderTypeOK'
      BY DEF TypeOK, ProviderTypeOK
    <3>3. QED
      BY <3>1, <3>2 DEF TypeOK
  <2>2. RunPhase'
    BY DEF RunPhase
  <2>3. ChannelsCoupled'
    BY DEF ChannelsCoupled, HintAt
  <2>4. HintPrecedesGet'
    BY DEF HintPrecedesGet, GetHint
  <2>5. ControlRanges'
    BY DEF ControlRanges
  <2>6. GetServable'
    BY DEF GetServable, GetPending
  <2>7. QED
    BY <2>1, <2>2, <2>3, <2>4, <2>5, <2>6
<1>10. CASE UpdateCacheFails /\ UNCHANGED driverVars
  <2> USE <1>10 DEF UpdateCacheFails, oracleVars, driverVars
  <2>1. TypeOK'
    <3>1. OracleTypeOK'
      BY DEF TypeOK, OracleTypeOK
    <3>2. ProviderTypeOK'
      BY DEF TypeOK, ProviderTypeOK
    <3>3. QED
      BY <3>1, <3>2 DEF TypeOK
  <2>2. RunPhase'
    BY DEF RunPhase
  <2>3. ChannelsCoupled'
    BY DEF ChannelsCoupled, HintAt
  <2>4. HintPrecedesGet'
    BY DEF HintPrecedesGet, GetHint
  <2>5. ControlRanges'
    BY DEF ControlRanges
  <2>6. GetServable'
    BY DEF GetServable, GetPending
  <2>7. QED
    BY <2>1, <2>2, <2>3, <2>4, <2>5, <2>6
<1>11. CASE SendHint /\ UNCHANGED driverVars
  <2> USE <1>11 DEF SendHint, WriteHint, providerVars, driverVars
  <2>1. TypeOK'
    <3>1. OracleTypeOK'
      BY HintAtType DEF TypeOK, OracleTypeOK, ChannelsCoupled
    <3>2. ProviderTypeOK'
      BY DEF TypeOK, ProviderTypeOK
    <3>3. QED
      BY <3>1, <3>2 DEF TypeOK
  <2>2. RunPhase'
    BY DEF RunPhase
  <2>3. ChannelsCoupled'
    BY DEF ChannelsCoupled, HintAt
  <2>4. HintPrecedesGet'
    BY DEF HintPrecedesGet, GetHint
  <2>5. ControlRanges'
    BY DEF ControlRanges
  <2>6. GetServable'
    BY DEF GetServable, GetPending
  <2>7. QED
    BY <2>1, <2>2, <2>3, <2>4, <2>5, <2>6
<1>12. CASE HintAcked /\ UNCHANGED driverVars
  <2> USE <1>12 DEF HintAcked, ReadAck, GetAfter, driverVars
  <2>1. TypeOK'
    <3>1. OracleTypeOK'
      BY Zenon DEF TypeOK, OracleTypeOK, ChannelsCoupled
    <3>2. ProviderTypeOK'
      BY DEF TypeOK, ProviderTypeOK
    <3>3. QED
      BY <3>1, <3>2 DEF TypeOK
  <2>2. RunPhase'
    BY DEF RunPhase
  <2>3. ChannelsCoupled'
    BY DEF ChannelsCoupled, HintAt
  <2>4. HintPrecedesGet'
    <3>1. lastHint' = HintAt
      BY DEF ChannelsCoupled
    <3>2. QED
      BY <3>1 DEF HintPrecedesGet, GetHint, HintAt
  <2>5. ControlRanges'
    BY DEF ControlRanges
  <2>6. GetServable'
    BY DEF GetServable, GetPending
  <2>7. QED
    BY <2>1, <2>2, <2>3, <2>4, <2>5, <2>6
<1>13. CASE SendGet /\ UNCHANGED driverVars
  <2> USE <1>13 DEF SendGet, WriteGet, providerVars, driverVars
  <2>1. TypeOK'
    <3>1. OracleTypeOK'
      BY KeyProvidedByGetHint DEF TypeOK, OracleTypeOK, Hints, Keys, Provides
    <3>2. ProviderTypeOK'
      BY DEF TypeOK, ProviderTypeOK
    <3>3. QED
      BY <3>1, <3>2 DEF TypeOK
  <2>2. RunPhase'
    BY DEF RunPhase
  <2>3. ChannelsCoupled'
    BY DEF ChannelsCoupled, HintAt
  <2>4. HintPrecedesGet'
    BY DEF HintPrecedesGet, GetHint
  <2>5. ControlRanges'
    BY DEF ControlRanges
  <2>6. GetServable'
    BY KeyProvidedByGetHint DEF GetServable, HintPrecedesGet
  <2>7. QED
    BY <2>1, <2>2, <2>3, <2>4, <2>5, <2>6
<1>14. CASE OutputReceived /\ UNCHANGED driverVars
  <2> USE <1>14 DEF OutputReceived, ReadValue, driverVars
  <2>1. TypeOK'
    <3>1. OracleTypeOK'
      BY Zenon DEF TypeOK, OracleTypeOK, ChannelsCoupled
    <3>2. ProviderTypeOK'
      BY DEF TypeOK, ProviderTypeOK
    <3>3. QED
      BY <3>1, <3>2 DEF TypeOK
  <2>2. RunPhase'
    BY DEF RunPhase
  <2>3. ChannelsCoupled'
    BY DEF ChannelsCoupled, HintAt
  <2>4. HintPrecedesGet'
    BY DEF HintPrecedesGet, GetHint
  <2>5. ControlRanges'
    BY DEF ControlRanges
  <2>6. GetServable'
    BY DEF GetServable, GetPending
  <2>7. QED
    BY <2>1, <2>2, <2>3, <2>4, <2>5, <2>6
<1>15. CASE SafeHeaderReceived /\ UNCHANGED driverVars
  <2> USE <1>15 DEF SafeHeaderReceived, ReadValue, WalkFrom, HeaderResolved, Complete, driverVars
  <2>1. TypeOK'
    <3>1. OracleTypeOK'
      BY Zenon DEF TypeOK, OracleTypeOK, ChannelsCoupled
    <3>2. ProviderTypeOK'
      BY DEF TypeOK, ProviderTypeOK
    <3>3. QED
      BY <3>1, <3>2 DEF TypeOK
  <2>2. RunPhase'
    BY DEF RunPhase
  <2>3. ChannelsCoupled'
    BY DEF ChannelsCoupled, HintAt
  <2>4. HintPrecedesGet'
    BY DEF HintPrecedesGet, GetHint
  <2>5. ControlRanges'
    BY DEF ControlRanges
  <2>6. GetServable'
    BY DEF GetServable, GetPending
  <2>7. QED
    BY <2>1, <2>2, <2>3, <2>4, <2>5, <2>6
<1>16. CASE ParentReceived /\ UNCHANGED driverVars
  <2> USE <1>16 DEF ParentReceived, ReadValue, WalkFrom, HeaderResolved, Complete, driverVars
  <2>1. TypeOK'
    <3>1. OracleTypeOK'
      BY Zenon DEF TypeOK, OracleTypeOK, ChannelsCoupled
    <3>2. ProviderTypeOK'
      BY DEF TypeOK, ProviderTypeOK
    <3>3. QED
      BY <3>1, <3>2 DEF TypeOK
  <2>2. RunPhase'
    BY DEF RunPhase
  <2>3. ChannelsCoupled'
    BY DEF ChannelsCoupled, HintAt
  <2>4. HintPrecedesGet'
    BY DEF HintPrecedesGet, GetHint
  <2>5. ControlRanges'
    BY DEF ControlRanges
  <2>6. GetServable'
    BY DEF GetServable, GetPending
  <2>7. QED
    BY <2>1, <2>2, <2>3, <2>4, <2>5, <2>6
<1>17. CASE TxNodeReceived /\ UNCHANGED driverVars
  <2> USE <1>17 DEF TxNodeReceived, ReadValue, Complete, driverVars
  <2>1. TypeOK'
    <3>1. OracleTypeOK'
      BY Zenon DEF TypeOK, OracleTypeOK, ChannelsCoupled
    <3>2. ProviderTypeOK'
      BY DEF TypeOK, ProviderTypeOK, ControlRanges
    <3>3. QED
      BY <3>1, <3>2 DEF TypeOK
  <2>2. RunPhase'
    BY DEF RunPhase
  <2>3. ChannelsCoupled'
    BY DEF ChannelsCoupled, HintAt
  <2>4. HintPrecedesGet'
    BY DEF HintPrecedesGet, GetHint
  <2>5. ControlRanges'
    BY DEF ControlRanges
  <2>6. GetServable'
    BY DEF GetServable, GetPending
  <2>7. QED
    BY <2>1, <2>2, <2>3, <2>4, <2>5, <2>6
<1>18. CASE AcctReceived /\ UNCHANGED driverVars
  <2> USE <1>18 DEF AcctReceived, ReadValue, driverVars
  <2>1. TypeOK'
    <3>1. OracleTypeOK'
      BY Zenon DEF TypeOK, OracleTypeOK, ChannelsCoupled
    <3>2. ProviderTypeOK'
      BY DEF TypeOK, ProviderTypeOK
    <3>3. QED
      BY <3>1, <3>2 DEF TypeOK
  <2>2. RunPhase'
    BY DEF RunPhase
  <2>3. ChannelsCoupled'
    BY DEF ChannelsCoupled, HintAt
  <2>4. HintPrecedesGet'
    BY DEF HintPrecedesGet, GetHint
  <2>5. ControlRanges'
    BY DEF ControlRanges
  <2>6. GetServable'
    BY DEF GetServable, GetPending
  <2>7. QED
    BY <2>1, <2>2, <2>3, <2>4, <2>5, <2>6
<1>19. CASE CodeReceived /\ UNCHANGED driverVars
  <2> USE <1>19 DEF CodeReceived, ReadValue, driverVars
  <2>1. TypeOK'
    <3>1. OracleTypeOK'
      BY Zenon DEF TypeOK, OracleTypeOK, ChannelsCoupled
    <3>2. ProviderTypeOK'
      BY DEF TypeOK, ProviderTypeOK
    <3>3. QED
      BY <3>1, <3>2 DEF TypeOK
  <2>2. RunPhase'
    BY DEF RunPhase
  <2>3. ChannelsCoupled'
    BY DEF ChannelsCoupled, HintAt
  <2>4. HintPrecedesGet'
    BY DEF HintPrecedesGet, GetHint
  <2>5. ControlRanges'
    BY DEF ControlRanges
  <2>6. GetServable'
    BY DEF GetServable, GetPending
  <2>7. QED
    BY <2>1, <2>2, <2>3, <2>4, <2>5, <2>6
<1>20. CASE ChannelClosed /\ UNCHANGED driverVars
  <2> USE <1>20 DEF ChannelClosed, oracleVars, driverVars
  <2>1. TypeOK'
    <3>1. OracleTypeOK'
      BY DEF TypeOK, OracleTypeOK
    <3>2. ProviderTypeOK'
      BY DEF TypeOK, ProviderTypeOK
    <3>3. QED
      BY <3>1, <3>2 DEF TypeOK
  <2>2. RunPhase'
    BY DEF RunPhase
  <2>3. ChannelsCoupled'
    BY DEF ChannelsCoupled, HintAt
  <2>4. HintPrecedesGet'
    BY DEF HintPrecedesGet, GetHint
  <2>5. ControlRanges'
    BY DEF ControlRanges
  <2>6. GetServable'
    BY DEF GetServable, GetPending
  <2>7. QED
    BY <2>1, <2>2, <2>3, <2>4, <2>5, <2>6
<1>21. CASE RouteHint /\ UNCHANGED <<providerVars, driverVars>>
  <2> USE <1>21 DEF RouteHint, providerVars, driverVars
  <2>1. TypeOK'
    <3>1. OracleTypeOK'
      BY DEF TypeOK, OracleTypeOK
    <3>2. ProviderTypeOK'
      BY DEF TypeOK, ProviderTypeOK
    <3>3. QED
      BY <3>1, <3>2 DEF TypeOK
  <2>2. RunPhase'
    BY DEF RunPhase
  <2>3. ChannelsCoupled'
    BY DEF ChannelsCoupled, HintAt
  <2>4. HintPrecedesGet'
    BY DEF HintPrecedesGet, ChannelsCoupled
  <2>5. ControlRanges'
    BY DEF ControlRanges
  <2>6. GetServable'
    BY DEF GetServable, GetPending, ChannelsCoupled
  <2>7. QED
    BY <2>1, <2>2, <2>3, <2>4, <2>5, <2>6
<1>22. CASE ServeGet /\ UNCHANGED <<providerVars, driverVars>>
  <2> USE <1>22 DEF ServeGet, GetPending, providerVars, driverVars
  <2>1. TypeOK'
    <3>1. OracleTypeOK'
      BY DEF TypeOK, OracleTypeOK
    <3>2. ProviderTypeOK'
      BY DEF TypeOK, ProviderTypeOK
    <3>3. QED
      BY <3>1, <3>2 DEF TypeOK
  <2>2. RunPhase'
    BY DEF RunPhase
  <2>3. ChannelsCoupled'
    BY DEF ChannelsCoupled, HintAt
  <2>4. HintPrecedesGet'
    BY DEF HintPrecedesGet, GetHint
  <2>5. ControlRanges'
    BY DEF ControlRanges
  <2>6. GetServable'
    BY DEF GetServable, GetPending
  <2>7. QED
    BY <2>1, <2>2, <2>3, <2>4, <2>5, <2>6
<1>23. CASE FetchLastHint /\ UNCHANGED <<providerVars, driverVars>>
  <2> USE <1>23 DEF FetchLastHint, GetPending, providerVars, driverVars
  <2>1. TypeOK'
    <3>1. OracleTypeOK'
      BY DEF TypeOK, OracleTypeOK, Provides
    <3>2. ProviderTypeOK'
      BY DEF TypeOK, ProviderTypeOK
    <3>3. QED
      BY <3>1, <3>2 DEF TypeOK
  <2>2. RunPhase'
    BY DEF RunPhase
  <2>3. ChannelsCoupled'
    BY DEF ChannelsCoupled, HintAt
  <2>4. HintPrecedesGet'
    BY DEF HintPrecedesGet, GetHint
  <2>5. ControlRanges'
    BY DEF ControlRanges
  <2>6. GetServable'
    BY DEF GetServable, GetPending
  <2>7. QED
    BY <2>1, <2>2, <2>3, <2>4, <2>5, <2>6
<1>24. CASE UpstreamFail /\ UNCHANGED <<providerVars, driverVars>>
  <2> USE <1>24 DEF UpstreamFail, GetPending, providerVars, driverVars
  <2>1. TypeOK'
    <3>1. OracleTypeOK'
      BY DEF TypeOK, OracleTypeOK
    <3>2. ProviderTypeOK'
      BY DEF TypeOK, ProviderTypeOK
    <3>3. QED
      BY <3>1, <3>2 DEF TypeOK
  <2>2. RunPhase'
    BY DEF RunPhase
  <2>3. ChannelsCoupled'
    BY DEF ChannelsCoupled, HintAt
  <2>4. HintPrecedesGet'
    BY DEF HintPrecedesGet, GetHint
  <2>5. ControlRanges'
    BY DEF ControlRanges
  <2>6. GetServable'
    BY DEF GetServable, GetPending
  <2>7. QED
    BY <2>1, <2>2, <2>3, <2>4, <2>5, <2>6
<1>25. CASE UNCHANGED vars
  <2> USE <1>25 DEF vars, oracleVars, providerVars, driverVars
  <2>1. TypeOK'
    <3>1. OracleTypeOK'
      BY DEF TypeOK, OracleTypeOK
    <3>2. ProviderTypeOK'
      BY DEF TypeOK, ProviderTypeOK
    <3>3. QED
      BY <3>1, <3>2 DEF TypeOK
  <2>2. RunPhase'
    BY DEF RunPhase
  <2>3. ChannelsCoupled'
    BY DEF ChannelsCoupled, HintAt
  <2>4. HintPrecedesGet'
    BY DEF HintPrecedesGet, GetHint
  <2>5. ControlRanges'
    BY DEF ControlRanges
  <2>6. GetServable'
    BY DEF GetServable, GetPending
  <2>7. QED
    BY <2>1, <2>2, <2>3, <2>4, <2>5, <2>6
<1>26. QED
  BY <1>1, <1>2, <1>3, <1>4, <1>5, <1>6, <1>7, <1>8, <1>9, <1>10, <1>11, <1>12, <1>13, <1>14, <1>15, <1>16, <1>17, <1>18, <1>19, <1>20, <1>21, <1>22, <1>23, <1>24, <1>25
  DEF Next, OrchestratorStep, ClientStep, ProviderStep, ServerStep

(* The walk invariant and ReadSound are preserved by every step. *)
LEMMA NextWalkInv == RInv /\ [Next]_vars => (WalkInv /\ ReadSound)'
<1> SUFFICES ASSUME RInv, [Next]_vars PROVE (WalkInv /\ ReadSound)'
  OBVIOUS
<1> USE DEF RInv, IInv, TypeOK, ProviderTypeOK, ControlRanges, ExecPcs,
            ReadPcs, Blocks, NoRead
<1>1. CASE StartRun
  <2> USE <1>1 DEF StartRun
  <2>1. WalkInv'
    BY DEF WalkInv, RunPhase
  <2>2. ReadSound'
    BY DEF ReadSound, WalkInv
  <2>3. QED
    BY <2>1, <2>2
<1>2. CASE StartFails
  <2> USE <1>2 DEF StartFails, oracleVars, providerVars
  <2>1. WalkInv'
    BY DEF WalkInv
  <2>2. ReadSound'
    BY DEF ReadSound, WalkInv
  <2>3. QED
    BY <2>1, <2>2
<1>3. CASE RunReturnsOk
  <2> USE <1>3 DEF RunReturnsOk, providerVars
  <2>1. WalkInv'
    BY DEF WalkInv
  <2>2. ReadSound'
    BY DEF ReadSound, WalkInv
  <2>3. QED
    BY <2>1, <2>2
<1>4. CASE RunReturnsErr
  <2> USE <1>4 DEF RunReturnsErr, oracleVars, providerVars
  <2>1. WalkInv'
    BY DEF WalkInv
  <2>2. ReadSound'
    BY DEF ReadSound, WalkInv
  <2>3. QED
    BY <2>1, <2>2
<1>5. CASE Returned
  <2> USE <1>5 DEF Returned, vars, oracleVars, providerVars, driverVars
  <2>1. WalkInv'
    BY DEF WalkInv
  <2>2. ReadSound'
    BY DEF ReadSound, WalkInv
  <2>3. QED
    BY <2>1, <2>2
<1>6. CASE PipelineRead
  <2> USE <1>6 DEF PipelineRead, ReadStart, CacheHit, oracleVars
  <2>1. WalkInv'
    BY DEF WalkInv
  <2>2. ReadSound'
    BY DEF ReadSound, WalkInv
  <2>3. QED
    BY <2>1, <2>2
<1>7. CASE ExecuteBlock
  <2> USE <1>7 DEF ExecuteBlock, oracleVars, driverVars
  <2>1. WalkInv'
    BY DEF WalkInv
  <2>2. ReadSound'
    BY DEF ReadSound, WalkInv
  <2>3. QED
    BY <2>1, <2>2
<1>8. CASE BlockCached
  <2> USE <1>8 DEF BlockCached, UpdateCache, oracleVars
  <2>1. WalkInv'
    BY DEF WalkInv
  <2>2. ReadSound'
    BY DEF ReadSound, WalkInv
  <2>3. QED
    BY <2>1, <2>2
<1>9. CASE ClientFinish
  <2> USE <1>9 DEF ClientFinish, oracleVars, driverVars
  <2>1. WalkInv'
    BY DEF WalkInv
  <2>2. ReadSound'
    BY DEF ReadSound, WalkInv
  <2>3. QED
    BY <2>1, <2>2
<1>10. CASE UpdateCacheFails /\ UNCHANGED driverVars
  <2> USE <1>10 DEF UpdateCacheFails, oracleVars, driverVars
  <2>1. WalkInv'
    BY DEF WalkInv
  <2>2. ReadSound'
    BY DEF ReadSound, WalkInv
  <2>3. QED
    BY <2>1, <2>2
<1>11. CASE SendHint /\ UNCHANGED driverVars
  <2> USE <1>11 DEF SendHint, WriteHint, providerVars, driverVars
  <2>1. WalkInv'
    BY DEF WalkInv
  <2>2. ReadSound'
    BY DEF ReadSound, WalkInv
  <2>3. QED
    BY <2>1, <2>2
<1>12. CASE HintAcked /\ UNCHANGED driverVars
  <2> USE <1>12 DEF HintAcked, ReadAck, GetAfter, driverVars
  <2>1. WalkInv'
    BY DEF WalkInv, HintPcs
  <2>2. ReadSound'
    BY DEF ReadSound, WalkInv
  <2>3. QED
    BY <2>1, <2>2
<1>13. CASE SendGet /\ UNCHANGED driverVars
  <2> USE <1>13 DEF SendGet, WriteGet, providerVars, driverVars
  <2>1. WalkInv'
    BY DEF WalkInv
  <2>2. ReadSound'
    BY DEF ReadSound, WalkInv
  <2>3. QED
    BY <2>1, <2>2
<1>14. CASE OutputReceived /\ UNCHANGED driverVars
  <2> USE <1>14 DEF OutputReceived, ReadValue, driverVars
  <2>1. WalkInv'
    BY DEF WalkInv
  <2>2. ReadSound'
    BY DEF ReadSound, WalkInv
  <2>3. QED
    BY <2>1, <2>2
<1>15. CASE SafeHeaderReceived /\ UNCHANGED driverVars
  <2> USE <1>15 DEF SafeHeaderReceived, ReadValue, WalkFrom, HeaderResolved, Complete, driverVars
  <2>1. WalkInv'
    BY DEF WalkInv
  <2>2. ReadSound'
    BY DEF ReadSound, WalkInv
  <2>3. QED
    BY <2>1, <2>2
<1>16. CASE ParentReceived /\ UNCHANGED driverVars
  <2> USE <1>16 DEF ParentReceived, ReadValue, WalkFrom, HeaderResolved, Complete, driverVars
  <2>1. WalkInv'
    BY DEF WalkInv
  <2>2. ReadSound'
    BY DEF ReadSound, WalkInv
  <2>3. QED
    BY <2>1, <2>2
<1>17. CASE TxNodeReceived /\ UNCHANGED driverVars
  <2> USE <1>17 DEF TxNodeReceived, ReadValue, Complete, driverVars
  <2>1. WalkInv'
    BY DEF WalkInv
  <2>2. ReadSound'
    BY DEF ReadSound, WalkInv
  <2>3. QED
    BY <2>1, <2>2
<1>18. CASE AcctReceived /\ UNCHANGED driverVars
  <2> USE <1>18 DEF AcctReceived, ReadValue, driverVars
  <2>1. WalkInv'
    BY DEF WalkInv
  <2>2. ReadSound'
    BY DEF ReadSound, WalkInv
  <2>3. QED
    BY <2>1, <2>2
<1>19. CASE CodeReceived /\ UNCHANGED driverVars
  <2> USE <1>19 DEF CodeReceived, ReadValue, driverVars
  <2>1. WalkInv'
    BY DEF WalkInv
  <2>2. ReadSound'
    BY DEF ReadSound, WalkInv
  <2>3. QED
    BY <2>1, <2>2
<1>20. CASE ChannelClosed /\ UNCHANGED driverVars
  <2> USE <1>20 DEF ChannelClosed, oracleVars, driverVars
  <2>1. WalkInv'
    BY DEF WalkInv
  <2>2. ReadSound'
    BY DEF ReadSound, WalkInv
  <2>3. QED
    BY <2>1, <2>2
<1>21. CASE RouteHint /\ UNCHANGED <<providerVars, driverVars>>
  <2> USE <1>21 DEF RouteHint, providerVars, driverVars
  <2>1. WalkInv'
    BY DEF WalkInv
  <2>2. ReadSound'
    BY DEF ReadSound, WalkInv
  <2>3. QED
    BY <2>1, <2>2
<1>22. CASE ServeGet /\ UNCHANGED <<providerVars, driverVars>>
  <2> USE <1>22 DEF ServeGet, providerVars, driverVars
  <2>1. WalkInv'
    BY DEF WalkInv
  <2>2. ReadSound'
    BY DEF ReadSound, WalkInv
  <2>3. QED
    BY <2>1, <2>2
<1>23. CASE FetchLastHint /\ UNCHANGED <<providerVars, driverVars>>
  <2> USE <1>23 DEF FetchLastHint, providerVars, driverVars
  <2>1. WalkInv'
    BY DEF WalkInv
  <2>2. ReadSound'
    BY DEF ReadSound, WalkInv
  <2>3. QED
    BY <2>1, <2>2
<1>24. CASE UpstreamFail /\ UNCHANGED <<providerVars, driverVars>>
  <2> USE <1>24 DEF UpstreamFail, providerVars, driverVars
  <2>1. WalkInv'
    BY DEF WalkInv
  <2>2. ReadSound'
    BY DEF ReadSound, WalkInv
  <2>3. QED
    BY <2>1, <2>2
<1>25. CASE UNCHANGED vars
  <2> USE <1>25 DEF vars, oracleVars, providerVars, driverVars
  <2>1. WalkInv'
    BY DEF WalkInv
  <2>2. ReadSound'
    BY DEF ReadSound, WalkInv
  <2>3. QED
    BY <2>1, <2>2
<1>26. QED
  BY <1>1, <1>2, <1>3, <1>4, <1>5, <1>6, <1>7, <1>8, <1>9, <1>10, <1>11, <1>12, <1>13, <1>14, <1>15, <1>16, <1>17, <1>18, <1>19, <1>20, <1>21, <1>22, <1>23, <1>24, <1>25
  DEF Next, OrchestratorStep, ClientStep, ProviderStep, ServerStep

-----------------------------------------------------------------------------
(* Type correctness: every state of a run gives each variable of the     *)
(* host channels, the provider and the driver a value of its type; in    *)
(* particular the account hint of the executor never names block -1 and  *)
(* the head never passes the claimed block.                              *)
THEOREM TypeCorrect == Spec => []TypeOK
<1>1. Init => IInv
  BY InitIInv
<1>2. IInv /\ [Next]_vars => IInv'
  BY NextIInv
<1>3. IInv => TypeOK
  BY DEF IInv
<1>4. QED
  BY <1>1, <1>2, <1>3, PTL DEF Spec

(* No get of the provider ever waits at the host on a key that is neither *)
(* stored nor fetched by the last hint routed, for every safe head,      *)
(* claimed block and trie size: the server never loops on a miss.        *)
THEOREM GetServableInvariant == Spec => []GetServable
<1>1. Init => IInv
  BY InitIInv
<1>2. IInv /\ [Next]_vars => IInv'
  BY NextIInv
<1>3. IInv => GetServable
  BY DEF IInv
<1>4. QED
  BY <1>1, <1>2, <1>3, PTL DEF Spec

(* Every number-keyed read of the provider that returns Ok returns the  *)
(* header of the number asked for, of a block at or below the safe head *)
(* or already executed, for every safe head, claimed block, trie size   *)
(* and read bound: the range check and the parent walk of               *)
(* header_by_number and the cache lookups of the four read functions    *)
(* (l2_chain_provider.rs:84-202) never answer with another block.       *)
THEOREM ReadSoundInvariant == Spec => []ReadSound
<1>1. Init => RInv
  <2> SUFFICES ASSUME Init PROVE RInv
    OBVIOUS
  <2>1. IInv
    BY InitIInv
  <2>2. WalkInv /\ ReadSound
    BY DEF Init, ProviderInit, WalkInv, ReadSound, Blocks, NoRead
  <2>3. QED
    BY <2>1, <2>2 DEF RInv
<1>2. RInv /\ [Next]_vars => RInv'
  BY NextIInv, NextWalkInv DEF RInv
<1>3. RInv => ReadSound
  BY DEF RInv
<1>4. QED
  BY <1>1, <1>2, <1>3, PTL DEF Spec

=============================================================================
