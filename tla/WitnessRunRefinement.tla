------------------------ MODULE WitnessRunRefinement ------------------------
(***************************************************************************)
(* Proof that WitnessGen implements the abstract run WitnessRun under the *)
(* identity mapping of head, lastRead and run.                            *)
(*                                                                         *)
(* Every step of WitnessGen is a step of WitnessRun or leaves head,        *)
(* lastRead and run alone.  The answers of reads rest on ReadSound, and   *)
(* so on the walk invariant of WitnessGenProofs.  Two more facts are      *)
(* needed: the client is at work only while run is "running" (a read     *)
(* answers, and a block is cached, only during the run), and the client  *)
(* is done only once the claimed block is executed (run returns Ok only  *)
(* then).                                                                  *)
(***************************************************************************)
EXTENDS WitnessGenProofs

(* The client is at work only during the run, and done only at Claimed. *)
RunActive ==
  /\ pc \notin {"init", "done", "failed"} => run = "running"
  /\ pc = "done" => head = Claimed

FInv == RInv /\ RunActive

(* The initial state, before OPSuccinctHost::run starts, satisfies FInv. *)
LEMMA InitFInv == Init => FInv
<1> SUFFICES ASSUME Init PROVE FInv
  OBVIOUS
<1>1. RInv
  <2>1. IInv
    BY InitIInv
  <2>2. WalkInv /\ ReadSound
    BY DEF Init, ProviderInit, WalkInv, ReadSound, Blocks, NoRead
  <2>3. QED
    BY <2>1, <2>2 DEF RInv
<1>2. RunActive
  BY DEF Init, ProviderInit, RunActive
<1>3. QED
  BY <1>1, <1>2 DEF FInv

(* No step starts the client outside the run or finishes it early: only *)
(* StartRun leaves "init", and ClientFinish needs head = Claimed.        *)
LEMMA NextRunActive == FInv /\ [Next]_vars => RunActive'
<1> SUFFICES ASSUME FInv, [Next]_vars PROVE RunActive'
  OBVIOUS
<1> USE DEF FInv, RInv, IInv, RunActive, RunPhase, ControlRanges, ExecPcs,
            HintPcs, GetPcs
<1>1. CASE OrchestratorStep
  BY <1>1 DEF OrchestratorStep, StartRun, StartFails, RunReturnsOk,
              RunReturnsErr, providerVars
<1>2. CASE Returned
  BY <1>2 DEF Returned, vars, providerVars, driverVars
<1>3. CASE PipelineRead
  BY <1>3 DEF PipelineRead, ReadStart
<1>4. CASE ExecuteBlock \/ ClientFinish
  BY <1>4 DEF ExecuteBlock, ClientFinish, driverVars
<1>5. CASE BlockCached \/ (UpdateCacheFails /\ UNCHANGED driverVars)
  BY <1>5 DEF BlockCached, UpdateCache, UpdateCacheFails, driverVars
<1>6. CASE ProviderStep /\ UNCHANGED driverVars
  BY <1>6 DEF ProviderStep, SendHint, HintAcked, SendGet, OutputReceived,
              SafeHeaderReceived, ParentReceived, TxNodeReceived, AcctReceived,
              CodeReceived, ChannelClosed, WalkFrom, HeaderResolved, Complete,
              GetAfter, providerVars, driverVars
<1>7. CASE ServerStep /\ UNCHANGED <<providerVars, driverVars>>
  BY <1>7 DEF providerVars, driverVars
<1>8. CASE UNCHANGED vars
  BY <1>8 DEF vars, providerVars, driverVars
<1>9. QED
  BY <1>1, <1>2, <1>3, <1>4, <1>5, <1>6, <1>7, <1>8 DEF Next, ClientStep

(* A step that leaves head and run alone and changes lastRead to a read *)
(* that satisfies ReadSound is an Answer of the abstract run.            *)
LEMMA AnswerStep ==
  ASSUME TypeOK', ReadSound', run = "running", head' = head, run' = run,
         lastRead' # NoRead
  PROVE  AbstractRun!Answer
<1>1. lastRead' \in [tbl : Tables, n : Blocks, got : Blocks]
  BY DEF TypeOK, ProviderTypeOK
<1>2. lastRead'.got = lastRead'.n /\ lastRead'.n <= head
  BY DEF ReadSound
<1>3. lastRead' = [tbl |-> lastRead'.tbl, n |-> lastRead'.n, got |-> lastRead'.n]
  BY <1>1, <1>2
<1>4. lastRead'.n \in 0 .. head
  BY <1>1, <1>2 DEF Blocks
<1>5. QED
  BY <1>1, <1>3, <1>4 DEF AbstractRun!Answer, AbstractRun!Answers


(* A provider step that ends a read sets lastRead to a read of a table, *)
(* since the read it ends was started on one.                            *)
LEMMA ProviderReadsTable ==
  ASSUME IInv, ProviderStep, lastRead' # lastRead
  PROVE  lastRead' # NoRead
<1> USE DEF IInv, ControlRanges, ReadPcs, NoRead, TypeOK, ProviderTypeOK, Tables
<1>1. CASE SafeHeaderReceived \/ ParentReceived \/ TxNodeReceived
  <2>1. lastRead'.tbl = req.tbl /\ pc \in ReadPcs
    BY <1>1 DEF SafeHeaderReceived, ParentReceived, TxNodeReceived, WalkFrom,
                HeaderResolved, Complete
  <2>2. QED
    BY <2>1
<1>2. CASE SendHint \/ HintAcked \/ SendGet \/ OutputReceived \/ AcctReceived
           \/ CodeReceived \/ ChannelClosed
  <2>1. lastRead' = lastRead
    BY <1>2 DEF SendHint, HintAcked, SendGet, OutputReceived, AcctReceived,
                CodeReceived, ChannelClosed, providerVars
  <2>2. QED
    BY <2>1
<1>3. QED
  BY <1>1, <1>2 DEF ProviderStep

(* Each step of WitnessGen is a step of WitnessRun or a stutter of it. *)
LEMMA StepRefines ==
  FInv /\ FInv' /\ [Next]_vars => [AbstractRun!Next]_AbstractRun!runVars
<1> SUFFICES ASSUME FInv, FInv', [Next]_vars
             PROVE  [AbstractRun!Next]_AbstractRun!runVars
  OBVIOUS
<1> DEFINE Stutter == UNCHANGED <<head, lastRead, run>>
<1>0. Stutter => [AbstractRun!Next]_AbstractRun!runVars
  BY DEF AbstractRun!runVars
<1>a. ASSUME head' = head, run' = run, run = "running", lastRead' # NoRead
      PROVE  [AbstractRun!Next]_AbstractRun!runVars
  <2>1. TypeOK' /\ ReadSound'
    BY DEF FInv, RInv, IInv
  <2>2. QED
    BY <1>a, <2>1, AnswerStep DEF AbstractRun!Next
<1>1. CASE StartRun \/ StartFails
  BY <1>1 DEF StartRun, StartFails, providerVars, AbstractRun!Next,
              AbstractRun!Start
<1>2. CASE RunReturnsOk
  BY <1>2 DEF RunReturnsOk, providerVars, FInv, RunActive,
              AbstractRun!Next, AbstractRun!Finish
<1>3. CASE RunReturnsErr
  BY <1>3 DEF RunReturnsErr, providerVars, AbstractRun!Next, AbstractRun!Fail
<1>4. CASE Returned
  BY <1>4, <1>0 DEF Returned, vars, providerVars, driverVars
<1>5. CASE PipelineRead
  <2>1. PICK tbl \in Tables, n \in Nat : ReadStart(tbl, n)
    BY <1>5 DEF PipelineRead
  <2>2. CASE lastRead' = lastRead
    BY <1>5, <2>2, <1>0 DEF PipelineRead
  <2>3. CASE lastRead' # lastRead
    <3>1. lastRead' = [tbl |-> tbl, n |-> n, got |-> n]
      BY <2>1, <2>3 DEF ReadStart
    <3>2. lastRead' # NoRead
      BY <3>1 DEF NoRead, Tables
    <3>3. QED
      BY <1>5, <3>2, <1>a DEF PipelineRead
  <2>4. QED
    BY <2>2, <2>3
<1>6. CASE ExecuteBlock \/ ClientFinish
  BY <1>6, <1>0 DEF ExecuteBlock, ClientFinish, driverVars
<1>7. CASE BlockCached
  <2>1. pc = "update"
    BY <1>7 DEF BlockCached, UpdateCache
  <2>2. run = "running" /\ req.n = head + 1 /\ head < Claimed
    BY <2>1 DEF FInv, RunActive, RInv, IInv, ControlRanges, ExecPcs
  <2>3. QED
    BY <1>7, <2>2 DEF BlockCached, UpdateCache, AbstractRun!Next,
                      AbstractRun!Execute
<1>8. CASE UpdateCacheFails /\ UNCHANGED driverVars
  BY <1>8, <1>0 DEF UpdateCacheFails, driverVars
<1>9. CASE ProviderStep /\ UNCHANGED driverVars
  <2>1. CASE lastRead' = lastRead
    BY <1>9, <2>1, <1>0 DEF driverVars
  <2>2. CASE lastRead' # lastRead
    <3>1. lastRead' # NoRead
      BY <1>9, <2>2, ProviderReadsTable DEF FInv, RInv
    <3>2. pc \notin {"init", "done", "failed"}
      BY <1>9 DEF ProviderStep, SendHint, HintAcked, SendGet, OutputReceived,
                  SafeHeaderReceived, ParentReceived, TxNodeReceived,
                  AcctReceived, CodeReceived, ChannelClosed, HintPcs, GetPcs
    <3>2a. run = "running"
      BY <3>2 DEF FInv, RunActive
    <3>3. QED
      BY <1>9, <3>1, <3>2a, <1>a DEF driverVars
  <2>3. QED
    BY <2>1, <2>2
<1>10. CASE ServerStep /\ UNCHANGED <<providerVars, driverVars>>
  BY <1>10, <1>0 DEF providerVars, driverVars
<1>11. CASE UNCHANGED vars
  BY <1>11, <1>0 DEF vars, providerVars, driverVars
<1>12. QED
  BY <1>1, <1>2, <1>3, <1>4, <1>5, <1>6, <1>7, <1>8, <1>9, <1>10, <1>11
  DEF Next, ClientStep, OrchestratorStep

(* OPSuccinctHost::run with the caching provider implements the abstract *)
(* run for every safe head, claimed block, trie size and read bound:     *)
(* reads answer with the header asked for, at or below the head, blocks *)
(* are executed one at a time up to the claimed block, and run returns   *)
(* Ok (lib.rs:141-145) only after the client executed the claimed block. *)
THEOREM ImplementsWitnessRunTheorem == Spec => ImplementsWitnessRun
<1>1. Init => FInv
  BY InitFInv
<1>2. FInv /\ [Next]_vars => FInv'
  BY NextIInv, NextWalkInv, NextRunActive DEF FInv, RInv
<1>3. FInv /\ FInv' /\ [Next]_vars => [AbstractRun!Next]_AbstractRun!runVars
  BY StepRefines
<1>4. Init => AbstractRun!Init
  BY DEF Init, ProviderInit, AbstractRun!Init
<1>5. QED
  BY <1>1, <1>2, <1>3, <1>4, PTL DEF Spec, ImplementsWitnessRun, AbstractRun!Spec

=============================================================================
