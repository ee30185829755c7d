------------------------- MODULE ProofGatewayProofs -------------------------
(***************************************************************************)
(* Proofs about ProofGateway for every set of requests, sub-proof         *)
(* envelopes and heads.                                                    *)
(*                                                                         *)
(* TypeOK is not inductive by itself: FetchHeaders builds a stdin from  *)
(* req[a] and StatusAnswered reads net[polled[q]], so the strengthening   *)
(* says that a busy aggregation handler holds a decoded payload and a     *)
(* busy status handler holds a job id.                                     *)
(***************************************************************************)
EXTENDS ProofGateway, TLAPS

(* A handler that has received its request holds a well-formed payload. *)
PayloadHeld == \A a \in AggReqs : apc[a] # "idle" => req[a] \in Payloads

(* A status handler that has received its request knows the proof id. *)
IdHeld == \A q \in StatusReqs : spc[q] # "idle" => polled[q] \in Ids

IInv == TypeOK /\ PayloadHeld /\ IdHeld

-----------------------------------------------------------------------------
USE AggAssumption, BoundAssumption, EnvelopeAssumption

(* The stdin get_agg_proof_stdin builds from a payload is well typed:   *)
(* one proof per sub-proof, their boot infos, and L1 blocks only.       *)
LEMMA AggStdinType ==
  ASSUME NEW p \in Payloads
  PROVE  AggStdin(p, HeaderChain(p))
           \in [proofs : Seq(Modes), boots : Seq(Boots),
                head : L1Blocks, headers : SUBSET L1Blocks]
<1>1. PICK k \in 1 .. MaxSubproofs : p.subs \in [1 .. k -> SubProofs]
  BY DEF Payloads
<1>2. [i \in 1 .. k |-> p.subs[i].proof] \in Seq(Modes)
  BY <1>1
<1>3. [i \in 1 .. k |-> p.subs[i].boot] \in Seq(Boots)
  BY <1>1 DEF Boots
<1>4. p.head.n \in L1Blocks
  BY DEF Payloads
<1>5. HeaderChain(p) \subseteq L1Blocks
  BY DEF HeaderChain
<1>6. QED
  BY <1>1, <1>2, <1>3, <1>4, <1>5 DEF AggStdin, BootInfos

LEMMA InitIInv == Init => IInv
BY DEF Init, IInv, TypeOK, PayloadHeld, IdHeld, AggPcs,
       JobStates, StatusPcs, Ids

LEMMA NextIInv == IInv /\ [Next]_vars => IInv'
<1> SUFFICES ASSUME IInv, [Next]_vars PROVE IInv'
  OBVIOUS
<1> USE DEF IInv, TypeOK, PayloadHeld, IdHeld, AggPcs,
            JobStates, StatusPcs, Ids, SetApc
<1>1. ASSUME NEW a \in AggReqs, ReceiveAgg(a) PROVE IInv'
  <2>1. PICK p \in Payloads : req' = [req EXCEPT ![a] = p]
    BY <1>1 DEF ReceiveAgg
  <2>3. PICK w \in {"rejected", "panic", "err", "fetch"} : apc' = [apc EXCEPT ![a] = w]
    BY <1>1 DEF ReceiveAgg
  <2>4. QED
    BY <1>1, <2>1, <2>3 DEF ReceiveAgg
<1>2. ASSUME NEW a \in AggReqs, FetchHeaders(a) PROVE IInv'
  <2>1. req[a] \in Payloads
    BY <1>2 DEF FetchHeaders
  <2>2. AggStdin(req[a], HeaderChain(req[a]))
          \in [proofs : Seq(Modes), boots : Seq(Boots),
               head : L1Blocks, headers : SUBSET L1Blocks]
    BY <2>1, AggStdinType
  <2>3. CASE /\ AllCompressed(req[a])
             /\ stdin' = [stdin EXCEPT ![a] = AggStdin(req[a], HeaderChain(req[a]))]
             /\ SetApc(a, "prove")
    BY <1>2, <2>2, <2>3 DEF FetchHeaders
  <2>4. CASE UNCHANGED stdin /\ (SetApc(a, "panic") \/ SetApc(a, "err"))
    BY <1>2, <2>4 DEF FetchHeaders
  <2>5. QED
    BY <1>2, <2>3, <2>4 DEF FetchHeaders
<1>3. ASSUME NEW a \in AggReqs, RequestAggProof(a) PROVE IInv'
  <2>1. CASE net' = [net EXCEPT ![a] = "requested"] /\ SetApc(a, "ok")
    BY <1>3, <2>1 DEF RequestAggProof
  <2>2. CASE SetApc(a, "err") /\ UNCHANGED net
    BY <1>3, <2>2 DEF RequestAggProof
  <2>3. QED
    BY <1>3, <2>1, <2>2 DEF RequestAggProof
<1>4. ASSUME NEW q \in StatusReqs, ReceiveStatus(q) PROVE IInv'
  <2>1. PICK id \in Ids : polled' = [polled EXCEPT ![q] = id]
    BY <1>4 DEF ReceiveStatus
  <2>2. UNCHANGED <<apc, req, stdin, net, resp>>
    BY <1>4 DEF ReceiveStatus
  <2>3. CASE spc' = [spc EXCEPT ![q] = "poll"]
    BY <1>4, <2>1, <2>2, <2>3 DEF ReceiveStatus
  <2>4. CASE spc' = [spc EXCEPT ![q] = "err"]
    BY <1>4, <2>1, <2>2, <2>4 DEF ReceiveStatus
  <2>5. QED
    BY <1>4, <2>3, <2>4 DEF ReceiveStatus
<1>9. ASSUME NEW q \in StatusReqs, StatusTimeout(q) PROVE IInv'
  BY <1>9 DEF StatusTimeout
<1>8. ASSUME NEW q \in StatusReqs, StatusAnswered(q) PROVE IInv'
  <2>1. polled[q] \in Ids /\ StatusBytes(polled[q]) \in ProofBytes
    BY <1>8 DEF StatusAnswered, StatusBytes, ProofBytes
  <2>2. UNCHANGED <<apc, req, stdin, net, polled>>
    BY <1>8 DEF StatusAnswered
  <2>3. CASE resp' = [resp EXCEPT ![q] = [status |-> net[polled[q]],
                                         bytes |-> StatusBytes(polled[q])]]
             /\ spc' = [spc EXCEPT ![q] = "ok"]
    <3>1. [status |-> net[polled[q]], bytes |-> StatusBytes(polled[q])]
            \in [status : JobStates, bytes : ProofBytes]
      BY <2>1
    <3>2. TypeOK'
      BY <2>2, <2>3, <3>1
    <3>3. IdHeld'
      BY <2>1, <2>2, <2>3
    <3>4. QED
      BY <2>2, <2>3, <3>2, <3>3
  <2>4. CASE spc' = [spc EXCEPT ![q] = "err"] /\ UNCHANGED resp
    <3>1. TypeOK'
      BY <2>2, <2>4
    <3>2. IdHeld'
      BY <2>1, <2>2, <2>4
    <3>3. QED
      BY <2>2, <2>4, <3>1, <3>2
  <2>5. QED
    BY <1>8, <2>3, <2>4 DEF StatusAnswered
<1>5. ASSUME NEW id \in Ids, JobSettles(id) PROVE IInv'
  <2>1. PICK st \in {"fulfilled", "unfulfillable"} : net' = [net EXCEPT ![id] = st]
    BY <1>5 DEF JobSettles
  <2>2. net[id] = "requested"
    BY <1>5 DEF JobSettles
  <2>3. QED
    BY <1>5, <2>1, <2>2 DEF JobSettles
<1>6. CASE Done \/ UNCHANGED vars
  <2>1. UNCHANGED vars
    BY <1>6 DEF Done
  <2>2. QED
    BY <2>1 DEF vars
<1>7. QED
  BY <1>1, <1>2, <1>3, <1>4, <1>5, <1>6, <1>8, <1>9 DEF Next, AggHandler, StatusHandler

(* The aggregation and status handlers and the network's jobs stay well *)
(* typed for any sets of requests, envelopes and heads.                  *)
THEOREM ProofGatewayTypeCorrect == Spec => []TypeOK
<1>1. IInv => TypeOK
  BY DEF IInv
<1>2. QED
  BY InitIInv, NextIInv, <1>1, PTL DEF Spec

=============================================================================
