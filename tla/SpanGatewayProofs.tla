-------------------------- MODULE SpanGatewayProofs -------------------------
(***************************************************************************)
(* Proofs about SpanGateway for every set of requests and spans.          *)
(*                                                                         *)
(* TypeOK is not inductive by itself: ChildSucceeds writes into the      *)
(* directory of span[r], so a request that has a child must have a real  *)
(* span.  The strengthening says that a request's span is a real span    *)
(* from its arrival on, and that a handler that has not spawned has no   *)
(* child.                                                                  *)
(***************************************************************************)
EXTENDS SpanGateway, TLAPS

(* A request has a span once it has arrived, and a child only once it   *)
(* has spawned one.                                                      *)
SpanFixed ==
  \A r \in Reqs :
    /\ hpc[r] \in {"idle", "cli", "spawn"} => child[r] = "none"
    /\ hpc[r] # "idle" => span[r] \in Spans

IInv == TypeOK /\ SpanFixed

-----------------------------------------------------------------------------
USE NoneAssumption, RemoteFaultsAssumption

LEMMA InitIInv == Init => IInv
BY DEF Init, IInv, TypeOK, SpanFixed, HandlerPcs, ChildStates

LEMMA NextIInv == IInv /\ [Next]_vars => IInv'
<1> SUFFICES ASSUME IInv, [Next]_vars PROVE IInv'
  OBVIOUS
<1> USE DEF IInv, TypeOK, SpanFixed, HandlerPcs, ChildStates
<1>1. ASSUME NEW r \in Reqs, Receive(r) PROVE IInv'
  BY <1>1 DEF Receive
<1>2. ASSUME NEW r \in Reqs, GetHostCliArgs(r) PROVE IInv'
  BY <1>2 DEF GetHostCliArgs, Fail
<1>3. ASSUME NEW r \in Reqs, SpawnNativeHost(r) PROVE IInv'
  <2>1. CASE hpc' = [hpc EXCEPT ![r] = "wait"]
             /\ child' = [child EXCEPT ![r] = "running"]
    BY <1>3, <2>1 DEF SpawnNativeHost
  <2>2. CASE Fail(r) /\ UNCHANGED child
    BY <1>3, <2>2 DEF SpawnNativeHost, Fail
  <2>3. CASE hpc' = [hpc EXCEPT ![r] = "panic"] /\ UNCHANGED child
    BY <1>3, <2>3 DEF SpawnNativeHost
  <2>4. QED
    BY <1>3, <2>1, <2>2, <2>3 DEF SpawnNativeHost
<1>4. ASSUME NEW r \in Reqs, WaitReturns(r) PROVE IInv'
  BY <1>4 DEF WaitReturns
<1>5. ASSUME NEW r \in Reqs, TimeoutFires(r) PROVE IInv'
  BY <1>5 DEF TimeoutFires, Fail
<1>6. ASSUME NEW r \in Reqs, GetProofStdin(r) PROVE IInv'
  BY <1>6 DEF GetProofStdin, Fail
<1>7. ASSUME NEW r \in Reqs, RequestProof(r) PROVE IInv'
  BY <1>7 DEF RequestProof, Fail
<1>8. ASSUME NEW r \in Reqs, ChildSucceeds(r) PROVE IInv'
  BY <1>8 DEF ChildSucceeds
<1>9. ASSUME NEW r \in Reqs, ChildFails(r) PROVE IInv'
  BY <1>9 DEF ChildFails
<1>10. CASE Done \/ UNCHANGED vars
  BY <1>10 DEF Done, vars
<1>11. QED
  BY <1>1, <1>2, <1>3, <1>4, <1>5, <1>6, <1>7, <1>8, <1>9, <1>10
  DEF Next, Handler, Child, AwaitRun

(* Type correctness of the gateway's handlers and children for any      *)
(* number of requests and spans.                                         *)
THEOREM SpanTypeCorrect == Spec => []TypeOK
<1>1. IInv => TypeOK
  BY DEF IInv
<1>2. QED
  BY InitIInv, NextIInv, <1>1, PTL DEF Spec

=============================================================================
