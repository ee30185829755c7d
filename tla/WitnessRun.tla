----------------------------- MODULE WitnessRun -----------------------------
(***************************************************************************)
(* What one witness-generation run promises its caller and the replay     *)
(* client, with the channels, the preimage server and the provider's      *)
(* walks hidden: the run starts or fails to start; while it runs, the     *)
(* executed head advances one block at a time up to the claimed block,    *)
(* and every number-keyed read that returns answers with the header of    *)
(* the number asked for, at or below the head; the run returns Ok only    *)
(* once the claimed block is executed, and may fail at any time.          *)
(*                                                                         *)
(* WitnessGen implements this specification under the identity mapping   *)
(* of head, lastRead and run (WitnessGen.ImplementsWitnessRun).           *)
(***************************************************************************)
EXTENDS Naturals

CONSTANTS
  Safe,     \* the safe head the run starts from
  Claimed,  \* the claimed block the run executes up to
  Tables,   \* the kinds of read: header, block, block info, system config
  NoRead    \* no read has returned yet

VARIABLES
  head,      \* the last block executed
  lastRead,  \* the last read that returned: table, number, header got
  run        \* "init", "running", "ok" or "err"

runVars == <<head, lastRead, run>>

(* The answers a read may give while the head is h. *)
Answers(h) == {[tbl |-> t, n |-> k, got |-> k] : t \in Tables, k \in 0 .. h}

Init ==
  /\ head = Safe
  /\ lastRead = NoRead
  /\ run = "init"

Start ==
  /\ run = "init"
  /\ run' \in {"running", "err"}
  /\ UNCHANGED <<head, lastRead>>

Execute ==
  /\ run = "running"
  /\ head < Claimed
  /\ head' = head + 1
  /\ UNCHANGED <<lastRead, run>>

Answer ==
  /\ run = "running"
  /\ lastRead' \in Answers(head)
  /\ UNCHANGED <<head, run>>

Finish ==
  /\ run = "running"
  /\ head = Claimed
  /\ run' = "ok"
  /\ UNCHANGED <<head, lastRead>>

Fail ==
  /\ run = "running"
  /\ run' = "err"
  /\ UNCHANGED <<head, lastRead>>

Next == Start \/ Execute \/ Answer \/ Finish \/ Fail

Spec == Init /\ [][Next]_runVars

=============================================================================
