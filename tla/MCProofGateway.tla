--------------------------- MODULE MCProofGateway ---------------------------
(* Small constants for model-checking ProofGateway: one aggregation       *)
(* request and one status request (the handlers share nothing but the     *)
(* proof network, which a status request reads), one span job, two L1     *)
(* blocks, payloads of at most two sub-proofs.                            *)
EXTENDS ProofGateway

CONSTANTS a1, q1, s1

MCAggReqs == {a1}
MCStatusReqs == {q1}
MCSpanIds == {s1}

(* Boot infos: o0 -> o1 at L1 block 1, o1 -> o2 at L1 block 2. *)
B01 == [pre |-> 0, post |-> 1, l1 |-> 1]
B12 == [pre |-> 1, post |-> 2, l1 |-> 2]

Envelope(b64, bin, proof, boot) ==
  [b64 |-> b64, bin |-> bin, abi |-> TRUE, proof |-> proof, boot |-> boot]

(* Two good compressed sub-proofs, a PLONK-shaped one, one whose bincode *)
(* does not decode, and a string that is not base64.                     *)
MCSubProofs ==
  { Envelope(TRUE, TRUE, "compressed", B01),
    Envelope(TRUE, TRUE, "compressed", B12),
    Envelope(TRUE, TRUE, "plonk", B12),
    Envelope(TRUE, FALSE, "compressed", B01),
    Envelope(FALSE, TRUE, "compressed", B01) }

HeadString(prefix, hex, len32, n) ==
  [prefix |-> prefix, hex |-> hex, len32 |-> len32, n |-> n]

(* Well-formed heads at both L1 blocks, and one of each malformed kind. *)
MCHeads ==
  { HeadString(TRUE, TRUE, TRUE, 1), HeadString(TRUE, TRUE, TRUE, 2),
    HeadString(FALSE, TRUE, TRUE, 2), HeadString(TRUE, FALSE, TRUE, 2),
    HeadString(TRUE, TRUE, FALSE, 2) }

MCL1Blocks == 1 .. 2
=============================================================================
