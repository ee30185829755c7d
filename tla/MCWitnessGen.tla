---------------------------- MODULE MCWitnessGen ----------------------------
(* Small instances of WitnessGen for TLC: the safe head at block 2, two   *)
(* blocks to execute, two nodes per transactions trie.                    *)
EXTENDS WitnessGen

MCSafe == 2
MCClaimed == 4
MCTxNodes == 2
=============================================================================
