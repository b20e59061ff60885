----------------------------- MODULE MCBufferPool ------------------------------
(***************************************************************************)
(* Instances of BufferPool for TLC: the threads are interchangeable.       *)
(***************************************************************************)
EXTENDS BufferPool

TxSymmetry == Permutations(Txs)
================================================================================
