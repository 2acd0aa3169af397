------------------------------ MODULE MCRecver ------------------------------
(***************************************************************************)
(* Instances of Recver for TLC: two recvers, so that the steps of one are  *)
(* seen beside those of the other; the threads are named by the cfg.       *)
(***************************************************************************)
EXTENDS Recver, TLC

Unset == {FALSE}           \* m_ready happened to be allocated in zeroed memory
Garbage == BOOLEAN         \* m_ready holds whatever the memory held

RecverSymmetry == Permutations(Recvers)
=============================================================================
